------------------------ MODULE PlacementSessionProofs ------------------------
(***************************************************************************)
(* What a session has, and what it leaves at the Worker.                   *)
(*                                                                         *)
(* A row at rest has no tunnel, as every way to rest has fenced the        *)
(* lease's tunnel before its swap, or takes back a boot that no host can   *)
(* have enrolled for (TunnelInv).                                          *)
(*                                                                         *)
(* A row that is shown RUNNING has its tunnel, its volume and its meter.   *)
(* A retire of a running computer can be taken back, by its caller or by   *)
(* the settlement of its mark, so these are kept for every row that may be *)
(* shown RUNNING again, in whatever state it is by then (SessInv).         *)
(***************************************************************************)
EXTENDS PlacementRestProofs

\* No tunnel, and what the enrollments under way may still ask for is fenced.
Enrolling(v) == v.pc \in {"consume", "tunnel"}
Untunneled ==
    /\ tunnel.rec = 0
    /\ \A p \in Procs : Enrolling(proc[p]) => proc[p].snap.epoch <= tunnel.fence
\* No tunnel of the row's lease, nor of an earlier one, comes any more.
Fenced == tunnel.rec = 0 /\ row.epoch <= tunnel.fence

\* An in-place start that Step Functions does not know.
IdleStart(j) == BootOf(j) /\ exec[j].op = "start" /\ exec[j].st = "absent"
\* The marked end of a computer at rest, which may be taken back to rest.
MarkedEnd(r) == r.err = "unknown:STOPPED" /\ r.state \in Stopping \cup {"RETIRING"}

\* What the tunnel has of the row and its boot.
RowTunnel ==
    /\ tunnel.rec <= row.epoch /\ tunnel.fence <= row.epoch
    /\ row.state \in AtRest \/ MarkedEnd(row) => Untunneled
    /\ \A j \in Jobs : IdleStart(j) => Untunneled

\* What it has of an invocation that fenced it, or may take a retire back.
Fencing == {"final", "lost", "release", "gencas"}
RestUndo(v) == v.pc = "start" /\ v.kind \in {"uretire", "rretire"} /\ v.undo = "STOPPED"
ProcTunnel(v) ==
    /\ v.pc \in Fencing /\ Same(v.snap) => Fenced
    /\ RestUndo(v) /\ Same(v.snap) => Untunneled

TunnelInv == RowTunnel /\ \A p \in Procs : ProcTunnel(proc[p])

-----------------------------------------------------------------------------
(* One step of one invocation.                                             *)

\* What may happen to the tunnel: nothing, a removal through an epoch that was
\* leased, or a create for an enrollment that asks for it.
TunnelMoves ==
    \/ tunnel' = tunnel
    \/ \E e \in 0..row.epoch : tunnel' = deleteTunnel(e)
    \/ \E q \in Procs : /\ proc[q].pc = "tunnel" /\ createTunnelAllowed(proc[q].snap.epoch)
                        /\ tunnel' = createTunnel(proc[q].snap.epoch)

\* The types of the tunnel and of the epochs it is compared with.
LEMMA EpochsAre ==
    ASSUME Inv2
    PROVE  /\ tunnel.rec \in Nat /\ tunnel.fence \in Nat /\ row.epoch \in Nat
           /\ \A p \in Procs :
                /\ proc[p].snap.epoch \in Nat
                /\ proc[p].snap.state # "NONE" \/ Enrolling(proc[p]) =>
                     proc[p].snap.epoch <= row.epoch
<1>1. tunnel.rec \in Nat /\ tunnel.fence \in Nat /\ row.epoch \in Nat
  BY Bounds DEF Inv2, Inv1, TypeOK, Row
<1>2. ASSUME NEW p \in Procs
      PROVE  /\ proc[p].snap.epoch \in Nat
             /\ proc[p].snap.state # "NONE" \/ Enrolling(proc[p]) =>
                  proc[p].snap.epoch <= row.epoch
  <2> PICK s : s = proc[p].snap
    OBVIOUS
  <2>1. s \in Row /\ SnapInv(s) /\ RowOK(s) /\ (Enrolling(proc[p]) => s.state # "NONE")
    BY DEF Inv2, Inv1, ProcsOK, RowOK, ProcsInv, ProcInv, EnrollInv, Enrolling
  <2>2. s.epoch \in Nat
    BY <2>1, SnapIs DEF Inv2
  <2>3. s.state # "NONE" => s.epoch <= row.epoch
    BY <2>1 DEF SnapInv
  <2> QED BY <1>1, <2>1, <2>2, <2>3
<1> QED BY <1>1, <1>2

\* What moves the tunnel keeps its bounds.
LEMMA TunnelBounds ==
    ASSUME Inv2, TunnelInv, TunnelMoves, row.epoch <= row'.epoch, row'.epoch \in Nat
    PROVE  tunnel'.rec <= row'.epoch /\ tunnel'.fence <= row'.epoch
<1>1. /\ tunnel.rec \in Nat /\ tunnel.fence \in Nat /\ row.epoch \in Nat
      /\ tunnel.rec <= row.epoch /\ tunnel.fence <= row.epoch
  BY EpochsAre DEF TunnelInv, RowTunnel
<1>2. CASE tunnel' = tunnel
  BY <1>1, <1>2
<1>3. ASSUME NEW e \in 0..row.epoch, tunnel' = deleteTunnel(e)
      PROVE  tunnel'.rec <= row'.epoch /\ tunnel'.fence <= row'.epoch
  BY <1>1, <1>3 DEF deleteTunnel
<1>4. ASSUME NEW q \in Procs, proc[q].pc = "tunnel", tunnel' = createTunnel(proc[q].snap.epoch)
      PROVE  tunnel'.rec <= row'.epoch /\ tunnel'.fence <= row'.epoch
  BY <1>1, <1>4, EpochsAre DEF createTunnel, Enrolling
<1> QED BY <1>2, <1>3, <1>4 DEF TunnelMoves

\* A tunnel that was fenced stays so within its lease.
LEMMA FencedStays ==
    ASSUME Inv2, TunnelInv, TunnelMoves, row'.epoch = row.epoch, Fenced
    PROVE  Fenced'
<1>1. /\ tunnel.rec \in Nat /\ tunnel.fence \in Nat /\ row.epoch \in Nat
      /\ tunnel.rec = 0 /\ row.epoch <= tunnel.fence
  BY EpochsAre DEF Fenced
<1>2. ASSUME NEW e \in 0..row.epoch, tunnel' = deleteTunnel(e)
      PROVE  Fenced'
  BY <1>1, <1>2 DEF deleteTunnel, Fenced
<1>3. ASSUME NEW q \in Procs, proc[q].pc = "tunnel", createTunnelAllowed(proc[q].snap.epoch)
      PROVE  FALSE
  BY <1>1, <1>3, EpochsAre DEF createTunnelAllowed, Enrolling
<1> QED BY <1>1, <1>2, <1>3 DEF TunnelMoves, Fenced

\* No enrollment begins.
NoneEnrolls ==
    \A q \in Procs : Enrolling(proc'[q]) =>
        Enrolling(proc[q]) /\ proc'[q].snap.epoch = proc[q].snap.epoch

\* Without a tunnel, and without an enrollment that begins, none comes.
LEMMA UntunneledStays ==
    ASSUME Inv2, TunnelMoves, NoneEnrolls, Untunneled
    PROVE  Untunneled'
<1>1. /\ tunnel.rec \in Nat /\ tunnel.fence \in Nat /\ row.epoch \in Nat /\ tunnel.rec = 0
      /\ \A q \in Procs : /\ proc[q].snap.epoch \in Nat
                          /\ Enrolling(proc[q]) => proc[q].snap.epoch <= tunnel.fence
  BY EpochsAre DEF Untunneled
<1>2. ASSUME tunnel'.rec = 0, tunnel'.fence \in Nat, tunnel.fence <= tunnel'.fence
      PROVE  Untunneled'
  BY <1>1, <1>2 DEF NoneEnrolls, Untunneled, Enrolling
<1>3. ASSUME NEW e \in 0..row.epoch, tunnel' = deleteTunnel(e)
      PROVE  Untunneled'
  <2>1. tunnel'.rec = 0 /\ tunnel'.fence \in Nat /\ tunnel.fence <= tunnel'.fence
    BY <1>1, <1>3 DEF deleteTunnel
  <2> QED BY <1>2, <2>1
<1>4. ASSUME NEW q \in Procs, proc[q].pc = "tunnel", createTunnelAllowed(proc[q].snap.epoch)
      PROVE  FALSE
  BY <1>1, <1>4 DEF createTunnelAllowed, Enrolling
<1> QED BY <1>1, <1>2, <1>3, <1>4 DEF TunnelMoves

\* A fenced tunnel is one that does not come.
LEMMA FencedIs ==
    ASSUME Inv2, Fenced
    PROVE  Untunneled
BY EpochsAre DEF Fenced, Untunneled

\* What an invocation goes on with: nothing it would be wrong about, or what
\* the tunnel of before or of after answers for.
StillSame(s) == s.state # "NONE" /\ s.epoch = row'.epoch
ProcFits(w, v) ==
    /\ Enrolling(w) => Enrolling(v) /\ w.snap.epoch = v.snap.epoch
    /\ w.pc \in Fencing /\ StillSame(w.snap) => Fenced'
    /\ RestUndo(w) /\ StillSame(w.snap) => Untunneled

\* What a row that was written has of the tunnel: no swap but a lease takes
\* another epoch, and none brings to rest what may have a tunnel.
RowFits ==
    /\ row.epoch <= row'.epoch
    /\ row'.state \in AtRest \/ MarkedEnd(row') => Untunneled
    /\ \A j \in Jobs : IdleStart(j)' => Untunneled

\* A read of the row's lease was one of it before.
LEMMA SameBefore ==
    ASSUME Inv2, Inv1', row.epoch <= row'.epoch, NEW q \in Procs, proc'[q] = proc[q],
           StillSame(proc'[q].snap)
    PROVE  Same(proc[q].snap) /\ row'.epoch = row.epoch
<1> PICK s : s = proc[q].snap
  OBVIOUS
<1>1. s.state # "NONE" /\ s.epoch = row'.epoch
  BY DEF StillSame
<1>2. s.epoch <= row.epoch /\ row.epoch \in Nat
  BY <1>1, EpochsAre
<1>3. row'.epoch \in Nat
  BY Bounds DEF Inv1, TypeOK, Row
<1> QED BY <1>1, <1>2, <1>3 DEF Same

\* A step of p that fits keeps what the tunnel has of all.
LEMMA TunnelKept ==
    ASSUME Inv2, Inv1', TunnelInv, TunnelMoves, RowFits, NEW p,
           \A q \in Procs : q # p => proc'[q] = proc[q],
           p \in Procs => ProcFits(proc'[p], proc[p])
    PROVE  TunnelInv'
<1>1. NoneEnrolls
  BY DEF NoneEnrolls, ProcFits
<1>2. Untunneled => Untunneled'
  BY <1>1, UntunneledStays
<1>3. row.epoch <= row'.epoch /\ row'.epoch \in Nat
  BY Bounds DEF RowFits, Inv1, TypeOK, Row
<1>4. RowTunnel'
  <2>1. tunnel'.rec <= row'.epoch /\ tunnel'.fence <= row'.epoch
    BY <1>3, TunnelBounds
  <2> QED BY <1>2, <2>1 DEF RowFits, RowTunnel
<1>5. ASSUME NEW q \in Procs
      PROVE  ProcTunnel(proc[q])'
  <2> PICK w : w = proc'[q]
    OBVIOUS
  <2>1. CASE q = p
    BY <1>2, <2>1 DEF ProcFits, ProcTunnel, StillSame, Same, RestUndo
  <2>2. CASE q # p
    <3>1. w = proc[q] /\ ProcTunnel(proc[q])
      BY <2>2 DEF TunnelInv
    <3>2. StillSame(w.snap) => Same(w.snap) /\ row'.epoch = row.epoch
      BY <1>3, <2>2, <3>1, SameBefore
    <3>3. w.pc \in Fencing /\ StillSame(w.snap) => Fenced'
      BY <3>1, <3>2, FencedStays DEF ProcTunnel
    <3>4. RestUndo(w) /\ StillSame(w.snap) => Untunneled'
      BY <1>2, <3>1, <3>2 DEF ProcTunnel
    <3> QED BY <3>3, <3>4 DEF ProcTunnel, StillSame, Same, RestUndo
  <2> QED BY <2>1, <2>2
<1> QED BY <1>4, <1>5 DEF TunnelInv

\* The invocation goes on without a fence, an enrollment or a retire.
Plain(pc, kind) ==
    /\ pc \in Pc \ (Fencing \cup {"consume", "tunnel"}) /\ kind \in Kind
    /\ pc = "start" => kind \notin {"uretire", "rretire"}

\* What such an invocation goes on with fits.
LEMMA PlainFits ==
    ASSUME Inv2, NEW p \in Procs, NEW pc, NEW s \in Row, NEW kind, Plain(pc, kind),
           Goto(p, pc, s, kind)
    PROVE  ProcFits(proc'[p], proc[p]) /\ \A q \in Procs : q # p => proc'[q] = proc[q]
<1>1. /\ \A q \in Procs : q # p => proc'[q] = proc[q]
      /\ proc'[p].pc = pc /\ (pc \notin Resets => proc'[p].kind = kind)
  BY GotoIs DEF Inv2, Inv1, TypeOK, Plain
<1> QED BY <1>1 DEF Plain, ProcFits, Enrolling, RestUndo, Resets

\* A row and jobs that stay, but for one that starts to run, fit.
LEMMA SameFitsTunnel ==
    ASSUME Inv2, TunnelInv, row' = row,
           \A j \in Jobs : /\ exec'[j].op = exec[j].op /\ exec'[j].epoch = exec[j].epoch
                           /\ exec'[j].st = "absent" => exec[j].st = "absent"
    PROVE  RowFits
<1>1. \A j \in Jobs : IdleStart(j)' => IdleStart(j)
  BY DEF IdleStart, BootOf
<1> QED BY <1>1, EpochsAre DEF TunnelInv, RowTunnel, RowFits

\* A swap of the row's own lease fits, if what it brings to rest has no tunnel.
LEMMA SwapFitsTunnel ==
    ASSUME Inv2, TunnelInv, NEW wins, NEW r, NEW effect, casInTx(wins, r, effect),
           wins => r.epoch = row.epoch,
           wins /\ (r.state \in AtRest \/ MarkedEnd(r)) => Untunneled
    PROVE  RowFits
<1>1. exec' = exec
  BY DEF casInTx
<1>2. CASE ~wins
  <2>1. row' = row
    BY <1>2 DEF casInTx
  <2> QED BY <1>1, <2>1, SameFitsTunnel
<1>3. CASE wins
  <2>1. row' = r /\ row'.epoch = row.epoch
    BY <1>3 DEF casInTx, Write
  <2>2. \A j \in Jobs : IdleStart(j)' => IdleStart(j)
    BY <1>1, <2>1 DEF IdleStart, BootOf
  <2> QED BY <1>3, <2>1, <2>2, EpochsAre DEF TunnelInv, RowTunnel, RowFits
<1> QED BY <1>2, <1>3

\* One swap of an invocation that goes on plainly.
LEMMA PlainSwap ==
    ASSUME Inv2, Inv1', TunnelInv, NEW p \in Procs, NEW wins, NEW r, NEW effect,
           casInTx(wins, r, effect), tunnel' = tunnel, wins => r.epoch = row.epoch,
           wins /\ (r.state \in AtRest \/ MarkedEnd(r)) => Untunneled,
           NEW pc, NEW s \in Row, NEW kind, Plain(pc, kind), Goto(p, pc, s, kind)
    PROVE  TunnelInv'
<1>1. RowFits
  BY SwapFitsTunnel
<1>2. ProcFits(proc'[p], proc[p]) /\ \A q \in Procs : q # p => proc'[q] = proc[q]
  BY PlainFits
<1> QED BY <1>1, <1>2, TunnelKept DEF TunnelMoves

\* One compare-and-swap whose winner and loser go on plainly.
LEMMA StepTunnel ==
    ASSUME Inv2, Inv1', TunnelInv, NEW p \in Procs, NEW wins, NEW r, NEW effect, NEW pc, NEW lose,
           step(p, wins, r, effect, pc, lose), tunnel' = tunnel,
           wins => r.epoch = row.epoch,
           wins /\ (r.state \in AtRest \/ MarkedEnd(r)) => Untunneled,
           pc \in Pc \ (Fencing \cup {"consume", "tunnel", "start"}),
           lose \in Pc \ (Fencing \cup {"consume", "tunnel", "start"})
    PROVE  TunnelInv'
<1> DEFINE to == IF wins THEN pc ELSE lose
           s == IF wins THEN r ELSE proc[p].snap
<1>1. casInTx(wins, r, effect) /\ Goto(p, to, s, proc[p].kind)
  BY DEF step
<1>2. proc[p].snap \in Row /\ proc[p].kind \in Kind
  BY ProcIs DEF Inv2
<1>3. s \in Row /\ Plain(to, proc[p].kind)
  <2>1. wins => row' = r /\ row' \in Row
    BY <1>1 DEF casInTx, Write, Inv1, TypeOK
  <2> QED BY <1>2, <2>1 DEF Plain
<1> HIDE DEF to, s
<1> QED BY <1>1, <1>3, PlainSwap

\* An invocation that swaps nothing and goes on plainly.
LEMMA PlainMove ==
    ASSUME Inv2, Inv1', TunnelInv, TunnelMoves, NEW p \in Procs, UNCHANGED <<row, exec>>,
           NEW pc, NEW s \in Row, NEW kind, Plain(pc, kind), Goto(p, pc, s, kind)
    PROVE  TunnelInv'
<1>1. RowFits
  BY SameFitsTunnel
<1>2. ProcFits(proc'[p], proc[p]) /\ \A q \in Procs : q # p => proc'[q] = proc[q]
  BY PlainFits
<1> QED BY <1>1, <1>2, TunnelKept

-----------------------------------------------------------------------------
(* The receipts.                                                           *)

\* The pcs of an invocation that only reads or ends.
Ending == {"idle", "reread", "again", "softdelete", "receipt", "act", "undo", "purge", "recover"}

\* None of them fences, enrolls or starts.
LEMMA EndingIsPlain == Ending \subseteq Pc \ (Fencing \cup {"consume", "tunnel", "start"})
BY DEF Ending, Pc, Fencing

\* What is in a row that was read, and in the row.
LEMMA RowsAre ==
    ASSUME Inv2, NEW p \in Procs
    PROVE  row \in Row /\ proc[p].snap \in Row /\ proc[p].kind \in Kind
BY ProcIs DEF Inv2, Inv1, TypeOK

\* A receipt's outcomes that leave the row out of rest.
LEMMA ReceiptTunnel ==
    ASSUME Inv2, Inv1', TunnelInv, NEW p \in Procs,
           ReceiptMounted(p) \/ ReceiptFailed(p) \/ ReceiptDraining(p) \/ ReceiptBooted(p)
    PROVE  TunnelInv'
<1> DEFINE s == proc[p].snap
<1>1. row \in Row /\ s \in Row /\ proc[p].kind \in Kind /\ tunnel' = tunnel
  BY RowsAre DEF ReceiptMounted, ReceiptFailed, ReceiptDraining, ReceiptBooted, world
<1>2. Ending \subseteq Pc \ (Fencing \cup {"consume", "tunnel", "start"})
  BY EndingIsPlain
<1>3. CASE ReceiptMounted(p)
  <2>1. CASE step(p, CasReconciler(s), [row EXCEPT !.state = "RUNNING"], "none", "reread", "reread")
    BY <1>1, <1>2, <2>1, StepTunnel DEF AtRest, MarkedEnd, Stopping, Ending, Row
  <2>2. ASSUME casInTx(CasExact(s),
                     [row EXCEPT !.state = "UNCONFIRMED", !.nonce = "none",
                                 !.err = "enroll_tunnel_failed"], "none"),
               Goto(p, IF CasExact(s) THEN "recover" ELSE "reread", row', "hostretire")
        PROVE  TunnelInv'
    <3>1. row' \in Row
      BY DEF Inv1, TypeOK
    <3>2. Plain("recover", "hostretire") /\ Plain("reread", "hostretire")
      BY <1>2 DEF Plain, Ending, Kind
    <3> QED BY <1>1, <2>2, <3>1, <3>2, PlainSwap DEF AtRest, MarkedEnd, Row
  <2>3. CASE Goto(p, "reread", NoRow, "none") /\ UNCHANGED rowVars
    BY <1>1, <1>2, <2>3, PlainMove, Bounds DEF Plain, Ending, Kind, rowVars, TunnelMoves
  <2> QED BY <1>3, <2>1, <2>2, <2>3 DEF ReceiptMounted
<1>4. CASE ReceiptFailed(p)
  <2>1. CASE Goto(p, "reread", NoRow, "none") /\ UNCHANGED rowVars
    BY <1>1, <1>2, <2>1, PlainMove, Bounds DEF Plain, Ending, Kind, rowVars, TunnelMoves
  <2>2. ASSUME NEW err, NEW job, err # "unknown:STOPPED",
               step(p, CasReconciler(s),
                      [row EXCEPT !.state = "UNCONFIRMED", !.nonce = "none", !.err = err,
                                  !.job = job], "none", "reread", "reread")
        PROVE  TunnelInv'
    <3> DEFINE r == [row EXCEPT !.state = "UNCONFIRMED", !.nonce = "none", !.err = err,
                                !.job = job]
    <3>1. r.epoch = row.epoch /\ r.state \notin AtRest /\ ~MarkedEnd(r)
      BY <1>1, <2>2 DEF AtRest, MarkedEnd, Row
    <3>2. step(p, CasReconciler(s), r, "none", "reread", "reread")
      BY <2>2
    <3> HIDE DEF r
    <3> QED BY <1>1, <1>2, <3>1, <3>2, StepTunnel DEF Ending
  <2> DEFINE host == isEnrollmentHostRetire(s)
             err == IF host THEN "enroll_tunnel_failed" ELSE "failed"
             job == IF host THEN 0 ELSE row.job
  <2>3. \/ Goto(p, "reread", NoRow, "none") /\ UNCHANGED rowVars
        \/ step(p, CasReconciler(s), [row EXCEPT !.state = "UNCONFIRMED", !.nonce = "none",
                                                 !.err = err, !.job = job],
                "none", "reread", "reread")
    BY <1>4 DEF ReceiptFailed
  <2>4. err # "unknown:STOPPED"
    OBVIOUS
  <2> HIDE DEF host, err, job
  <2> QED BY <2>1, <2>2, <2>3, <2>4
<1>5. CASE ReceiptDraining(p)
  <2>1. s.state = "DRAINING" /\ step(p, CasReconciler(s), [row EXCEPT !.state = "STOPPING"], "none",
                                     "receipt", "reread")
    BY <1>5 DEF ReceiptDraining
  <2>2. CasReconciler(s) => row.state \in Stopping
    BY <2>1 DEF CasReconciler, CasUser, Stopping
  <2>3. CasReconciler(s) /\ row.err = "unknown:STOPPED" => Untunneled
    BY <2>2 DEF TunnelInv, RowTunnel, MarkedEnd
  <2> QED BY <1>1, <1>2, <2>1, <2>3, StepTunnel DEF AtRest, MarkedEnd, Ending, Row
<1>6. CASE ReceiptBooted(p)
  <2>1. ASSUME NEW r, NEW effect, NEW pc \in {"reread", "receipt"},
               r.epoch = row.epoch, r.state \in {"RUNNING", "STARTING", "MOUNTING"},
               step(p, CasReconciler(s), r, effect, pc, "reread")
        PROVE  TunnelInv'
    BY <1>1, <1>2, <2>1, StepTunnel DEF AtRest, MarkedEnd, Stopping, Ending
  <2> DEFINE done == [row EXCEPT !.job = 0, !.vol = TRUE, !.inst = ResultInstance(exec[s.job])]
             run == [done EXCEPT !.state = "RUNNING"]
             mount == [done EXCEPT !.state = "MOUNTING"]
             go == IF enrolled(s) THEN "receipt" ELSE "reread"
  <2>0. /\ run.epoch = row.epoch /\ run.state = "RUNNING" /\ go \in {"reread", "receipt"}
        /\ mount.epoch = row.epoch /\ mount.state = "MOUNTING"
    BY <1>1 DEF Row
  <2>2. CASE step(p, CasReconciler(s), run, "open", "reread", "reread")
    <3> HIDE DEF run
    <3> QED BY <2>0, <2>1, <2>2
  <2>3. CASE step(p, CasReconciler(s), [row EXCEPT !.state = "STARTING"], "none", "receipt", "reread")
    BY <1>1, <2>1, <2>3 DEF Row
  <2>4. CASE step(p, CasReconciler(s), mount, "open", go, "reread")
    <3> HIDE DEF mount, go
    <3> QED BY <2>0, <2>1, <2>4
  <2> QED BY <1>6, <2>2, <2>3, <2>4 DEF ReceiptBooted
<1> QED BY <1>3, <1>4, <1>5, <1>6

\* A marked start that never ran is taken back to rest only if nobody can have
\* enrolled for it.
LEMMA UndoneHasNone ==
    ASSUME Inv2, TunnelInv, NEW p \in Procs, NEW s, s = proc[p].snap, CasReconciler(s),
           s.err \in StartUnknown, lifecycleStartUnknownUndo(s) \in AtRest,
           \/ s.state \in Stopping \cup {"RETIRING"}
           \/ s.state \in Waiting /\ s.job # 0 /\ exec[s.job].st = "absent"
    PROVE  Untunneled
<1>1. s \in Row /\ CasUser(s) /\ row.err = s.err /\ row.state = s.state
  BY RowsAre DEF CasReconciler, CasUser
<1>2. s.state # "NONE"
  BY DEF Stopping, Waiting, IN_FLIGHT_STATES
<1>3. s.err = "unknown:STOPPED"
  <2>1. RecordedUndo[s.err] \in AtRest
    BY DEF lifecycleStartUnknownUndo, AtRest
  <2> QED BY <2>1 DEF RecordedUndo, StartUnknown, AtRest
<1>4. "STOPPED" \in PLACEMENT_TRANSITIONS[s.state]
  BY <1>3 DEF lifecycleStartUnknownUndo, AtRest, RecordedUndo
<1>5. CASE s.state \in Stopping \cup {"RETIRING"}
  BY <1>1, <1>3, <1>5 DEF TunnelInv, RowTunnel, MarkedEnd
<1>6. CASE s.state \in Booting /\ s.job # 0 /\ exec[s.job].st = "absent"
  <2>1. s.job = row.job /\ s.job \in Jobs /\ BootOf(s.job)
    BY <1>1, <1>2, <1>6, Found
  <2>2. exec[row.job].op = "start"
    BY <1>1, <1>3, <1>6 DEF Inv2, RowInv
  <2> QED BY <1>6, <2>1, <2>2 DEF TunnelInv, RowTunnel, IdleStart
<1>7. s.job # 0 => s.state # "MOUNTING"
  BY <1>1, <1>2, Found DEF JobFits
<1>8. s.state # "UNCONFIRMED"
  BY <1>4, TransitionsAre
<1> QED BY <1>5, <1>6, <1>7, <1>8 DEF Waiting, IN_FLIGHT_STATES, Booting, Stopping

\* What a settled start is taken back to.
LEMMA SettledFits ==
    ASSUME Inv2, TunnelInv, NEW p \in Procs, NEW s, s = proc[p].snap, CasReconciler(s),
           s.err \in StartUnknown,
           \/ s.state \in Stopping \cup {"RETIRING"}
           \/ s.state \in Waiting /\ s.job # 0 /\ exec[s.job].st = "absent"
    PROVE  /\ settledUndo(s).epoch = row.epoch
           /\ settledUndo(s).state \in AtRest \/ MarkedEnd(settledUndo(s)) => Untunneled
<1> DEFINE undo == lifecycleStartUnknownUndo(s)
           new == settledUndo(s)
<1>1. /\ new.state = undo /\ new.epoch = row.epoch
      /\ new.err \in {"enroll_tunnel_failed", "lifecycle_start_failed"}
  BY RowsAre DEF settledUndo, Row
<1> HIDE DEF new
<1>2. undo \in AtRest => Untunneled
  BY UndoneHasNone
<1> QED BY <1>1, <1>2 DEF MarkedEnd, new

\* A marked start is settled.
LEMMA SettleTunnel ==
    ASSUME Inv2, Inv1', TunnelInv, NEW p \in Procs, settleUnknownStart(p)
    PROVE  TunnelInv'
<1> DEFINE s == proc[p].snap
<1>1. row \in Row /\ s \in Row /\ proc[p].kind \in Kind /\ tunnel' = tunnel
  BY RowsAre DEF settleUnknownStart, world
<1>2. /\ s.err \in StartUnknown /\ s.state \in Waiting /\ s.job # 0
      /\ exec[s.job].st = "absent"
  BY DEF settleUnknownStart, Described
<1>3. CASE Goto(p, "start", s, "settle") /\ UNCHANGED rowVars
  BY <1>1, <1>3, PlainMove DEF Plain, Pc, Kind, Fencing, rowVars, TunnelMoves
<1>4. CASE step(p, CasReconciler(s), settledUndo(s), "none", "reread", "reread")
  <2>1. CasReconciler(s) =>
          /\ settledUndo(s).epoch = row.epoch
          /\ settledUndo(s).state \in AtRest \/ MarkedEnd(settledUndo(s)) => Untunneled
    BY <1>2, SettledFits
  <2> PICK r : r = settledUndo(s)
    OBVIOUS
  <2>2. step(p, CasReconciler(s), r, "none", "reread", "reread")
    BY <1>4
  <2> QED BY <1>1, <2>1, <2>2, StepTunnel, EndingIsPlain DEF Ending
<1> QED BY <1>3, <1>4 DEF settleUnknownStart

\* A row read as s, or with the lease s was read of, whose tunnel was fenced.
LEMMA FencedRests ==
    ASSUME Inv2, TunnelInv, NEW p \in Procs, proc[p].pc \in Fencing, NEW s, s = proc[p].snap,
           s.state # "NONE", s.epoch = row.epoch
    PROVE  Untunneled
BY FencedIs DEF TunnelInv, ProcTunnel, Same

\* A replacement's generation is given back, of a lease whose tunnel was fenced.
LEMMA GenerationTunnel ==
    ASSUME Inv2, Inv1', TunnelInv, NEW p \in Procs, reconcileReplacementGeneration(p)
    PROVE  TunnelInv'
<1> DEFINE s == proc[p].snap
           x == exec[s.job]
           sourcePair == vol.fence = x.prevFence
           r == [row EXCEPT
                  !.state = "STOPPED", !.job = 0, !.nonce = "none",
                  !.gen = IF sourcePair THEN x.prevGen ELSE x.gen,
                  !.fence = IF sourcePair THEN x.prevFence ELSE x.fence,
                  !.inst = IF sourcePair THEN x.src ELSE x.epoch,
                  !.err = IF sourcePair /\ proc[p].kind = "kept"
                          THEN "lifecycle_start_failed" ELSE "instance_lost"]
           pc == IF proc[p].undo = "NONE" THEN "reread" ELSE "idle"
           lose == IF proc[p].undo = "NONE" THEN "reread" ELSE "undo"
<1>1. /\ proc[p].pc = "gencas" /\ step(p, CasExact(s), r, "close", pc, lose)
      /\ tunnel' = tunnel /\ row \in Row
  BY DEF reconcileReplacementGeneration, world, Inv2, Inv1, TypeOK, Proc
<1>2. s.state # "NONE" /\ r.epoch = row.epoch
  BY <1>1, ProcIs DEF SnapOK, Inv2, Row
<1>3. CasExact(s) => Untunneled
  BY <1>1, <1>2, FencedRests DEF CasExact, Fencing
<1>4. pc \in Ending /\ lose \in Ending
  BY DEF Ending
<1> HIDE DEF pc, lose, r
<1> QED BY <1>1, <1>2, <1>3, <1>4, StepTunnel, EndingIsPlain

\* A finished stop or retire comes to rest after its fence.
LEMMA FinalTunnel ==
    ASSUME Inv2, Inv1', TunnelInv, NEW p \in Procs, ReceiptFinal(p)
    PROVE  TunnelInv'
<1> DEFINE s == proc[p].snap
<1>1. /\ row \in Row /\ s.state # "NONE" /\ proc[p].pc = "final" /\ tunnel' = tunnel
  BY RowsAre, ProcIs DEF ReceiptFinal, SnapOK, world, Inv2
<1>2. PICK r : step(p, CasReconciler(s), r, "close", "reread", "reread") /\ r.epoch = row.epoch
  <2> PICK r : r = FinalRow(s)
    OBVIOUS
  <2>1. r.epoch = row.epoch
    BY <1>1 DEF FinalRow, Row
  <2> QED BY <2>1 DEF ReceiptFinal
<1>3. CasReconciler(s) => Untunneled
  BY <1>1, FencedRests DEF CasReconciler, CasUser, Fencing
<1> QED BY <1>1, <1>2, <1>3, StepTunnel, EndingIsPlain DEF Ending

\* An instance that is gone, and a computer that owns nothing, come to rest
\* after their fence.
LEMMA LostTunnel ==
    ASSUME Inv2, Inv1', TunnelInv, NEW p \in Procs,
           recoverLostInstance(p) \/ releaseWithoutResources(p)
    PROVE  TunnelInv'
<1> DEFINE s == proc[p].snap
           goal == proc[p].goal
           wins == CasUser(s) /\ row.inst = s.inst
<1>1. row \in Row /\ tunnel' = tunnel
  BY RowsAre DEF recoverLostInstance, releaseWithoutResources, world
<1>2. CASE recoverLostInstance(p) \/ (releaseWithoutResources(p) /\ proc[p].pc = "release")
  <2>1. s.state # "NONE" /\ proc[p].pc \in Fencing
    BY <1>2, ProcIs DEF recoverLostInstance, SnapOK, Inv2, Fencing
  <2>2. wins => Untunneled
    BY <2>1, FencedRests DEF CasUser
  <2> DEFINE pc == IF goal = "fleet" THEN "idle" ELSE "again"
  <2>3. PICK r : /\ r.epoch = row.epoch
                 /\ \/ step(p, wins, r, "close", pc, "act")
                    \/ step(p, wins, r, "close", "purge", "idle")
    BY <1>1, <1>2 DEF recoverLostInstance, releaseWithoutResources, Row
  <2>4. pc \in Ending /\ "act" \in Ending /\ "purge" \in Ending /\ "idle" \in Ending
    BY DEF Ending
  <2> HIDE DEF pc, wins
  <2> QED BY <1>1, <2>2, <2>3, <2>4, StepTunnel, EndingIsPlain
<1>3. CASE releaseWithoutResources(p) /\ proc[p].pc = "purge"
  <2> DEFINE pc == IF goal = "delete" THEN "softdelete" ELSE "idle"
             r == [row EXCEPT !.state = "PURGE_ELIGIBLE"]
  <2>1. step(p, CasReconciler(s), r, "none", pc, pc) /\ r.epoch = row.epoch
    BY <1>1, <1>3 DEF releaseWithoutResources, Row
  <2>2. CasReconciler(s) => Untunneled
    <3>1. s.state = "RETIRED"
      BY <1>3, ProcIs DEF SnapOK, Inv2
    <3> QED BY <3>1 DEF CasReconciler, CasUser, TunnelInv, RowTunnel, AtRest
  <2>3. pc \in Ending
    BY DEF Ending
  <2> HIDE DEF pc, r
  <2> QED BY <1>1, <2>1, <2>2, <2>3, StepTunnel, EndingIsPlain
<1> QED BY <1>2, <1>3 DEF releaseWithoutResources

-----------------------------------------------------------------------------
(* The starts.                                                             *)

\* One swap of an invocation that ends or reads again.
LEMMA EndSwap ==
    ASSUME Inv2, Inv1', TunnelInv, NEW p \in Procs, NEW wins, NEW r, NEW effect,
           casInTx(wins, r, effect), tunnel' = tunnel, wins => r.epoch = row.epoch,
           wins /\ (r.state \in AtRest \/ MarkedEnd(r)) => Untunneled,
           NEW pc \in Resets, NEW s \in Row, NEW kind \in Kind, Goto(p, pc, s, kind)
    PROVE  TunnelInv'
<1>1. Plain(pc, kind)
  BY DEF Plain, Resets, Pc, Fencing
<1> QED BY <1>1, PlainSwap

\* A started job: its row goes on to STARTING or STOPPING.
LEMMA StartedTunnel ==
    ASSUME Inv2, Inv1', TunnelInv, NEW p \in Procs, Started(p)
    PROVE  TunnelInv'
<1> DEFINE s == proc[p].snap
           kind == proc[p].kind
           wins == IF kind \in {"boot", "ustop"} THEN CasUser(s) ELSE CasReconciler(s)
<1>1. /\ tunnel' = tunnel /\ StartOK(s, kind, proc[p].undo) /\ row \in Row /\ s \in Row
      /\ AfterStart(p) \in Resets /\ Goto(p, AfterStart(p), s, "none") /\ "none" \in Kind
  BY AtStartIs DEF Started, world, Inv2, Kind
<1>2. wins => CasUser(s)
  BY DEF CasReconciler
<1>3. CASE UNCHANGED rowVars
  <2>1. Plain(AfterStart(p), "none")
    BY <1>1 DEF Plain, Resets, Pc, Fencing
  <2> QED BY <1>1, <1>3, <2>1, PlainMove DEF rowVars, TunnelMoves
<1>4. CASE s.state = "LEASED" /\ casInTx(wins, [row EXCEPT !.state = "STARTING"], "none")
  <2> PICK r : r = [row EXCEPT !.state = "STARTING"]
    OBVIOUS
  <2>1. r.epoch = row.epoch /\ r.state \notin AtRest /\ ~MarkedEnd(r)
    BY <1>1 DEF Row, AtRest, MarkedEnd, Stopping
  <2>2. casInTx(wins, r, "none")
    BY <1>4
  <2> QED BY <1>1, <2>1, <2>2, EndSwap
<1>5. CASE kind \in Stops /\ casInTx(wins, [row EXCEPT !.state = "STOPPING"], "none")
  <2> PICK r : r = [row EXCEPT !.state = "STOPPING"]
    OBVIOUS
  <2>1. s.state = "DRAINING"
    BY <1>1, <1>5 DEF StartOK, Stops, Retires
  <2>2. wins => row.state = "DRAINING"
    BY <1>2, <2>1 DEF CasUser
  <2>3. r.epoch = row.epoch /\ r.state \notin AtRest /\ r.err = row.err
    BY <1>1 DEF Row, AtRest
  <2>4. wins /\ MarkedEnd(r) => Untunneled
    BY <2>2, <2>3 DEF MarkedEnd, Stopping, TunnelInv, RowTunnel
  <2>5. casInTx(wins, r, "none")
    BY <1>5
  <2> QED BY <1>1, <2>3, <2>4, <2>5, EndSwap
<1> QED BY <1>3, <1>4, <1>5 DEF Started, Stops

\* A row is marked to go back to rest only by a retire of a computer at rest.
LEMMA MarkFits ==
    ASSUME Inv2, TunnelInv, NEW p \in Procs, AtStart(p), NEW s, s = proc[p].snap, CasUser(s),
           row.err = s.err, s.state \in Stopping \cup {"RETIRING"},
           NEW undo, undo = IF proc[p].kind = "settle" THEN lifecycleStartUnknownUndo(s)
                            ELSE proc[p].undo,
           undo \in PLACEMENT_TRANSITIONS[s.state], undo = "STOPPED"
    PROVE  Untunneled
<1>1. s \in Row /\ StartOK(s, proc[p].kind, proc[p].undo) /\ ProcTunnel(proc[p])
  BY AtStartIs DEF Inv2, TunnelInv
<1>2. row.state = s.state /\ row.epoch = s.epoch
  BY DEF CasUser
<1>3. CASE proc[p].kind = "settle"
  <2>1. s.err \in StartUnknown
    BY <1>1, <1>3 DEF StartOK, Stops, Retires
  <2>2. row.err = "unknown:STOPPED"
    BY <1>3, <2>1 DEF lifecycleStartUnknownUndo, StartUnknown, RecordedUndo
  <2> QED BY <1>2, <2>2 DEF TunnelInv, RowTunnel, MarkedEnd
<1>4. CASE proc[p].kind # "settle"
  <2>1. proc[p].undo = "STOPPED" /\ proc[p].kind \in {"uretire", "rretire"}
    BY <1>1, <1>4, TransitionsAre DEF StartOK, BootUndo, Stopping
  <2>2. RestUndo(proc[p]) /\ Same(s)
    BY <1>2, <2>1 DEF RestUndo, AtStart, Same, Stopping
  <2> QED BY <1>1, <2>2 DEF ProcTunnel
<1> QED BY <1>3, <1>4

\* No answer: the row is marked.
LEMMA MarkTunnel ==
    ASSUME Inv2, Inv1', TunnelInv, NEW p \in Procs, markLifecycleStartUnknown(p)
    PROVE  TunnelInv'
<1> DEFINE s == proc[p].snap
           undo == IF proc[p].kind = "settle" THEN lifecycleStartUnknownUndo(s)
                   ELSE proc[p].undo
           mark == IF proc[p].kind \in {"hostretire", "fleetretire"}
                      \/ isEnrollmentHostRetire(s)
                   THEN "unknown:UNCONFIRMED:host_retire"
                   ELSE CASE undo = "STOPPED" -> "unknown:STOPPED"
                          [] undo = "RUNNING" -> "unknown:RUNNING"
                          [] OTHER -> "unknown:UNCONFIRMED"
           wins == undo \in PLACEMENT_TRANSITIONS[s.state] /\ CasUser(s) /\ row.err = s.err
           r == [row EXCEPT !.err = mark]
<1>1. /\ tunnel' = tunnel /\ AtStart(p) /\ casInTx(wins, r, "none") /\ row \in Row /\ s \in Row
      /\ AfterStart(p) \in Resets /\ Goto(p, AfterStart(p), s, "none") /\ "none" \in Kind
      /\ StartOK(s, proc[p].kind, proc[p].undo)
  BY AtStartIs DEF markLifecycleStartUnknown, world, Inv2, Kind
<1>2. mark = "unknown:STOPPED" => undo = "STOPPED"
  OBVIOUS
<1> HIDE DEF mark
<1>3. r.epoch = row.epoch /\ r.state = row.state /\ r.err = mark
  BY <1>1 DEF Row
<1>4. wins => r.state = s.state
  BY <1>3 DEF CasUser
<1>5. s.state \notin AtRest
  BY <1>1 DEF StartOK, BootUndo, Stopping, AtRest
<1>6. wins /\ MarkedEnd(r) => Untunneled
  <2> SUFFICES ASSUME wins, MarkedEnd(r) PROVE Untunneled
    OBVIOUS
  <2>1. undo = "STOPPED" /\ s.state \in Stopping \cup {"RETIRING"}
    BY <1>2, <1>3, <1>4 DEF MarkedEnd
  <2> QED BY <1>1, <2>1, MarkFits
<1> HIDE DEF r, wins
<1> QED BY <1>1, <1>3, <1>4, <1>5, <1>6, EndSwap

\* A permanent refusal: what is taken back to rest was a retire of a computer
\* at rest.
LEMMA RefusedTunnel ==
    ASSUME Inv2, Inv1', TunnelInv, NEW p \in Procs, Refused(p)
    PROVE  TunnelInv'
<1> DEFINE s == proc[p].snap
           kind == proc[p].kind
           undo == proc[p].undo
           wins == IF kind \in {"ustop", "uretire"} THEN CasUser(s) ELSE CasReconciler(s)
           pc == IF kind \in {"hostretire", "settle"} THEN "reread" ELSE "idle"
           r == UndoRow(s, kind, undo)
<1>1. /\ tunnel' = tunnel /\ AtStart(p) /\ row \in Row /\ s \in Row
      /\ StartOK(s, kind, undo) /\ ProcTunnel(proc[p])
  BY AtStartIs DEF Refused, world, Inv2, TunnelInv
<1>2. CASE kind = "boot"
  <2>1. Goto(p, "refused", s, "boot") /\ UNCHANGED <<row, exec>>
    BY <1>2 DEF Refused, rowVars
  <2>2. Plain("refused", "boot")
    BY DEF Plain, Pc, Kind, Fencing
  <2> QED BY <1>1, <2>1, <2>2, PlainMove DEF TunnelMoves
<1>3. CASE kind # "boot"
  <2>1. step(p, wins, r, "none", pc, pc) /\ pc \in Ending
    BY <1>3 DEF Refused, Ending
  <2>2. wins => CasUser(s)
    BY DEF CasReconciler
  <2>3. CASE kind = "settle"
    <3>1. wins => CasReconciler(s)
      BY <2>3
    <3>2. s.err \in StartUnknown /\ s.state \in Stopping \cup {"RETIRING"}
      BY <1>1, <2>3 DEF StartOK, Stops, Retires
    <3>3. r = settledUndo(s)
      BY <2>3 DEF UndoRow
    <3> HIDE DEF r, pc, wins
    <3>4. wins => r.epoch = row.epoch /\ (r.state \in AtRest \/ MarkedEnd(r) => Untunneled)
      BY <3>1, <3>2, <3>3, SettledFits
    <3> QED BY <1>1, <2>1, <3>4, StepTunnel, EndingIsPlain
  <2>4. CASE kind # "settle"
    <3>1. s.state \in {"DRAINING", "RETIRING"} /\ s.state # "NONE"
      BY <1>1, <1>3, <2>4 DEF StartOK
    <3>2. /\ r.epoch = row.epoch /\ r.state \in {"UNCONFIRMED", undo}
          /\ r.state = "UNCONFIRMED" \/ kind \in {"uretire", "rretire", "uncretire"}
      BY <1>1, <1>3, <2>4 DEF UndoRow, Row
    <3> HIDE DEF r, pc
    <3>3. /\ r.state \in {"UNCONFIRMED", "RUNNING", "STOPPED"}
          /\ r.state = "STOPPED" => kind \in {"uretire", "rretire"} /\ undo = "STOPPED"
      BY <1>1, <1>3, <2>4, <3>2 DEF StartOK, Retires, Stops
    <3>4. wins => Same(s)
      BY <2>2, <3>1 DEF CasUser, Same
    <3> HIDE DEF wins
    <3>5. wins /\ r.state = "STOPPED" => Untunneled
      BY <1>1, <3>3, <3>4 DEF ProcTunnel, RestUndo, AtStart
    <3>6. wins /\ (r.state \in AtRest \/ MarkedEnd(r)) => Untunneled
      BY <3>3, <3>5 DEF AtRest, MarkedEnd, Stopping
    <3> QED BY <1>1, <2>1, <3>2, <3>6, StepTunnel, EndingIsPlain
  <2> QED BY <2>3, <2>4
<1> QED BY <1>2, <1>3

\* A refused boot is taken back to rest only if it never ran, so that nobody
\* can have enrolled for it.
LEMMA RefusedBootTunnel ==
    ASSUME Inv2, Inv1', TunnelInv, NEW p \in Procs, RefusedBoot(p)
    PROVE  TunnelInv'
<1> DEFINE s == proc[p].snap
           undo == proc[p].undo
           r == [row EXCEPT !.state = undo, !.nonce = "none"]
<1>1. /\ tunnel' = tunnel /\ row \in Row /\ proc[p].pc \in {"undo", "refused"}
      /\ step(p, CasUser(s), r, "none", "idle", "idle")
  BY DEF RefusedBoot, world, Inv2, Inv1, TypeOK
<1>2. BootUndo(s, undo) /\ s.job # 0 /\ exec[s.job].st = "absent"
      /\ (undo = "STOPPED" => exec[s.job].op = "start")
  <2>1. SnapOK(proc[p].pc, s, proc[p].kind, undo, exec) /\ ProcInv(proc[p])
    BY DEF Inv2, Inv1, ProcsOK, ProcsInv
  <2> QED BY <1>1, <2>1 DEF SnapOK, ProcInv, StarterInv, Starter
<1>3. r.state = undo /\ r.epoch = row.epoch
  BY <1>1 DEF Row
<1> HIDE DEF r
<1>4. s.state \in Booting /\ s.state # "NONE" /\ undo \in {"STOPPED", "UNCONFIRMED"}
  BY <1>2 DEF BootUndo, Booting
<1>5. CasUser(s) /\ undo = "STOPPED" => Untunneled
  <2> SUFFICES ASSUME CasUser(s), undo = "STOPPED" PROVE Untunneled
    OBVIOUS
  <2>1. s.job \in Jobs /\ BootOf(s.job)
    BY <1>4, Found
  <2> QED BY <1>2, <2>1 DEF TunnelInv, RowTunnel, IdleStart
<1>6. CasUser(s) /\ (r.state \in AtRest \/ MarkedEnd(r)) => Untunneled
  BY <1>3, <1>4, <1>5 DEF AtRest, MarkedEnd, Stopping
<1> QED BY <1>1, <1>3, <1>6, StepTunnel, EndingIsPlain DEF Ending

\* An unconfirmed computer is taken into recovery.
LEMMA RecoveringTunnel ==
    ASSUME Inv2, Inv1', TunnelInv, NEW p \in Procs, Recovering(p)
    PROVE  TunnelInv'
<1> DEFINE s == proc[p].snap
           host == \/ proc[p].pc = "recover" /\ s.state = "UNCONFIRMED"
                   \/ /\ Acting(p, {"fleet"}) /\ s.err = "enroll_tunnel_failed"
                      /\ s.job = 0 /\ Complete(s) /\ proc[p].old
           kind == IF proc[p].goal = "fleet" /\ proc[p].pc = "act"
                   THEN "fleetretire"
                   ELSE IF host THEN "hostretire" ELSE "uncretire"
           r == [row EXCEPT !.state = "RECOVERING",
                            !.err = IF host THEN "enroll_host_retire" ELSE "deleted_recovery"]
           pc == IF CasReconciler(s) THEN "recover"
                 ELSE IF kind = "hostretire" THEN "reread" ELSE "idle"
<1>1. /\ tunnel' = tunnel /\ row \in Row /\ kind \in Kind
      /\ casInTx(CasReconciler(s), r, "none") /\ Goto(p, pc, row', kind)
      /\ pc \in {"recover", "reread", "idle"} /\ row' \in Row
  BY DEF Recovering, world, Inv2, Inv1, TypeOK, Kind
<1>2. r.epoch = row.epoch /\ r.state \notin AtRest /\ ~MarkedEnd(r)
  BY <1>1 DEF Row, AtRest, MarkedEnd, Stopping
<1> HIDE DEF r, pc, kind, host
<1>3. Plain(pc, kind)
  BY <1>1 DEF Plain, Pc, Fencing
<1> QED BY <1>1, <1>2, <1>3, PlainSwap

-----------------------------------------------------------------------------
(* The enrollment.                                                         *)

\* The nonce is consumed: the enrollment goes on to ask for the tunnel of the
\* lease it was of.
LEMMA ConsumeTunnel ==
    ASSUME Inv2, Inv1', TunnelInv, NEW p \in Procs, consumeEnrollmentNonce(p)
    PROVE  TunnelInv'
<1> DEFINE s == proc[p].snap
           i == proc[p].host
           wins == /\ row.gen = s.gen /\ row.epoch = s.epoch
                   /\ row.state \in ENROLLABLE_STATES
                   /\ row.nonce = "live" /\ ~expired /\ row.inst \in {0, i}
           r == [row EXCEPT !.nonce = "used", !.err = "enroll_tunnel_pending",
                            !.inst = i, !.vol = TRUE]
<1>1. /\ tunnel' = tunnel /\ proc[p].pc = "consume" /\ proc[p].kind \in Kind
      /\ step(p, wins, r, "none", "tunnel", "idle") /\ row \in Row /\ s \in Row
      /\ proc \in [Procs -> Proc]
  BY RowsAre DEF consumeEnrollmentNonce, world, Inv2, Inv1, TypeOK
<1>2. /\ r.epoch = row.epoch
      /\ wins => r.epoch = s.epoch /\ r.state \notin AtRest /\ ~MarkedEnd(r)
  BY <1>1 DEF Row, AtRest, MarkedEnd, ENROLLABLE_STATES
<1>3. casInTx(wins, r, "none")
  BY <1>1 DEF step
<1> HIDE DEF r
<1>4. CASE wins
  <2>1. row' = r /\ Goto(p, "tunnel", r, proc[p].kind)
    BY <1>1, <1>4 DEF step, casInTx, Write
  <2>2. r \in Row
    BY <2>1 DEF Inv1, TypeOK
  <2>3. /\ proc'[p].pc = "tunnel" /\ proc'[p].snap = r
        /\ \A q \in Procs : q # p => proc'[q] = proc[q]
    BY <1>1, <2>1, <2>2, GotoIs DEF Pc, Resets
  <2>4. ProcFits(proc'[p], proc[p])
    BY <1>1, <1>2, <1>4, <2>3 DEF ProcFits, Enrolling, Fencing, RestUndo
  <2>5. RowFits
    BY <1>2, <1>3, SwapFitsTunnel
  <2> QED BY <1>1, <2>3, <2>4, <2>5, TunnelKept DEF TunnelMoves
<1>5. CASE ~wins
  <2>1. Goto(p, "idle", s, proc[p].kind)
    BY <1>1, <1>5 DEF step
  <2>2. "idle" \in Resets
    BY DEF Resets
  <2> HIDE DEF wins
  <2> QED BY <1>1, <1>3, <1>5, <2>1, <2>2, EndSwap
<1> QED BY <1>4, <1>5

\* The enrollment is finished, or failed.
LEMMA FinishTunnel ==
    ASSUME Inv2, Inv1', TunnelInv, NEW p \in Procs, finishEnrollment(p)
    PROVE  TunnelInv'
<1> DEFINE s == proc[p].snap
           wins == /\ row.gen = s.gen /\ row.epoch = s.epoch
                   /\ row.state \in ENROLLABLE_STATES /\ row.inst = s.inst
                   /\ row.err = "enroll_tunnel_pending" /\ row.nonce # "live"
           r == IF proc[p].kind # "refused"
                THEN [row EXCEPT !.err = "enroll_succeeded"]
                ELSE [row EXCEPT !.state = "UNCONFIRMED", !.nonce = "none",
                                 !.err = "enroll_tunnel_failed"]
<1>1. tunnel' = tunnel /\ row \in Row /\ step(p, wins, r, "none", "idle", "idle")
  BY RowsAre DEF finishEnrollment, world
<1>2. r.epoch = row.epoch /\ (wins => r.state \notin AtRest /\ ~MarkedEnd(r))
  BY <1>1 DEF Row, AtRest, MarkedEnd, ENROLLABLE_STATES
<1> HIDE DEF r, wins
<1> QED BY <1>1, <1>2, StepTunnel, EndingIsPlain DEF Ending

-----------------------------------------------------------------------------
(* The swaps that record a job.                                            *)

\* A swap that loses records nothing.
LEMMA LosesTunnel ==
    ASSUME Inv2, Inv1', TunnelInv, NEW p \in Procs, NEW r, NEW work, NEW kind, NEW undo,
           NEW lose \in {"idle", "act", "reread"},
           recordJob(p, FALSE, r, work, kind, undo, lose), tunnel' = tunnel
    PROVE  TunnelInv'
<1>1. UNCHANGED <<row, exec>> /\ Goto(p, lose, proc[p].snap, "none") /\ proc[p].snap \in Row
  BY RowsAre DEF recordJob
<1>2. Plain(lose, "none")
  BY DEF Plain, Pc, Fencing, Kind
<1> QED BY <1>1, <1>2, PlainMove DEF TunnelMoves

\* A job that is recorded is started of the row that names it.
LEMMA StartFits ==
    ASSUME NEW p \in Procs, NEW kind, NEW undo, Starts(p, kind, undo),
           kind \in {"uretire", "rretire"} /\ undo = "STOPPED" => Untunneled
    PROVE  ProcFits(proc'[p], proc[p]) /\ \A q \in Procs : q # p => proc'[q] = proc[q]
BY DEF Starts, ProcFits, Enrolling, Fencing, RestUndo

\* The stop or the retire of a running computer leaves its tunnel to the fence
\* of its receipt; the retire of one at rest finds none.
LEMMA EndJobTunnel ==
    ASSUME Inv2, Inv1', TunnelInv, NEW p \in Procs, NEW s, s = proc[p].snap, NEW wins,
           NEW state, NEW err, NEW op, NEW kind, NEW undo, NEW lose \in {"idle", "act", "reread"},
           EndJob(p, s, wins, state, err, op, kind, undo, lose), wins => CasUser(s),
           s.state \in {"RUNNING", "STOPPED", "RECOVERING"}, s.inst # 0,
           (state = "DRAINING" /\ op = "stop") \/ (state = "RETIRING" /\ op = "retire"),
           err \in {"none", "session_limit", "enroll_host_retire"}, tunnel' = tunnel,
           kind \in {"uretire", "rretire"} /\ undo = "STOPPED" => s.state = "STOPPED"
    PROVE  TunnelInv'
<1> DEFINE r == [row EXCEPT !.state = state, !.nonce = dropProof(@), !.err = err]
<1> PICK work : work = currentGenerationIntent(s, op)
  OBVIOUS
<1>1. recordJob(p, wins, r, work, kind, undo, lose) /\ UNCHANGED <<inst, vol>>
  BY DEF EndJob
<1>2. CASE ~wins
  <2>1. recordJob(p, FALSE, r, work, kind, undo, lose)
    BY <1>1, <1>2 DEF recordJob
  <2> HIDE DEF r
  <2> QED BY <2>1, LosesTunnel
<1>3. CASE wins
  <2>1. recordJob(p, TRUE, r, work, kind, undo, lose)
    BY <1>1, <1>3 DEF recordJob
  <2> HIDE DEF r
  <2>2. PICK j \in Jobs : /\ NewJob(j, work) /\ Starts(p, kind, undo)
                          /\ row' = [r EXCEPT !.job = j] /\ JobsGrow(exec, exec')
    BY <2>1, Recorded DEF Inv2
  <2>3. err \notin StartUnknown
    BY DEF StartUnknown, RecordedUndo
  <2>4. EndsRow(j, work, s, op, state, err)
    BY <1>1, <1>3, <2>2, <2>3 DEF EndsRow, r
  <2>5. EndFits(j, work, op, state)
    BY <2>4, EndIs
  <2>6. /\ row'.state \in {"DRAINING", "RETIRING"} /\ row'.epoch = row.epoch
        /\ row'.err \notin StartUnknown /\ work.op \in EndOps
    BY <2>5 DEF EndFits
  <2>7. \A k \in Jobs : IdleStart(k)' => IdleStart(k)
    BY <2>2, <2>6 DEF IdleStart, BootOf, NewJob, EndOps
  <2>8. RowFits
    BY <2>6, <2>7, EpochsAre
       DEF RowFits, TunnelInv, RowTunnel, AtRest, MarkedEnd, StartUnknown, RecordedUndo
  <2>9. s.state = "STOPPED" => Untunneled
    BY <1>3 DEF CasUser, TunnelInv, RowTunnel, AtRest
  <2>10. ProcFits(proc'[p], proc[p]) /\ \A q \in Procs : q # p => proc'[q] = proc[q]
    BY <2>2, <2>9, StartFits
  <2> QED BY <2>8, <2>10, TunnelKept DEF TunnelMoves
<1> QED BY <1>2, <1>3

\* A stop of a running computer.
LEMMA StopTunnel ==
    ASSUME Inv2, Inv1', TunnelInv, NEW p \in Procs,
           reconcileGuestStop(p) \/ enforceSessionLimits(p) \/ startStop(p)
    PROVE  TunnelInv'
<1> DEFINE s == proc[p].snap
<1>1. s.state = "RUNNING" /\ s.inst # 0
  BY DEF reconcileGuestStop, enforceSessionLimits, startStop, GuestStopDue, Complete
<1>2. ASSUME NEW wins, wins => CasUser(s), NEW err \in {"none", "session_limit"},
             NEW kind \in Stops, StopJob(p, s, wins, err, kind)
      PROVE  TunnelInv'
  <2> DEFINE lose == IF kind = "rstop" THEN "act" ELSE "idle"
  <2>1. EndJob(p, s, wins, "DRAINING", err, "stop", kind, "UNCONFIRMED", lose) /\ tunnel' = tunnel
    BY <1>2 DEF StopJob, EndJob, world
  <2>2. lose \in {"idle", "act", "reread"} /\ kind \notin {"uretire", "rretire"}
    BY DEF Stops
  <2>3. err \in {"none", "session_limit", "enroll_host_retire"} /\ (wins => CasUser(s))
    BY <1>2
  <2> HIDE DEF lose
  <2> QED BY <1>1, <2>1, <2>2, <2>3, EndJobTunnel
<1>3. CASE reconcileGuestStop(p)
  BY <1>2, <1>3 DEF reconcileGuestStop, CasReconciler, Stops
<1>4. CASE enforceSessionLimits(p)
  BY <1>2, <1>4 DEF enforceSessionLimits, CasReconciler, Stops
<1>5. CASE startStop(p)
  BY <1>2, <1>5 DEF startStop, Stops
<1> QED BY <1>3, <1>4, <1>5

\* A retire of a computer at rest or running.
LEMMA RetireTunnel ==
    ASSUME Inv2, Inv1', TunnelInv, NEW p \in Procs, startRetire(p)
    PROVE  TunnelInv'
<1> DEFINE s == proc[p].snap
           user == proc[p].goal = "delete"
           wins == IF user THEN CasUser(s) ELSE CasReconciler(s)
           kind == IF user THEN "uretire" ELSE "rretire"
<1>1. /\ s.state \in {"RUNNING", "STOPPED"} /\ s.inst # 0 /\ tunnel' = tunnel
      /\ EndJob(p, s, wins, "RETIRING", "none", "retire", kind, s.state, "idle")
  BY DEF startRetire, Complete, EndJob, world
<1>2. wins => CasUser(s)
  BY DEF CasReconciler
<1> HIDE DEF wins, kind
<1> QED BY <1>1, <1>2, EndJobTunnel

\* RECOVERING to RETIRING.
LEMMA RecoveringRetireTunnel ==
    ASSUME Inv2, Inv1', TunnelInv, NEW p \in Procs, RecoveringRetire(p)
    PROVE  TunnelInv'
<1> DEFINE s == proc[p].snap
           fleet == /\ Acting(p, {"fleet"}) /\ s.err = "enroll_host_retire"
                    /\ s.job = 0 /\ Complete(s) /\ proc[p].old
           kind == IF proc[p].pc = "recover" THEN proc[p].kind
                   ELSE IF fleet THEN "fleetretire" ELSE "uncretire"
           err == IF kind = "uncretire" THEN "none" ELSE "enroll_host_retire"
           lose == IF kind = "hostretire" THEN "reread" ELSE "idle"
           wins == CasReconciler(s)
<1>1. /\ s.state = "RECOVERING" /\ tunnel' = tunnel
      /\ proc[p].pc = "recover" \/ fleet \/ (Unconfirmed(p) /\ Retirable(s))
      /\ EndJob(p, s, wins, "RETIRING", err, "retire", kind, "UNCONFIRMED", lose)
  BY DEF RecoveringRetire, EndJob, world
<1>2. SnapOK(proc[p].pc, s, proc[p].kind, proc[p].undo, exec)
  BY ProcIs DEF Inv2
<1>3. s.inst # 0 /\ kind \in {"hostretire", "fleetretire", "uncretire"}
  BY <1>1, <1>2 DEF SnapOK, Retirable, Complete
<1>4. /\ err \in {"none", "session_limit", "enroll_host_retire"}
      /\ lose \in {"idle", "act", "reread"} /\ (wins => CasUser(s))
  BY DEF CasReconciler
<1> HIDE DEF fleet, kind, err, lose, wins
<1> QED BY <1>1, <1>3, <1>4, EndJobTunnel

\* A lease takes an epoch that no tunnel and no earlier start is of; an
\* in-place start is recorded of a computer at rest.
LEMMA BootJobTunnel ==
    ASSUME Inv2, Inv1', TunnelInv, NEW p \in Procs, NEW wins, NEW r, NEW work, NEW undo,
           TakesBoot(p, wins, r, work, undo), tunnel' = tunnel
    PROVE  TunnelInv'
<1>1. /\ recordJob(p, wins, r, work, "boot", undo, "idle")
      /\ wins => TakesLease(r, work)
      /\ wins /\ work.op = "start" => row.state = "STOPPED"
  BY DEF TakesBoot, BootJob
<1>2. CASE ~wins
  <2>1. recordJob(p, FALSE, r, work, "boot", undo, "idle")
    BY <1>1, <1>2 DEF recordJob
  <2> QED BY <2>1, LosesTunnel
<1>3. CASE wins
  <2>1. recordJob(p, TRUE, r, work, "boot", undo, "idle")
    BY <1>1, <1>3 DEF recordJob
  <2>2. PICK j \in Jobs : /\ NewJob(j, work) /\ Starts(p, "boot", undo)
                          /\ row' = [r EXCEPT !.job = j] /\ JobsGrow(exec, exec')
    BY <2>1, Recorded DEF Inv2
  <2>3. Leases(j, work)
    BY <1>1, <1>3, <2>2 DEF TakesLease
  <2>4. /\ row'.state \in {"PROVISIONING", "LEASED"} /\ row.epoch < row'.epoch
        /\ row'.epoch = work.epoch /\ row'.epoch \in Nat
    BY <2>3, Bounds DEF Leases, Inv1, TypeOK, Row
  <2>5. ASSUME NEW k \in Jobs, IdleStart(k)'
        PROVE  Untunneled
    <3>1. exec'[k].op = "start" /\ exec'[k].epoch = work.epoch
      BY <2>4, <2>5 DEF IdleStart, BootOf
    <3>2. CASE k = j
      <4>1. work.op = "start"
        BY <2>2, <3>1, <3>2 DEF NewJob
      <4> QED BY <1>1, <1>3, <4>1 DEF TunnelInv, RowTunnel, AtRest
    <3>3. CASE k # j
      <4>1. exec[k].op # "none" /\ exec[k].epoch = work.epoch
        BY <2>2, <3>1, <3>3 DEF NewJob
      <4> QED BY <2>3, <3>3, <4>1, LeaseLeavesJobs
    <3> QED BY <3>2, <3>3
  <2>6. row.epoch \in Nat /\ tunnel.rec \in Nat /\ tunnel.fence \in Nat
    BY EpochsAre
  <2>7. RowFits
    BY <2>4, <2>5, <2>6 DEF RowFits, AtRest, MarkedEnd, Stopping
  <2>8. ProcFits(proc'[p], proc[p]) /\ \A q \in Procs : q # p => proc'[q] = proc[q]
    BY <2>2, StartFits
  <2> QED BY <2>7, <2>8, TunnelKept DEF TunnelMoves
<1> QED BY <1>2, <1>3

\* The leases of a computer.
LEMMA LeaseTunnel ==
    ASSUME Inv2, Inv1', TunnelInv, NEW p \in Procs,
           createAwsPlacement(p) \/ \E replace \in BOOLEAN : leasePlacement(p, replace)
    PROVE  TunnelInv'
<1>1. tunnel' = tunnel
  BY DEF createAwsPlacement, leasePlacement, world
<1>2. \E wins, r, work, undo : TakesBoot(p, wins, r, work, undo)
  BY CreateTakes, LeaseTakes
<1> QED BY <1>1, <1>2, BootJobTunnel

-----------------------------------------------------------------------------
(* The steps that swap nothing.                                            *)

\* A fence: what goes on at pc has fenced the tunnel of the lease it read.
LEMMA FenceTunnel ==
    ASSUME Inv2, Inv1', TunnelInv, NEW p \in Procs, UNCHANGED <<row, exec>>,
           NEW s, s = proc[p].snap, s.state # "NONE", NEW pc \in Fencing, NEW kind \in Kind,
           NEW lose \in Ending, Fence(p, s.epoch, pc, kind, lose)
    PROVE  TunnelInv'
<1>1. /\ s \in Row /\ proc[p].kind \in Kind /\ proc \in [Procs -> Proc]
      /\ s.epoch \in Nat /\ s.epoch <= row.epoch /\ row.epoch \in Nat
      /\ tunnel.rec \in Nat /\ tunnel.fence \in Nat /\ tunnel.rec <= row.epoch
  <2>1. s.epoch \in Nat /\ s.epoch <= row.epoch
    BY EpochsAre
  <2> QED BY <2>1, RowsAre, EpochsAre DEF TunnelInv, RowTunnel, Inv2, Inv1, TypeOK
<1>2. tunnel' \in {tunnel, deleteTunnel(s.epoch)} => TunnelMoves
  <2>1. s.epoch \in 0..row.epoch
    BY <1>1
  <2> QED BY <2>1 DEF TunnelMoves
<1>3. CASE tunnel' = deleteTunnel(s.epoch) /\ Goto(p, pc, s, kind)
  <2>1. /\ proc'[p].pc = pc /\ proc'[p].snap = s
        /\ \A q \in Procs : q # p => proc'[q] = proc[q]
    BY <1>1, <1>3, GotoIs DEF Fencing, Pc, Resets
  <2>2. s.epoch = row'.epoch => Fenced'
    BY <1>1, <1>3 DEF deleteTunnel, Fenced
  <2>3. ProcFits(proc'[p], proc[p])
    BY <2>1, <2>2 DEF ProcFits, StillSame, Enrolling, RestUndo, Fencing
  <2>4. RowFits
    BY SameFitsTunnel
  <2>5. TunnelMoves
    BY <1>2, <1>3
  <2> QED BY <2>1, <2>3, <2>4, <2>5, TunnelKept
<1>4. CASE tunnel' \in {tunnel, deleteTunnel(s.epoch)} /\ Goto(p, lose, s, proc[p].kind)
  <2>1. Plain(lose, proc[p].kind)
    BY <1>1, EndingIsPlain DEF Plain
  <2> QED BY <1>1, <1>2, <1>4, <2>1, PlainMove
<1> QED BY <1>3, <1>4 DEF Fence

\* The fences of a replacement that did not happen, of a finished stop or
\* retire, of an instance that is gone and of a computer that owns nothing.
LEMMA FencesTunnel ==
    ASSUME Inv2, Inv1', TunnelInv, NEW p \in Procs,
           GenerationFence(p) \/ ReceiptFence(p) \/ LostFence(p) \/ ReleaseFence(p)
    PROVE  TunnelInv'
<1> DEFINE s == proc[p].snap
<1>1. UNCHANGED <<row, exec>> /\ "none" \in Kind
  BY DEF GenerationFence, ReceiptFence, LostFence, ReleaseFence, rowVars, Kind
<1>2. CASE GenerationFence(p)
  <2> DEFINE refused == proc[p].pc = "refused"
             kind == IF inst[exec[s.job].src].st = "stopped" THEN "kept" ELSE "gone"
             lose == IF refused THEN "undo" ELSE "reread"
  <2>1. Fence(p, s.epoch, "gencas", kind, lose) /\ (refused \/ Described(p, {"failed"}))
    BY <1>2 DEF GenerationFence
  <2>2. s.state # "NONE"
    BY <2>1, ProcIs, DescribedIs DEF Inv2, SnapOK, BootUndo
  <2>3. kind \in Kind /\ lose \in Ending /\ "gencas" \in Fencing
    BY DEF Kind, Ending, Fencing
  <2> HIDE DEF refused, kind, lose
  <2> QED BY <1>1, <2>1, <2>2, <2>3, FenceTunnel
<1>3. CASE ReceiptFence(p)
  <2>1. /\ s.state # "NONE" /\ Fence(p, s.epoch, "final", "none", "reread")
        /\ "final" \in Fencing /\ "reread" \in Ending
    BY <1>3 DEF ReceiptFence, Fencing, Ending
  <2> QED BY <1>1, <2>1, FenceTunnel
<1>4. CASE LostFence(p)
  <2>1. /\ s.state # "NONE" /\ Fence(p, s.epoch, "lost", "none", "act")
        /\ "lost" \in Fencing /\ "act" \in Ending
    BY <1>4 DEF LostFence, GuestStopDue, Fencing, Ending
  <2> QED BY <1>1, <2>1, FenceTunnel
<1>5. CASE ReleaseFence(p)
  <2>1. /\ s.state # "NONE" /\ Fence(p, s.epoch, "release", "none", "idle")
        /\ "release" \in Fencing /\ "idle" \in Ending
    BY <1>5 DEF ReleaseFence, Unconfirmed, Fencing, Ending
  <2> QED BY <1>1, <2>1, FenceTunnel
<1> QED BY <1>2, <1>3, <1>4, <1>5

\* An invocation ends, reads again, or goes on with what it read.
LEMMA QuietTunnel ==
    ASSUME Inv2, Inv1', TunnelInv, NEW p \in Procs,
           ReceiptNothing(p) \/ LookPassed(p) \/ Answer(p) \/ softDeleteComputer(p) \/ Crash(p)
    PROVE  TunnelInv'
<1> DEFINE s == proc[p].snap
<1>1. UNCHANGED <<row, exec, tunnel>> /\ s \in Row /\ NoRow \in Row
  BY RowsAre, Bounds DEF ReceiptNothing, LookPassed, Answer, softDeleteComputer, Crash,
     rowVars, world
<1>2. Goto(p, "reread", NoRow, "none") \/ Goto(p, "act", s, "none") \/ Goto(p, "idle", NoRow, "none")
  BY DEF ReceiptNothing, LookPassed, Answer, softDeleteComputer, Crash
<1>3. Plain("reread", "none") /\ Plain("act", "none") /\ Plain("idle", "none") /\ TunnelMoves
  BY <1>1 DEF Plain, Pc, Fencing, Kind, TunnelMoves
<1> QED BY <1>1, <1>2, <1>3, PlainMove

\* The Worker answers the enrollment, or what it did stays unknown.
LEMMA AnswerTunnel ==
    ASSUME Inv2, Inv1', TunnelInv, NEW p \in Procs, TunnelAnswer(p) \/ tunnelOutcomeUnknown(p)
    PROVE  TunnelInv'
<1> DEFINE s == proc[p].snap
<1>1. /\ UNCHANGED <<row, exec>> /\ s \in Row /\ NoRow \in Row /\ proc[p].pc = "tunnel"
      /\ proc[p].kind \in Kind
  BY RowsAre, Bounds DEF TunnelAnswer, tunnelOutcomeUnknown, rowVars
<1>2. TunnelMoves
  BY <1>1 DEF TunnelAnswer, tunnelOutcomeUnknown, TunnelMoves
<1>3. \/ \E kind \in {proc[p].kind, "pending", "refused"} :
           Goto(p, "finish", s, kind) \/ Goto(p, "idle", s, kind)
      \/ Goto(p, "idle", NoRow, "none")
  BY DEF TunnelAnswer, tunnelOutcomeUnknown
<1>4. \A kind \in {proc[p].kind, "pending", "refused", "none"} :
        Plain("finish", kind) /\ Plain("idle", kind)
  BY <1>1 DEF Plain, Pc, Fencing, Kind
<1> QED BY <1>1, <1>2, <1>3, <1>4, PlainMove

\* An invocation begins, or reads the row again.
LEMMA BeginTunnel ==
    ASSUME Inv2, Inv1', TunnelInv, NEW p \in Procs, (\E goal \in Goal : Begin(p, goal)) \/ ReRead(p)
    PROVE  TunnelInv'
<1>1. proc \in [Procs -> Proc] /\ proc[p] \in Proc
  BY DEF Inv2, Inv1, TypeOK
<1>2. UNCHANGED <<row, exec, tunnel>>
  BY DEF Begin, ReRead, rowVars, world
<1>3. proc'[p].pc \in {"act", "receipt", "look"} /\ \A q \in Procs : q # p => proc'[q] = proc[q]
  <2>1. ASSUME NEW goal \in Goal, Begin(p, goal)
        PROVE  /\ proc'[p].pc \in {"act", "receipt", "look"}
               /\ \A q \in Procs : q # p => proc'[q] = proc[q]
    <3>1. proc' = [proc EXCEPT ![p] =
                     [Idle EXCEPT !.pc = IF goal = "stop" \/ row.state = "NONE"
                                         THEN "act" ELSE "receipt",
                                  !.goal = goal, !.snap = row, !.old = aged]]
      BY <2>1 DEF Begin
    <3> QED BY <1>1, <3>1 DEF Idle
  <2>2. ASSUME ReRead(p)
        PROVE  /\ proc'[p].pc \in {"act", "receipt", "look"}
               /\ \A q \in Procs : q # p => proc'[q] = proc[q]
    <3>1. proc' = [proc EXCEPT ![p].pc = IF @ = "reread" /\ proc[p].goal # "deleted"
                                         THEN "look" ELSE "act",
                               ![p].snap = row, ![p].old = aged]
      BY <2>2 DEF ReRead
    <3> QED BY <1>1, <3>1 DEF Proc
  <2> QED BY <2>1, <2>2
<1>4. ProcFits(proc'[p], proc[p])
  BY <1>3 DEF ProcFits, Enrolling, Fencing, RestUndo
<1>5. RowFits
  BY <1>2, SameFitsTunnel
<1> QED BY <1>2, <1>3, <1>4, <1>5, TunnelKept DEF TunnelMoves

\* A host enrolls while it is up: nothing may take its boot back to rest.
LEMMA EnrollTunnel ==
    ASSUME Inv2, Inv1', TunnelInv, NEW p \in Procs, NEW i \in Epochs, Enroll(p, i)
    PROVE  TunnelInv'
<1>1. /\ UNCHANGED <<row, exec, tunnel>> /\ row.state \in ENROLLABLE_STATES
      /\ inst[i].st = "running" /\ proc \in [Procs -> Proc]
  BY DEF Enroll, rowVars, world, Inv2, Inv1, TypeOK
<1>2. proc'[p].pc \in {"consume", "tunnel"} /\ \A q \in Procs : q # p => proc'[q] = proc[q]
  <2>1. proc' = [proc EXCEPT ![p] =
                  [Idle EXCEPT !.pc = IF row.nonce = "live" THEN "consume"
                                      ELSE "tunnel",
                               !.goal = "enroll", !.snap = row, !.host = i,
                               !.kind = IF row.nonce = "live" THEN "fresh"
                                        ELSE "pending"]]
    BY DEF Enroll
  <2> QED BY <1>1, <2>1 DEF Idle
<1>3. ~NoneRuns
  BY <1>1 DEF NoneRuns
<1>4. ASSUME NEW j \in Jobs, IdleStart(j)
      PROVE  FALSE
  <2>1. BootOf(j) /\ exec[j].op = "start" /\ exec[j].st = "absent" /\ exec[j].epoch = row.epoch
    BY <1>4 DEF IdleStart, BootOf
  <2> QED BY <1>3, <2>1, BootIs DEF StartInv
<1>5. RowTunnel'
  <2>1. \A j \in Jobs : ~IdleStart(j)'
    BY <1>1, <1>4 DEF IdleStart, BootOf
  <2> QED BY <1>1, <2>1
          DEF TunnelInv, RowTunnel, AtRest, MarkedEnd, Stopping, ENROLLABLE_STATES
<1>6. ASSUME NEW q \in Procs
      PROVE  ProcTunnel(proc[q])'
  <2> PICK w : w = proc'[q]
    OBVIOUS
  <2>1. CASE q = p
    BY <1>2, <2>1 DEF ProcTunnel, Fencing, RestUndo
  <2>2. CASE q # p
    <3>1. w = proc[q] /\ ProcTunnel(w) /\ ProcInv(w)
      BY <1>2, <2>2 DEF TunnelInv, Inv2, ProcsInv
    <3>2. ~(RestUndo(w) /\ Same(w.snap))
      BY <1>3, <3>1 DEF ProcInv, DownInv, RestUndo, Down
    <3>3. w.pc \in Fencing /\ Same(w.snap) => Fenced
      BY <3>1 DEF ProcTunnel
    <3> QED BY <1>1, <3>2, <3>3 DEF ProcTunnel, RestUndo, Same, Fenced
  <2> QED BY <2>1, <2>2
<1> QED BY <1>5, <1>6 DEF TunnelInv

\* Nobody takes a step.
LEMMA NoneTunnel ==
    ASSUME Inv2, Inv1', TunnelInv, UNCHANGED <<row, tunnel, proc>>,
           \A j \in Jobs : /\ exec'[j].op = exec[j].op /\ exec'[j].epoch = exec[j].epoch
                           /\ exec'[j].st = "absent" => exec[j].st = "absent"
    PROVE  TunnelInv'
<1>1. PICK p : p \notin Procs
  BY NoSetContainsEverything
<1>2. RowFits
  BY SameFitsTunnel
<1> QED BY <1>1, <1>2, TunnelKept DEF TunnelMoves

\* A job is started, its execution goes on, or its call reaches EC2.
LEMMA JobTunnel ==
    ASSUME Inv2, Inv1', TunnelInv,
           \/ \E p \in Procs : StartExecution(p)
           \/ LateStartExecution
           \/ \E j \in Jobs : Workflow(j)
    PROVE  TunnelInv'
<1>1. exec \in [Jobs -> Exec \cup {NoExec}]
  BY DEF Inv2, Inv1, TypeOK
<1> DEFINE Goes == \A k \in Jobs : /\ exec'[k].op = exec[k].op /\ exec'[k].epoch = exec[k].epoch
                                   /\ exec'[k].st = "absent" => exec[k].st = "absent"
<1>2. ASSUME NEW j, exec' = [exec EXCEPT ![j].st = "running"]
      PROVE  Goes
  BY <1>1, <1>2 DEF Exec, NoExec
<1>3. CASE \E p \in Procs : StartExecution(p)
  <2>1. UNCHANGED <<row, tunnel, proc>> /\ Goes
    BY <1>2, <1>3 DEF StartExecution, world
  <2> QED BY <2>1, NoneTunnel
<1>4. CASE LateStartExecution
  <2>1. UNCHANGED <<row, tunnel, proc>> /\ Goes
    BY <1>2, <1>4 DEF LateStartExecution, world
  <2> QED BY <2>1, NoneTunnel
<1>5. ASSUME NEW j \in Jobs, Workflow(j)
      PROVE  TunnelInv'
  <2>1. UNCHANGED <<row, tunnel, proc>>
    BY <1>5 DEF Workflow, ExecArm, ExecMutate, ExecSucceed, ExecFail, world
  <2>2. CASE ExecArm(j)
    BY <1>1, <2>1, <2>2, NoneTunnel DEF ExecArm, Exec, NoExec
  <2>3. CASE ExecMutate(j)
    BY <1>1, <2>1, <2>3, NoneTunnel DEF ExecMutate, Exec, NoExec
  <2>4. CASE ExecSucceed(j) \/ ExecFail(j)
    <3>1. \E st \in {"succeeded", "lost", "failed"} : exec' = [exec EXCEPT ![j].st = st]
      BY <2>4 DEF ExecSucceed, ExecFail
    <3> QED BY <1>1, <2>1, <3>1, NoneTunnel DEF Exec, NoExec
  <2> QED BY <1>5, <2>2, <2>3, <2>4 DEF Workflow
<1> QED BY <1>3, <1>4, <1>5

-----------------------------------------------------------------------------
(* Every step.                                                             *)

\* The steps of an invocation.
LEMMA InvocationTunnel ==
    ASSUME Inv2, Inv1', TunnelInv, NEW p \in Procs, Handle(p) \/ Crash(p)
    PROVE  TunnelInv'
<1>1. Swapless(p) \/ Swaps(p)
  BY HandleIs
<1>2. CASE Swapless(p)
  BY <1>2, QuietTunnel, FencesTunnel, JobTunnel, BeginTunnel, AnswerTunnel DEF Swapless
<1>3. CASE Swaps(p)
  BY <1>3, ReceiptTunnel, SettleTunnel, GenerationTunnel, FinalTunnel, StartedTunnel,
     MarkTunnel, RefusedTunnel, RefusedBootTunnel, StopTunnel, LostTunnel, LeaseTunnel,
     RetireTunnel, RecoveringTunnel, RecoveringRetireTunnel, ConsumeTunnel, FinishTunnel
     DEF Swaps
<1> QED BY <1>1, <1>2, <1>3

\* Every step keeps what the row and the invocations have of the tunnel.
LEMMA NextTunnel ==
    ASSUME Inv2, TunnelInv, [Next]_vars
    PROVE  TunnelInv'
<1>0. Inv1'
  BY NextKeeps DEF Inv2
<1>1. ASSUME NEW p \in Procs, Handle(p) \/ Crash(p)
      PROVE  TunnelInv'
  BY <1>0, <1>1, InvocationTunnel
<1>2. ASSUME NEW p \in Procs, NEW goal \in Goal, Begin(p, goal)
      PROVE  TunnelInv'
  BY <1>0, <1>2, BeginTunnel
<1>3. ASSUME NEW p \in Hosts, NEW i \in Epochs, Enroll(p, i)
      PROVE  TunnelInv'
  BY <1>0, <1>3, EnrollTunnel DEF Procs
<1>4. CASE (\E j \in Jobs : Workflow(j)) \/ LateStartExecution
  BY <1>0, <1>4, JobTunnel
<1>5. CASE \/ \E i \in Epochs : GuestShutdown(i) \/ InstanceLost(i)
           \/ Age \/ Expire \/ UNCHANGED vars
  <2>1. UNCHANGED <<row, exec, tunnel, proc>>
    BY <1>5 DEF GuestShutdown, InstanceLost, Age, Expire, rowVars, world, vars
  <2> QED BY <1>0, <2>1, NoneTunnel
<1>6. CASE Next
  <2>1. CASE \E p \in Users, goal \in {"open", "stop", "delete"} : Begin(p, goal)
    BY <1>2, <2>1 DEF Procs, Goal
  <2>2. CASE \E p \in Crons, goal \in {"fleet", "deleted"} : Begin(p, goal)
    BY <1>2, <2>2 DEF Procs, Goal
  <2> QED BY <1>1, <1>3, <1>4, <1>5, <1>6, <2>1, <2>2 DEF Next
<1> QED BY <1>5, <1>6

\* A born computer at rest has its lease's tunnel fenced, and a running one has
\* the tunnel of its first lease.
LEMMA InitTunnel == Init => TunnelInv
<1> SUFFICES ASSUME Init PROVE TunnelInv
  OBVIOUS
<1>1. PICK state \in Born :
        /\ row = BornRow(state)
        /\ exec = [j \in Jobs |-> NoExec]
        /\ tunnel = [rec |-> IF state = "RUNNING" THEN 1 ELSE 0,
                     fence |-> IF state = "RUNNING" THEN 0
                               ELSE IF state = "NONE" THEN 0 ELSE 1]
        /\ proc = [p \in Procs |-> Idle]
  BY DEF Init
<1>2. state \in {"NONE", "STOPPED", "RUNNING"}
  BY ConfigAssumption
<1>3. /\ row.state = state /\ row.epoch = (IF state = "NONE" THEN 0 ELSE 1)
      /\ row.err \in {"none", "enroll_succeeded"}
  BY <1>1, <1>2 DEF BornRow, NoRow
<1>4. \A p \in Procs : proc[p].pc = "idle"
  BY <1>1 DEF Idle
<1>5. \A j \in Jobs : ~IdleStart(j)
  BY <1>1 DEF IdleStart, NoExec
<1>6. state # "RUNNING" => Untunneled
  BY <1>1, <1>4 DEF Untunneled, Enrolling
<1>7. RowTunnel
  BY <1>1, <1>2, <1>3, <1>5, <1>6 DEF RowTunnel, AtRest, MarkedEnd
<1>8. \A p \in Procs : ProcTunnel(proc[p])
  BY <1>4 DEF ProcTunnel, Fencing, RestUndo
<1> QED BY <1>7, <1>8 DEF TunnelInv

\* While AWS never refuses a start it has accepted, what the tunnel has of the
\* row, of its boot and of the invocations that fenced it agree as TunnelInv
\* says, whatever interleaves, fails, is lost or dies.
THEOREM TunnelInductive ==
    ASSUME FlakyRefusal = FALSE
    PROVE  Spec => []TunnelInv
<1>1. Inv2 /\ TunnelInv /\ [Next]_vars => TunnelInv'
  BY NextTunnel
<1> QED BY <1>1, InitTunnel, RestInductive, PTL DEF Spec

\* No tunnel outlives the session: whichever stop, retire, loss, settled start
\* or refused boot brings a row to rest, its tunnel was removed before, and no
\* enrollment under way can make one again.
THEOREM SessionsEnd ==
    ASSUME FlakyRefusal = FALSE
    PROVE  Spec => []NoTunnelAtRest
<1>1. TunnelInv => NoTunnelAtRest
  BY DEF TunnelInv, RowTunnel, Untunneled, NoTunnelAtRest
<1> QED BY <1>1, TunnelInductive, PTL
-----------------------------------------------------------------------------
(* The session of a computer that is shown RUNNING.                        *)

\* A boot's row, until it is up or given up.
Boots == Booting \cup {"MOUNTING"}
\* Where a retire of a running computer may still be taken back, and where it
\* is over.
Undoable == {"RETIRING", "UNCONFIRMED", "RECOVERING"}
Ended == {"RETIRED", "PURGE_ELIGIBLE"}
\* What no row holds that may go back to RUNNING.
NoReturn == HostRetireErrors \cup {"unknown:STOPPED"}

\* An invocation that may take the retire of a running computer back, and a row
\* that may go back to RUNNING.
UpUndo(v) == v.pc = "start" /\ v.kind \in {"uretire", "rretire"} /\ v.undo = "RUNNING"
Returns(v) == UpUndo(v) /\ Same(v.snap)
MayRun == row.err = "unknown:RUNNING" \/ \E p \in Procs : Returns(proc[p])
\* A computer that runs, or may be shown RUNNING again.
Runs == row.state = "RUNNING" \/ MayRun
Up == Runs /\ row.state \notin Ended

\* The browser reaches the host, until EC2 loses it; the volume is under the
\* fence token f, at i unless EC2 lost it; exactly the row's instance is metered.
Reach == tunnel.rec = row.epoch /\ tunnel.fence < row.epoch
Ready == row.inst # 0 /\ (inst[row.inst].st = "gone" \/ Reach)
Held(i, f) == vol.fence = f /\ (inst[i].st # "gone" => vol.at = i)
Owns == row.inst # 0 /\ Held(row.inst, row.fence) /\ usage = {row.inst}

\* What a retire that ended and a boot that is done leave, and which jobs a
\* computer that runs has had in its lease.
JobSess(j) ==
    LET x == exec[j] IN
    /\ x.op = "retire" /\ x.st \in {"succeeded", "lost"} => inst[x.src].st = "gone"
    /\ BootOf(j) /\ x.st = "succeeded" => Held(ResultInstance(x), x.fence)
    /\ x.op \in EndOps /\ x.epoch = row.epoch => row.state \notin Boots
    /\ Runs => /\ x.op = "stop" => x.epoch # row.epoch
               /\ BootOf(j) => x.st = "succeeded"
\* What the row promises of the tunnel, the volume and the meter.
RowSess ==
    /\ Up => Ready /\ Owns
    /\ row.state = "MOUNTING" => Owns
    /\ row.state \in Boots /\ row.err = "enroll_succeeded" => Ready
    /\ row.state \in Boots /\ row.err = "enroll_tunnel_pending" => row.inst # 0
    /\ row.err = "unknown:RUNNING" => row.state = "RETIRING"
    /\ row.state = "RUNNING" \/ row.err = "unknown:RUNNING" =>
         \A p \in Procs : ~Returns(proc[p])
    /\ MayRun => row.state \in Undoable \cup Ended /\ row.err \notin NoReturn
OneReturns ==
    \A p, q \in Procs : Returns(proc[p]) /\ Returns(proc[q]) => p = q
\* The error and the instance in what an invocation has read, whatever the row
\* has become.
ReadSess(v) ==
    /\ v.pc = "consume" => v.host # 0
    /\ v.pc \in {"tunnel", "finish"} => v.snap.inst # 0
    /\ v.pc = "start" /\ v.kind \in {"hostretire", "fleetretire"} => v.snap.err = "enroll_host_retire"
    /\ v.pc = "start" /\ v.kind \in {"uretire", "rretire"} => v.snap.err = "none"
    /\ v.pc = "recover" /\ v.snap.state = "UNCONFIRMED" => v.snap.err = "enroll_tunnel_failed"
    /\ v.pc = "recover" /\ v.snap.state = "RECOVERING" /\ v.kind # "uncretire" =>
         v.snap.err = "enroll_host_retire"
\* An enrollment that is finished has its tunnel; who may take a retire back to
\* rest retires a computer that does not run.
ProcSess(v) ==
    /\ RestUndo(v) /\ Same(v.snap) => ~Runs
    /\ v.pc = "finish" /\ v.kind # "refused" /\ Same(v.snap) /\ row.state \in Boots => Ready

SessInv ==
    /\ \A j \in Jobs : JobSess(j)
    /\ RowSess /\ OneReturns
    /\ \A p \in Procs : ReadSess(proc[p]) /\ ProcSess(proc[p])

-----------------------------------------------------------------------------
(* One step that moves the row within its lease.                           *)

\* The jobs stay, but for a stop or a retire that is recorded.
NewEnds ==
    \A j \in Jobs :
        \/ exec'[j] = exec[j]
        \/ /\ exec'[j].op \in EndOps /\ exec'[j].st = "absent" /\ row'.state \notin Boots
           /\ exec'[j].op = "stop" => row'.state = "DRAINING"
\* A boot that is done.
Launched == row.state \in Boots /\ \A j \in Jobs : BootOf(j) => exec[j].st = "succeeded"
\* The row keeps what it owns, and its meter.
Keeps == row'.inst = row.inst /\ row'.fence = row.fence /\ usage' = usage
\* All but p stay as they are, in the row's lease.
Leaves(p) ==
    /\ row'.epoch = row.epoch /\ UNCHANGED <<inst, vol, tunnel>>
    /\ \A q \in Procs : q # p => proc'[q] = proc[q]
\* What p goes on with is no enrollment to finish.
Resumes(w) == ReadSess(w) /\ w.pc # "finish"

\* Who stays as it is may take a retire back as before.
LEMMA ReturnsStay ==
    ASSUME row'.epoch = row.epoch
    PROVE  \A q \in Procs : proc'[q] = proc[q] => (Returns(proc[q])' <=> Returns(proc[q]))
BY DEF Returns, UpUndo, Same

\* The instance of a row that is ready, and that the row keeps, stays ready.
LEMMA ReadyStays ==
    ASSUME row'.epoch = row.epoch, row'.inst = row.inst, UNCHANGED <<inst, tunnel>>, Ready
    PROVE  Ready'
BY DEF Ready, Reach

\* So does what it owns.
LEMMA OwnsStay ==
    ASSUME Keeps, UNCHANGED <<inst, vol>>, Owns
    PROVE  Owns'
BY DEF Owns, Keeps, Held

\* A step of the row within its lease keeps what the jobs and the other
\* invocations have of the session, once the row itself does.
LEMMA SessKept ==
    ASSUME Inv2, SessInv, NEW p, Leaves(p), NewEnds, RowSess', OneReturns',
           row'.state \in Boots => row.state \in Boots /\ (row.inst # 0 => row'.inst = row.inst),
           Runs' => Runs \/ Launched,
           p \in Procs => Resumes(proc'[p]) /\ (RestUndo(proc'[p]) => ~Runs')
    PROVE  SessInv'
<1>1. row'.epoch = row.epoch /\ UNCHANGED <<inst, vol, tunnel>>
  BY DEF Leaves
<1>2. row'.state = "DRAINING" => ~Runs'
  BY DEF RowSess, Runs, Undoable, Ended
<1>3. ASSUME NEW j \in Jobs
      PROVE  JobSess(j)'
  <2>1. CASE exec'[j] = exec[j]
    <3>1. JobSess(j)
      BY DEF SessInv
    <3> PICK x : x = exec[j]
      OBVIOUS
    <3>2. x.op = "retire" /\ x.st \in {"succeeded", "lost"} => inst[x.src].st = "gone"
      BY <3>1 DEF JobSess
    <3>3. x.op \in BootOps /\ x.epoch = row.epoch /\ x.st = "succeeded" =>
            Held(ResultInstance(x), x.fence)
      BY <3>1 DEF JobSess, BootOf
    <3>4. x.op \in EndOps /\ x.epoch = row.epoch => row.state \notin Boots
      BY <3>1 DEF JobSess
    <3>5. Runs' => /\ x.op = "stop" => x.epoch # row.epoch
                   /\ x.op \in BootOps /\ x.epoch = row.epoch => x.st = "succeeded"
      BY <3>1, <3>4 DEF JobSess, BootOf, Launched, EndOps
    <3>6. Held(ResultInstance(x), x.fence) => Held(ResultInstance(x), x.fence)'
      BY <1>1 DEF Held, ResultInstance
    <3> QED BY <1>1, <2>1, <3>2, <3>3, <3>4, <3>5, <3>6 DEF JobSess, BootOf
  <2>2. CASE exec'[j] # exec[j]
    <3>1. /\ exec'[j].op \in EndOps /\ exec'[j].st = "absent" /\ row'.state \notin Boots
          /\ exec'[j].op = "stop" => ~Runs'
      BY <1>2, <2>2 DEF NewEnds
    <3> QED BY <3>1 DEF JobSess, BootOf, EndOps, BootOps
  <2> QED BY <2>1, <2>2
<1>4. ASSUME NEW q \in Procs
      PROVE  ReadSess(proc[q])' /\ ProcSess(proc[q])'
  <2> PICK w : w = proc'[q]
    OBVIOUS
  <2>1. CASE q = p
    BY <2>1 DEF Resumes, ReadSess, ProcSess, RestUndo, Same
  <2>2. CASE q # p
    <3>1. w = proc[q] /\ ReadSess(w) /\ ProcSess(w) /\ ProcInv(w)
      BY <2>2 DEF Leaves, SessInv, Inv2, ProcsInv
    <3>2. Launched => ~(RestUndo(w) /\ Same(w.snap))
      <4> SUFFICES ASSUME Launched, RestUndo(w), Same(w.snap) PROVE FALSE
        OBVIOUS
      <4> PICK s : s = w.snap
        OBVIOUS
      <4>1. s.state = "RETIRING" /\ s.job # 0 /\ s \in Row /\ JobFits(s, exec) /\ s.epoch = row.epoch
        <5>1. SnapOK(w.pc, s, w.kind, w.undo, exec) /\ s \in Row
          BY <3>1 DEF Inv2, Inv1, ProcsOK, RowOK
        <5> QED BY <3>1, <5>1 DEF SnapOK, StartOK, RestUndo, Stops, Retires, BootUndo,
                                  ProcInv, SnapInv, Same
      <4>2. s.job \in Jobs /\ exec[s.job].op = "retire" /\ exec[s.job].epoch = row.epoch
        BY <4>1, SnapIs DEF JobFits, Inv2
      <4> QED BY <4>2 DEF SessInv, JobSess, Launched, EndOps
    <3>3. RestUndo(w) /\ Same(w.snap) => ~Runs'
      BY <3>1, <3>2 DEF ProcSess
    <3>4. w.pc = "finish" /\ w.kind # "refused" /\ Same(w.snap) /\ row'.state \in Boots => Ready'
      <4> SUFFICES ASSUME w.pc = "finish", w.kind # "refused", Same(w.snap), row'.state \in Boots
                   PROVE  Ready'
        OBVIOUS
      <4>1. Ready
        BY <3>1 DEF ProcSess
      <4> QED BY <1>1, <4>1, ReadyStays DEF Ready
    <3> QED BY <1>1, <3>1, <3>3, <3>4 DEF ReadSess, ProcSess, RestUndo, Same
  <2> QED BY <2>1, <2>2
<1> QED BY <1>3, <1>4 DEF SessInv

\* A row that is neither a boot's nor shown RUNNING any more: what may still go
\* back to RUNNING keeps what it owns.
Cooled ==
    /\ row'.state \notin Boots \cup {"RUNNING"}
    /\ MayRun => /\ row'.state \in Undoable \cup Ended /\ row'.err \notin NoReturn
                 /\ row'.state \in Undoable => row.state \in Undoable /\ Keeps
    /\ row'.err = "unknown:RUNNING" => row.err = "unknown:RUNNING" /\ row'.state = "RETIRING"

\* Such a step keeps what is known of the session.
LEMMA CoolSess ==
    ASSUME Inv2, SessInv, NEW p, Leaves(p), NewEnds, Cooled,
           p \in Procs => /\ Resumes(proc'[p]) /\ ~UpUndo(proc'[p])
                          /\ RestUndo(proc'[p]) => ~Runs
    PROVE  SessInv'
<1>1. row'.epoch = row.epoch /\ UNCHANGED <<inst, vol, tunnel>>
  BY DEF Leaves
<1>2. \A q \in Procs : Returns(proc[q])' => Returns(proc[q])
  <2> TAKE q \in Procs
  <2>1. CASE q = p
    BY <2>1 DEF Returns
  <2>2. CASE q # p
    BY <1>1, <2>2, ReturnsStay DEF Leaves
  <2> QED BY <2>1, <2>2
<1>3. MayRun' => MayRun
  BY <1>2 DEF Cooled, MayRun
<1>4. Runs' => MayRun'
  BY DEF Runs, Cooled
<1>5. Up' => Ready' /\ Owns'
  <2> SUFFICES ASSUME Up' PROVE Ready' /\ Owns'
    OBVIOUS
  <2>1. MayRun /\ row'.state \notin Ended
    BY <1>3, <1>4 DEF Up
  <2>2. row.state \in Undoable /\ Keeps
    BY <2>1 DEF Cooled
  <2>3. Ready /\ Owns
    BY <2>1, <2>2 DEF SessInv, RowSess, Up, Runs, Undoable, Ended
  <2> QED BY <1>1, <2>2, <2>3, ReadyStays, OwnsStay DEF Keeps
<1>6. RowSess'
  <2>1. /\ row'.state \notin Boots \cup {"RUNNING", "MOUNTING"}
        /\ row'.err = "unknown:RUNNING" => row'.state = "RETIRING" /\ row.err = "unknown:RUNNING"
    BY DEF Cooled, Boots
  <2>2. MayRun' => row'.state \in Undoable \cup Ended /\ row'.err \notin NoReturn
    BY <1>3 DEF Cooled
  <2>3. row.err = "unknown:RUNNING" => \A q \in Procs : ~Returns(proc[q])
    BY DEF SessInv, RowSess
  <2> QED BY <1>2, <1>5, <2>1, <2>2, <2>3 DEF RowSess
<1>7. OneReturns'
  BY <1>2 DEF SessInv, OneReturns
<1>8. Runs' => Runs
  BY <1>3, <1>4 DEF Runs
<1>9. row'.state \notin Boots
  BY DEF Cooled
<1> QED BY <1>6, <1>7, <1>8, <1>9, SessKept

\* The row of a boot goes on, up to RUNNING.
Boosted ==
    /\ row.state \in Boots /\ row'.state \in Boots \cup {"RUNNING"}
    /\ row.inst # 0 => row'.inst = row.inst
    /\ row'.err # "unknown:RUNNING"
    /\ row'.state \in {"MOUNTING", "RUNNING"} => Owns'
    /\ row'.state = "RUNNING" => Launched /\ Ready
    /\ row'.err = "enroll_succeeded" => Ready
    /\ row'.err = "enroll_tunnel_pending" => row'.inst # 0

\* Such a step keeps what is known of the session.
LEMMA BoostSess ==
    ASSUME Inv2, SessInv, NEW p, Leaves(p), NewEnds, Boosted,
           p \in Procs => /\ Resumes(proc'[p]) /\ ~UpUndo(proc'[p]) /\ ~RestUndo(proc'[p])
    PROVE  SessInv'
<1>1. row'.epoch = row.epoch /\ UNCHANGED <<inst, vol, tunnel>>
  BY DEF Leaves
<1>2. ~MayRun /\ \A q \in Procs : ~Returns(proc[q])
  <2>1. ~MayRun
    BY DEF Boosted, SessInv, RowSess, Boots, Booting, Undoable, Ended
  <2> QED BY <2>1 DEF MayRun
<1>3. \A q \in Procs : ~Returns(proc[q])'
  <2> TAKE q \in Procs
  <2>1. CASE q = p
    BY <2>1 DEF Returns
  <2>2. CASE q # p
    BY <1>1, <1>2, <2>2, ReturnsStay DEF Leaves
  <2> QED BY <2>1, <2>2
<1>4. ~MayRun'
  BY <1>3 DEF MayRun, Boosted
<1>5. Ready => Ready'
  <2> SUFFICES ASSUME Ready PROVE Ready'
    OBVIOUS
  <2>1. row'.inst = row.inst
    BY DEF Ready, Boosted
  <2> QED BY <1>1, <2>1, ReadyStays
<1>6. RowSess'
  <2>1. Up' => row'.state = "RUNNING"
    BY <1>4 DEF Up, Runs
  <2> QED BY <1>3, <1>4, <1>5, <2>1 DEF RowSess, Boosted, Up, Runs, Undoable
<1>7. OneReturns'
  BY <1>3 DEF OneReturns
<1>8. Runs' => Launched
  BY <1>4 DEF Runs, Boosted
<1> QED BY <1>6, <1>7, <1>8, SessKept DEF Boosted

\* A running computer is retired, its retire is marked, or taken back.
Turned(p) ==
    /\ Up /\ Keeps /\ row'.state \in {"RUNNING", "RETIRING"} /\ row'.err \notin NoReturn
    /\ row'.err = "unknown:RUNNING" => row'.state = "RETIRING"
    /\ \A q \in Procs : q # p => ~Returns(proc[q])

\* Such a step keeps what is known of the session.
LEMMA TurnSess ==
    ASSUME Inv2, SessInv, NEW p \in Procs, Leaves(p), NewEnds, Turned(p),
           Resumes(proc'[p]), ~RestUndo(proc'[p]),
           UpUndo(proc'[p]) => row'.state = "RETIRING" /\ row'.err # "unknown:RUNNING"
    PROVE  SessInv'
<1>1. row'.epoch = row.epoch /\ UNCHANGED <<inst, vol, tunnel>>
  BY DEF Leaves
<1>2. \A q \in Procs : Returns(proc[q])' => q = p /\ UpUndo(proc'[p])
  <2> TAKE q \in Procs
  <2>1. CASE q = p
    BY <2>1 DEF Returns, UpUndo
  <2>2. CASE q # p
    BY <1>1, <2>2, ReturnsStay DEF Leaves, Turned
  <2> QED BY <2>1, <2>2
<1>3. Ready' /\ Owns'
  <2>1. Ready /\ Owns
    BY DEF SessInv, RowSess, Turned
  <2> QED BY <1>1, <2>1, ReadyStays, OwnsStay DEF Turned, Keeps
<1>4. row'.state \notin Boots
  BY DEF Turned, Boots, Booting
<1>5. RowSess'
  <2>1. row'.state \notin Boots \cup {"MOUNTING"}
    BY <1>4 DEF Boots
  <2>2. MayRun' => row'.state = "RETIRING"
    BY <1>2 DEF MayRun, Turned
  <2>3. row'.state = "RUNNING" \/ row'.err = "unknown:RUNNING" =>
          \A q \in Procs : ~Returns(proc[q])'
    BY <1>2
  <2> QED BY <1>3, <2>1, <2>2, <2>3 DEF RowSess, Turned, Undoable
<1>6. OneReturns'
  BY <1>2 DEF OneReturns
<1>7. Runs
  BY DEF Turned, Up
<1> QED BY <1>4, <1>5, <1>6, <1>7, SessKept

-----------------------------------------------------------------------------
(* The jobs and the world.                                                 *)

\* The row's boot is under way, and is not over.
Launching ==
    \E j \in Jobs : /\ BootOf(j) /\ row.state \in Booting
                    /\ exec[j].st # "succeeded" /\ exec'[j].st # "succeeded"
\* Who holds the volume goes on holding it.
Holds == \A i \in Epochs : \A f : Held(i, f) => Held(i, f)'
GoneStays == \A i \in Epochs : inst[i].st = "gone" => inst'[i].st = "gone"
\* What ends with this step has done what it says.
Outcome(j) ==
    LET x == exec[j] IN
    /\ x.op = "retire" => inst'[x.src].st = "gone"
    /\ BootOf(j) /\ exec'[j].st = "succeeded" => Held(ResultInstance(x), x.fence)'

\* A step of the jobs or of EC2 keeps what is known of the session.
LEMMA WorldSess ==
    ASSUME Inv2, SessInv, UNCHANGED <<row, usage, tunnel, proc>>, SameJobs, GoneStays,
           Holds \/ Launching,
           \A j \in Jobs :
              /\ exec[j].st = "succeeded" => exec'[j].st = "succeeded"
              /\ exec'[j].st \in {"succeeded", "lost"} => exec[j].st = exec'[j].st \/ Outcome(j)
    PROVE  SessInv'
<1>1. \A i \in Epochs : inst[i].st = "gone" => inst'[i].st = "gone"
  BY DEF GoneStays
<1>2. /\ Runs' <=> Runs
      /\ Up' <=> Up
      /\ MayRun' <=> MayRun
      /\ \A q \in Procs : Returns(proc[q])' <=> Returns(proc[q])
  BY DEF Up, Runs, MayRun, Returns, UpUndo, Same
<1>3. row \in Row /\ (row.inst # 0 => row.inst \in Epochs)
  BY SnapIs DEF Inv2, Inv1, TypeOK
<1>4. Ready => Ready'
  BY <1>1, <1>3 DEF Ready, Reach
<1>5. Launching => ~Up /\ row.state # "MOUNTING"
  BY DEF Launching, Up, Runs, SessInv, RowSess, Booting, Undoable, Ended
<1>6. Up \/ row.state = "MOUNTING" => (Owns => Owns')
  BY <1>3, <1>5 DEF Holds, Owns, Held
<1>7. ASSUME NEW j \in Jobs
      PROVE  JobSess(j)'
  <2>1. JobSess(j)
    BY DEF SessInv
  <2>2. CASE exec[j].op = "none"
    <3>1. exec'[j].op \notin BootOps \cup EndOps
      BY <2>2 DEF BootOps, EndOps, SameJobs
    <3> QED BY <3>1 DEF JobSess, BootOf, BootOps, EndOps
  <2>3. CASE exec[j].op # "none"
    <3> PICK x : x = exec[j]
      OBVIOUS
    <3> PICK y : y = exec'[j]
      OBVIOUS
    <3>1. /\ y.op = x.op /\ y.epoch = x.epoch /\ y.src = x.src /\ y.fence = x.fence
          /\ x.st = "succeeded" => y.st = x.st
      BY DEF SameJobs
    <3>2. x.op # "provision" => x.src \in Epochs
      BY <2>3, ExecIs DEF Inv2
    <3>3. x.epoch \in Epochs
      BY <2>3, ExecIs DEF Inv2
    <3>4. y.op = "retire" /\ y.st \in {"succeeded", "lost"} => inst'[y.src].st = "gone"
      BY <1>1, <2>1, <3>1, <3>2 DEF JobSess, Outcome
    <3>5. ResultInstance(y) = ResultInstance(x)
      BY <3>1 DEF ResultInstance
    <3>6. BootOf(j)' <=> BootOf(j)
      BY <3>1 DEF BootOf
    <3>7. BootOf(j) /\ y.st = "succeeded" => Held(ResultInstance(y), y.fence)'
      <4> SUFFICES ASSUME BootOf(j), y.st = "succeeded" PROVE Held(ResultInstance(y), y.fence)'
        OBVIOUS
      <4>1. CASE Outcome(j)
        BY <3>1, <4>1 DEF Outcome, Held, ResultInstance
      <4>2. CASE x.st = y.st
        <5>1. Held(ResultInstance(x), x.fence)
          BY <2>1, <4>2 DEF JobSess
        <5>2. ResultInstance(x) \in Epochs
          BY <3>2, <3>3 DEF ResultInstance
        <5>3. ~Launching
          <6> SUFFICES ASSUME NEW k \in Jobs, BootOf(k), exec[k].st # "succeeded"
                       PROVE  FALSE
            BY DEF Launching
          <6>1. k = j
            BY BootIs
          <6> QED BY <4>2, <6>1
        <5>4. Holds
          BY <5>3
        <5> HIDE DEF Holds
        <5> PICK i \in Epochs : i = ResultInstance(x)
          BY <5>2
        <5>5. Held(i, x.fence)'
          BY <5>1, <5>4 DEF Holds, Held
        <5>6. ResultInstance(y) = i /\ y.fence = x.fence
          BY <3>1, <3>5
        <5> QED BY <5>5, <5>6 DEF Held, ResultInstance
      <4> QED BY <4>1, <4>2
    <3> QED BY <1>2, <2>1, <3>1, <3>4, <3>6, <3>7 DEF JobSess, BootOf
  <2> QED BY <2>2, <2>3
<1>8. RowSess'
  BY <1>2, <1>4, <1>6 DEF SessInv, RowSess
<1>9. OneReturns'
  BY <1>2 DEF SessInv, OneReturns
<1>10. ASSUME NEW q \in Procs
       PROVE  ReadSess(proc[q])' /\ ProcSess(proc[q])'
  BY <1>2, <1>4 DEF SessInv, ReadSess, ProcSess, RestUndo, Same
<1> QED BY <1>7, <1>8, <1>9, <1>10 DEF SessInv

\* A stop and a terminate only wind an instance down.
LEMMA EndWinds ==
    ASSUME Inv2, NEW j \in Jobs, exec[j].armed \in {"stop", "terminate"}, Ec2(exec[j])
    PROVE  Winds
<1> DEFINE x == exec[j]
<1>1. x.st = "running"
  BY DEF Inv2, Inv1, ExecsOK, ExecOK, NoExec
<1>2. /\ x.src # 0 => inst[x.src].st # "none"
      /\ x.src \in 0..MaxEpoch
  BY <1>1, RunningIs DEF JobInv
<1>3. /\ inst \in [Epochs -> [st: {"none", "running", "stopped", "gone"}, boot: 0..MaxEpoch]]
      /\ vol \in [at: 0..MaxEpoch, fence: 0..MaxEpoch]
      /\ 0 \notin Epochs
  BY Bounds DEF Inv2, Inv1, TypeOK, Epochs
<1>4. CASE x.armed = "stop"
  <2>1. vol' = vol /\ inst' = [inst EXCEPT ![x.src].st = IF @ = "running" THEN "stopped" ELSE @]
    BY <1>4 DEF Ec2
  <2> QED BY <1>3, <2>1 DEF Winds
<1>5. CASE x.armed = "terminate"
  <2>1. /\ inst' = [inst EXCEPT ![x.src].st = "gone"]
        /\ vol' = [vol EXCEPT !.at = IF @ = x.src THEN 0 ELSE @]
    BY <1>5 DEF Ec2
  <2>2. ASSUME NEW i \in Epochs
        PROVE  /\ inst'[i].boot = inst[i].boot
               /\ inst'[i].st = inst[i].st \/ (inst[i].st # "none" /\ inst'[i].st = "gone")
    BY <1>2, <1>3, <2>1
  <2>3. /\ vol'.fence = vol.fence
        /\ vol'.at = vol.at \/ (vol'.at = 0 /\ (vol.at \in Epochs => inst'[vol.at].st = "gone"))
    BY <1>3, <2>1
  <2> QED BY <2>2, <2>3 DEF Winds
<1> QED BY <1>4, <1>5

\* So do a host that shuts itself down and an instance that EC2 loses.
LEMMA HostWinds ==
    ASSUME Inv2, NEW i \in Epochs, GuestShutdown(i) \/ InstanceLost(i)
    PROVE  Winds
<1>1. /\ inst \in [Epochs -> [st: {"none", "running", "stopped", "gone"}, boot: 0..MaxEpoch]]
      /\ vol \in [at: 0..MaxEpoch, fence: 0..MaxEpoch]
  BY DEF Inv2, Inv1, TypeOK
<1>2. CASE GuestShutdown(i)
  BY <1>1, <1>2 DEF GuestShutdown, Winds
<1>3. CASE InstanceLost(i)
  <2>1. /\ inst' = [inst EXCEPT ![i].st = "gone"] /\ inst[i].st \in {"running", "stopped"}
        /\ vol' = [vol EXCEPT !.at = IF @ = i THEN 0 ELSE @]
    BY <1>3 DEF InstanceLost
  <2>2. \A k \in Epochs : /\ inst'[k].boot = inst[k].boot
                          /\ inst'[k].st = inst[k].st \/ (inst[k].st # "none" /\ inst'[k].st = "gone")
    BY <1>1, <2>1
  <2>3. /\ vol'.fence = vol.fence
        /\ vol'.at = vol.at \/ (vol'.at = 0 /\ (vol.at \in Epochs => inst'[vol.at].st = "gone"))
    BY <1>1, <2>1
  <2> QED BY <2>2, <2>3 DEF Winds
<1> QED BY <1>2, <1>3

\* What ends keeps its volume until it is gone.
LEMMA WindSess ==
    ASSUME Inv2, SessInv, UNCHANGED <<row, usage, tunnel, proc>>, OnlyDisarms, Winds
    PROVE  SessInv'
<1>1. GoneStays
  BY DEF Winds, GoneStays
<1>2. Holds
  <2> SUFFICES ASSUME NEW i \in Epochs, NEW f, Held(i, f)
               PROVE  Held(i, f)'
    BY DEF Holds
  <2> QED BY DEF Held, Winds
<1>3. SameJobs /\ \A j \in Jobs : exec'[j].st = exec[j].st
  BY DEF OnlyDisarms
<1> QED BY <1>1, <1>2, <1>3, WorldSess

\* A call of the row's boot is performed, or gets no answer.
LEMMA BootCallSess ==
    ASSUME Inv2, SessInv, UNCHANGED <<row, usage, tunnel, proc>>, SameJobs, GoneStays,
           NEW j \in Jobs, exec[j].op \in BootOps, exec[j].armed # "none",
           exec'[j].st # "succeeded",
           \A k \in Jobs : exec'[k].st \in {"succeeded", "lost"} \/ exec[k].st = "succeeded" =>
                             exec'[k].st = exec[k].st
    PROVE  SessInv'
<1>1. Launching
  BY ArmedBoot DEF Launching
<1> QED BY <1>1, WorldSess

\* One execution takes another status.
LEMMA JobTurns ==
    ASSUME Inv2, NEW j \in Jobs, exec[j].st # "none", NEW st,
           \/ exec' = [exec EXCEPT ![j].st = st]
           \/ \E armed, ran : exec' = [exec EXCEPT ![j].armed = armed, ![j].st = st, ![j].ran = ran]
    PROVE  SameJobs /\ exec'[j].st = st /\ \A k \in Jobs : k # j => exec'[k] = exec[k]
<1>1. exec \in [Jobs -> Exec \cup {NoExec}] /\ exec[j] \in Exec
  BY RecordedIs DEF Inv2, Inv1, TypeOK
<1>2. CASE exec' = [exec EXCEPT ![j].st = st]
  BY <1>1, <1>2 DEF SameJobs, Exec
<1>3. ASSUME NEW armed, NEW ran,
             exec' = [exec EXCEPT ![j].armed = armed, ![j].st = st, ![j].ran = ran]
      PROVE  SameJobs /\ exec'[j].st = st /\ \A k \in Jobs : k # j => exec'[k] = exec[k]
  BY <1>1, <1>3 DEF SameJobs, Exec
<1> QED BY <1>2, <1>3

\* An execution that is not done goes on, while EC2 stays as it is.
LEMMA TurnsSess ==
    ASSUME Inv2, SessInv, UNCHANGED <<row, usage, tunnel, proc, inst, vol>>,
           NEW j \in Jobs, NEW st, SameJobs, exec'[j].st = st, exec[j].st \in {"absent", "running"},
           \A k \in Jobs : k # j => exec'[k] = exec[k],
           st \in {"succeeded", "lost"} => Outcome(j)
    PROVE  SessInv'
<1>1. GoneStays /\ Holds
  BY DEF GoneStays, Holds, Held
<1> QED BY <1>1, WorldSess

\* A retire that ends has ended its instance, a boot that ends has attached the
\* volume it holds.
LEMMA SucceedOutcome ==
    ASSUME Inv2, NEW j \in Jobs, ExecSucceed(j)
    PROVE  Outcome(j)
<1> DEFINE x == exec[j]
<1>1. /\ UNCHANGED <<inst, vol>> /\ x.st = "running" /\ observe(x) \in {"succeeded", "lost"}
      /\ exec' = [exec EXCEPT ![j].st = observe(x)]
  BY DEF ExecSucceed, Running, world
<1>2. exec'[j].st = observe(x)
  BY <1>1, JobTurns
<1>3. x.op \in BootOps \cup EndOps
  BY <1>1, RunningIs
<1>4. x.op = "retire" => inst[x.src].st = "gone"
  BY <1>1 DEF observe, EndSource
<1>5. x.op = "start" /\ observe(x) = "succeeded" => vol.fence = x.fence /\ vol.at = x.src
  BY DEF observe, Met
<1>6. x.op \in {"provision", "replace"} /\ observe(x) = "succeeded" =>
        vol.fence = x.fence /\ vol.at = x.epoch
  BY DEF observe, Launch, EndSource
<1> HIDE DEF x
<1>7. BootOf(j) /\ observe(x) = "succeeded" => Held(ResultInstance(x), x.fence)
  BY <1>3, <1>5, <1>6 DEF BootOf, BootOps, ResultInstance, Held, x
<1> QED BY <1>1, <1>2, <1>4, <1>7 DEF Outcome, Held, ResultInstance, x

\* The steps of Step Functions, and what of EC2 they reach.
LEMMA WorkflowSess ==
    ASSUME Inv2, SessInv, NEW j \in Jobs, Workflow(j)
    PROVE  SessInv'
<1> DEFINE x == exec[j]
<1>0. UNCHANGED <<row, usage, tunnel, proc>>
  BY DEF Workflow, ExecArm, ExecMutate, ExecSucceed, ExecFail, world
<1>1. CASE ExecArm(j)
  <2> PICK st : st = x.st
    OBVIOUS
  <2>1. st = "running" /\ UNCHANGED <<inst, vol>>
    BY <1>1 DEF ExecArm, Running, world
  <2>2. SameJobs /\ exec'[j].st = st /\ \A k \in Jobs : k # j => exec'[k] = exec[k]
    <3>1. PICK armed, ran : exec' = [exec EXCEPT ![j].armed = armed, ![j].ran = ran]
      BY <1>1 DEF ExecArm
    <3>2. exec \in [Jobs -> Exec \cup {NoExec}] /\ exec[j] \in Exec
      BY <2>1, RunningIs DEF Inv2, Inv1, TypeOK
    <3> QED BY <3>1, <3>2 DEF SameJobs, Exec
  <2> QED BY <1>0, <2>1, <2>2, TurnsSess
<1>2. CASE ExecSucceed(j)
  <2> PICK st : st = observe(x)
    OBVIOUS
  <2>1. x.st = "running" /\ UNCHANGED <<inst, vol>> /\ exec' = [exec EXCEPT ![j].st = st]
    BY <1>2 DEF ExecSucceed, Running, world
  <2>2. SameJobs /\ exec'[j].st = st /\ \A k \in Jobs : k # j => exec'[k] = exec[k]
    BY <2>1, JobTurns
  <2> QED BY <1>0, <1>2, <2>1, <2>2, SucceedOutcome, TurnsSess
<1>3. CASE ExecFail(j)
  <2>1. /\ x.st = "running" /\ UNCHANGED <<inst, vol>>
        /\ exec' = [exec EXCEPT ![j].st = "failed"]
    BY <1>3 DEF ExecFail, Running, world
  <2>2. SameJobs /\ exec'[j].st = "failed" /\ \A k \in Jobs : k # j => exec'[k] = exec[k]
    BY <2>1, JobTurns
  <2> QED BY <1>0, <2>1, <2>2, TurnsSess
<1>4. CASE ExecMutate(j)
  <2>1. x.armed # "none"
    BY <1>4 DEF ExecMutate
  <2>2. x # NoExec /\ x \in Exec /\ x.st = "running" /\ x.armed \in Mutation
    BY <2>1 DEF NoExec, Inv2, Inv1, TypeOK, ExecsOK, ExecOK, Exec
  <2>3. ASSUME NEW st \in {"running", "failed"}, NEW ran, UNCHANGED <<inst, vol>>,
               exec' = [exec EXCEPT ![j].armed = "none", ![j].st = st, ![j].ran = ran]
        PROVE  SessInv'
    <3>1. SameJobs /\ exec'[j].st = st /\ \A k \in Jobs : k # j => exec'[k] = exec[k]
      BY <2>2, <2>3, JobTurns
    <3> QED BY <1>0, <2>2, <2>3, <3>1, TurnsSess
  <2>4. CASE Ec2(x) /\ exec' = [exec EXCEPT ![j].armed = "none"]
    <3>1. OnlyDisarms /\ SameJobs /\ \A k \in Jobs : exec'[k].st = exec[k].st
      BY <2>1, <2>4, CallDone DEF OnlyDisarms
    <3>2. CASE x.armed \in {"stop", "terminate"}
      BY <1>0, <2>4, <3>1, <3>2, EndWinds, WindSess
    <3>3. CASE x.armed \notin {"stop", "terminate"}
      <4>1. JobInv(j) /\ x.op \in BootOps \cup EndOps
        BY <2>2, RunningIs
      <4>2. x.op \in BootOps
        BY <2>1, <3>3, <4>1 DEF JobInv, EndInv, BootOps, EndOps
      <4>3. x.armed = "run" => inst[x.epoch].st = "none"
        BY <4>1, <4>2 DEF JobInv, StartInv, LaunchInv, BootOps
      <4>4. GoneStays
        <5>1. \/ x.armed = "boot" /\ inst' = [inst EXCEPT ![x.src] =
                            IF @.st = "stopped"
                            THEN [st |-> "running", boot |-> x.epoch] ELSE @]
              \/ /\ x.armed = "run"
                 /\ inst' = [inst EXCEPT ![x.epoch] = [st |-> "running", boot |-> x.epoch]]
              \/ inst' = inst
          BY <2>4, <3>3 DEF Ec2
        <5>2. DOMAIN inst = Epochs
          BY DEF Inv2, Inv1, TypeOK
        <5> QED BY <4>3, <5>1, <5>2 DEF GoneStays
      <4>5. exec'[j].st # "succeeded"
        BY <2>2, <3>1
      <4> QED BY <1>0, <2>1, <3>1, <4>2, <4>4, <4>5, BootCallSess
    <3> QED BY <3>2, <3>3
  <2> QED BY <1>4, <2>3, <2>4 DEF ExecMutate
<1> QED BY <1>1, <1>2, <1>3, <1>4 DEF Workflow

\* A start reaches Step Functions, in time or late.
LEMMA StartSess ==
    ASSUME Inv2, SessInv, LateStartExecution \/ \E p \in Procs : StartExecution(p)
    PROVE  SessInv'
<1>1. ASSUME NEW j \in Jobs, exec[j].st = "absent", exec' = [exec EXCEPT ![j].st = "running"],
             UNCHANGED <<row, usage, tunnel, proc, inst, vol>>
      PROVE  SessInv'
  <2>1. SameJobs /\ exec'[j].st = "running" /\ \A k \in Jobs : k # j => exec'[k] = exec[k]
    BY <1>1, JobTurns
  <2> QED BY <1>1, <2>1, TurnsSess
<1>2. CASE LateStartExecution
  <2>1. row.job \in Jobs
    BY <1>2, SnapIs DEF LateStartExecution, Inv2, Inv1, TypeOK
  <2> QED BY <1>1, <1>2, <2>1 DEF LateStartExecution, world
<1>3. ASSUME NEW p \in Procs, StartExecution(p)
      PROVE  SessInv'
  <2>1. proc[p].snap.job \in Jobs
    BY <1>3, AtStartIs, SnapIs DEF StartExecution, Inv2
  <2> QED BY <1>1, <1>3, <2>1 DEF StartExecution, world
<1> QED BY <1>2, <1>3

\* What hosts, EC2 and time do by themselves.
LEMMA WorldStepSess ==
    ASSUME Inv2, SessInv, Age \/ Expire \/ \E i \in Epochs : GuestShutdown(i) \/ InstanceLost(i)
    PROVE  SessInv'
<1>1. UNCHANGED <<row, usage, tunnel, proc, exec>>
  BY DEF Age, Expire, GuestShutdown, InstanceLost, rowVars, world
<1>2. OnlyDisarms
  BY <1>1 DEF OnlyDisarms, SameJobs
<1>3. CASE Age \/ Expire
  <2>1. Winds
    BY <1>3 DEF Age, Expire, world, Winds
  <2> QED BY <1>1, <1>2, <2>1, WindSess
<1>4. ASSUME NEW i \in Epochs, GuestShutdown(i) \/ InstanceLost(i)
      PROVE  SessInv'
  <2>1. Winds
    BY <1>4, HostWinds
  <2> QED BY <1>1, <1>2, <2>1, WindSess
<1> QED BY <1>3, <1>4

-----------------------------------------------------------------------------
(* One swap of one invocation.                                             *)

\* The invocation goes on without an enrollment, a host to retire or a retire
\* to take back.
Idles(pc, kind) ==
    /\ pc \in Pc \ {"consume", "tunnel", "finish", "recover"} /\ kind \in Kind
    /\ pc = "start" => kind \in {"boot", "settle"}
\* The pcs of an invocation that ends, reads again, or goes on with its row.
Idling == {"idle", "reread", "again", "softdelete", "receipt", "act", "undo", "purge"}

\* What such an invocation has read is nothing to the session.
LEMMA IdleResumes ==
    ASSUME Inv2, NEW p \in Procs, NEW pc, NEW s \in Row, NEW kind, Idles(pc, kind),
           Goto(p, pc, s, kind)
    PROVE  /\ Resumes(proc'[p]) /\ ~UpUndo(proc'[p]) /\ ~RestUndo(proc'[p])
           /\ \A q \in Procs : q # p => proc'[q] = proc[q]
<1>1. /\ \A q \in Procs : q # p => proc'[q] = proc[q]
      /\ proc'[p].pc = pc /\ (pc \notin Resets => proc'[p].kind = kind)
  BY GotoIs DEF Inv2, Inv1, TypeOK, Idles
<1> QED BY <1>1 DEF Idles, Resumes, ReadSess, UpUndo, RestUndo, Resets

\* Jobs that stay hold no new end.
LEMMA SameEnds == ASSUME exec' = exec PROVE NewEnds
BY DEF NewEnds

\* An invocation that swaps nothing.
LEMMA MoveSess ==
    ASSUME Inv2, SessInv, UNCHANGED <<row, exec, usage, inst, vol, tunnel>>, NEW p,
           \A q \in Procs : q # p => proc'[q] = proc[q],
           p \in Procs => Resumes(proc'[p]) /\ ~UpUndo(proc'[p]) /\ ~RestUndo(proc'[p])
    PROVE  SessInv'
<1>1. Leaves(p) /\ NewEnds
  BY SameEnds DEF Leaves
<1>2. \A q \in Procs : Returns(proc[q])' => Returns(proc[q])
  <2> TAKE q \in Procs
  <2>1. CASE q = p
    BY <2>1 DEF Returns
  <2>2. CASE q # p
    BY <2>2, ReturnsStay
  <2> QED BY <2>1, <2>2
<1>3. MayRun' => MayRun
  BY <1>2 DEF MayRun
<1>4. (Ready' <=> Ready) /\ (Owns' <=> Owns)
  BY DEF Ready, Reach, Owns, Held
<1>5. RowSess'
  <2>1. RowSess
    BY DEF SessInv
  <2>2. Up' => Up
    BY <1>3 DEF Up, Runs
  <2> QED BY <1>2, <1>3, <1>4, <2>1, <2>2 DEF RowSess
<1>6. OneReturns'
  BY <1>2 DEF SessInv, OneReturns
<1>7. Runs' => Runs
  BY <1>3 DEF Runs
<1> QED BY <1>1, <1>5, <1>6, <1>7, SessKept

\* An invocation that swaps nothing and idles on.
LEMMA IdleMove ==
    ASSUME Inv2, SessInv, UNCHANGED <<row, exec, usage, inst, vol, tunnel>>,
           NEW p \in Procs, NEW pc, NEW s \in Row, NEW kind, Idles(pc, kind), Goto(p, pc, s, kind)
    PROVE  SessInv'
BY IdleResumes, MoveSess

\* One swap of the row's lease, of an invocation that idles on.
LEMMA SwapSess ==
    ASSUME Inv2, SessInv, NEW p \in Procs, NEW wins, NEW r, NEW effect,
           casInTx(wins, r, effect), UNCHANGED <<inst, vol, tunnel>>,
           wins => r.epoch = row.epoch /\ (Cooled \/ Boosted \/ Turned(p)),
           NEW pc, NEW s \in Row, NEW kind, Idles(pc, kind), Goto(p, pc, s, kind)
    PROVE  SessInv'
<1>1. /\ Resumes(proc'[p]) /\ ~UpUndo(proc'[p]) /\ ~RestUndo(proc'[p])
      /\ \A q \in Procs : q # p => proc'[q] = proc[q]
  BY IdleResumes
<1>2. exec' = exec
  BY DEF casInTx
<1>3. CASE wins
  <2>1. row' = r
    BY <1>3 DEF casInTx, Write
  <2>2. Leaves(p) /\ NewEnds
    BY <1>1, <1>2, <1>3, <2>1, SameEnds DEF Leaves
  <2> QED BY <1>1, <1>3, <2>2, CoolSess, BoostSess, TurnSess
<1>4. CASE ~wins
  <2>1. UNCHANGED <<row, usage>>
    BY <1>4 DEF casInTx
  <2> QED BY <1>1, <1>2, <2>1, MoveSess
<1> QED BY <1>3, <1>4

\* One compare-and-swap whose winner and loser idle on.
LEMMA StepSess ==
    ASSUME Inv2, Inv1', SessInv, NEW p \in Procs, NEW wins, NEW r, NEW effect,
           NEW pc \in Idling, NEW lose \in Idling,
           step(p, wins, r, effect, pc, lose), UNCHANGED <<inst, vol, tunnel>>,
           wins => r.epoch = row.epoch /\ (Cooled \/ Boosted \/ Turned(p))
    PROVE  SessInv'
<1> DEFINE to == IF wins THEN pc ELSE lose
           s == IF wins THEN r ELSE proc[p].snap
<1>1. casInTx(wins, r, effect) /\ Goto(p, to, s, proc[p].kind)
  BY DEF step
<1>2. proc[p].snap \in Row /\ proc[p].kind \in Kind
  BY ProcIs DEF Inv2
<1>3. s \in Row /\ Idles(to, proc[p].kind)
  <2>1. wins => row' = r /\ row' \in Row
    BY <1>1 DEF casInTx, Write, Inv1, TypeOK
  <2> QED BY <1>2, <2>1 DEF Idles, Idling, Pc
<1> HIDE DEF to, s
<1> QED BY <1>1, <1>3, SwapSess

\* Which rows may not be shown RUNNING again.
LEMMA RowFacts ==
    ASSUME SessInv
    PROVE  /\ row.state \notin Undoable \cup Ended => ~MayRun
           /\ row.err \in NoReturn => ~MayRun
           /\ row.err = "unknown:RUNNING" => row.state = "RETIRING"
           /\ row.state \in Boots => ~MayRun
BY DEF SessInv, RowSess, Boots, Booting, Undoable, Ended

\* A row that may not, and one that keeps what it owns while it may.
LEMMA Cools ==
    ASSUME row'.state \notin Boots \cup {"RUNNING"}, row'.err # "unknown:RUNNING",
           \/ ~MayRun
           \/ row'.state \in Ended /\ row'.err \notin NoReturn
           \/ /\ row'.state \in Undoable /\ row'.err \notin NoReturn
              /\ row.state \in Undoable /\ Keeps
    PROVE  Cooled
BY DEF Cooled, Undoable, Ended

-----------------------------------------------------------------------------
(* The receipts.                                                           *)

\* The boot of a row that awaits its host is done.
LEMMA MountLaunched ==
    ASSUME Inv2, row.state = "MOUNTING"
    PROVE  Launched
<1>1. \A j \in Jobs : BootOf(j) => exec[j].st = "succeeded"
  BY BootIs DEF BootInv, BootOf
<1> QED BY <1>1 DEF Launched, Boots

\* A boot whose job is settled: RUNNING once enrolled, failed past its deadline.
LEMMA MountedSess ==
    ASSUME Inv2, Inv1', SessInv, NEW p \in Procs, ReceiptMounted(p)
    PROVE  SessInv'
<1> DEFINE s == proc[p].snap
<1>1. /\ row \in Row /\ s \in Row /\ proc[p].kind \in Kind /\ UNCHANGED <<inst, vol, tunnel>>
      /\ s.state = "MOUNTING"
  BY RowsAre DEF ReceiptMounted, world, Settled
<1>2. CASE enrolled(s) /\ step(p, CasReconciler(s), [row EXCEPT !.state = "RUNNING"], "none", "reread", "reread")
  <2> PICK r : r = [row EXCEPT !.state = "RUNNING"]
    OBVIOUS
  <2>1. step(p, CasReconciler(s), r, "none", "reread", "reread")
    BY <1>2
  <2>2. /\ r.state = "RUNNING" /\ r.epoch = row.epoch /\ r.inst = row.inst
        /\ r.fence = row.fence /\ r.err = row.err
    BY <1>1 DEF Row
  <2>3. ASSUME CasReconciler(s)
        PROVE  Boosted
    <3>1. row.state = "MOUNTING" /\ row.err = "enroll_succeeded"
      BY <1>1, <1>2, <2>3 DEF CasReconciler, CasUser, enrolled
    <3>2. row' = r /\ usage' = usage
      BY <2>1, <2>2, <2>3 DEF step, casInTx, Write, applyTransitionUsageInTx, UsageClosing
    <3>3. Owns' /\ Ready
      <4>1. Owns /\ Ready
        BY <3>1 DEF SessInv, RowSess, Boots
      <4> QED BY <1>1, <2>2, <3>2, <4>1, OwnsStay DEF Keeps
    <3> QED BY <2>2, <3>1, <3>2, <3>3, MountLaunched DEF Boosted, Boots
  <2>4. "reread" \in Idling
    BY DEF Idling
  <2> QED BY <1>1, <2>1, <2>2, <2>3, <2>4, StepSess
<1>3. CASE /\ casInTx(CasExact(s),
                     [row EXCEPT !.state = "UNCONFIRMED", !.nonce = "none",
                                 !.err = "enroll_tunnel_failed"], "none")
           /\ Goto(p, IF CasExact(s) THEN "recover" ELSE "reread", row', "hostretire")
  <2> PICK r : r = [row EXCEPT !.state = "UNCONFIRMED", !.nonce = "none",
                               !.err = "enroll_tunnel_failed"]
    OBVIOUS
  <2>1. /\ casInTx(CasExact(s), r, "none") /\ row' \in Row /\ "hostretire" \in Kind
        /\ r.state = "UNCONFIRMED" /\ r.err = "enroll_tunnel_failed" /\ r.epoch = row.epoch
    BY <1>1, <1>3 DEF Row, Inv1, TypeOK, Kind
  <2>2. CASE ~CasExact(s)
    <3>1. Goto(p, "reread", row', "hostretire") /\ Idles("reread", "hostretire")
      BY <1>3, <2>1, <2>2 DEF Idles, Pc
    <3> QED BY <1>1, <2>1, <2>2, <3>1, SwapSess
  <2>3. CASE CasExact(s)
    <3>1. row.state = "MOUNTING" /\ row' = r /\ exec' = exec
      BY <1>1, <2>1, <2>3 DEF CasExact, casInTx, Write
    <3>2. Cooled
      BY <2>1, <3>1, RowFacts, Cools DEF Boots, Booting
    <3>3. Goto(p, "recover", row', "hostretire")
      BY <1>3, <2>3
    <3>4. /\ proc'[p].pc = "recover" /\ proc'[p].snap = r
          /\ \A q \in Procs : q # p => proc'[q] = proc[q]
      BY <2>1, <3>1, <3>3, GotoIs DEF Inv2, Inv1, TypeOK, Pc, Resets
    <3>5. Resumes(proc'[p]) /\ ~UpUndo(proc'[p]) /\ ~RestUndo(proc'[p])
      BY <2>1, <3>4 DEF Resumes, ReadSess, UpUndo, RestUndo
    <3>6. Leaves(p) /\ NewEnds
      BY <1>1, <2>1, <3>1, <3>4, SameEnds DEF Leaves
    <3> QED BY <3>2, <3>5, <3>6, CoolSess
  <2> QED BY <2>2, <2>3
<1>4. CASE Goto(p, "reread", NoRow, "none") /\ UNCHANGED rowVars
  <2>1. Idles("reread", "none") /\ NoRow \in Row
    BY Bounds DEF Idles, Pc, Kind
  <2> QED BY <1>1, <1>4, <2>1, IdleMove DEF rowVars
<1> QED BY <1>2, <1>3, <1>4 DEF ReceiptMounted

\* A failed job leaves its row UNCONFIRMED.
LEMMA FailedSess ==
    ASSUME Inv2, Inv1', SessInv, NEW p \in Procs, ReceiptFailed(p)
    PROVE  SessInv'
<1> DEFINE s == proc[p].snap
           host == isEnrollmentHostRetire(s)
           r == [row EXCEPT !.state = "UNCONFIRMED", !.nonce = "none",
                            !.err = IF host THEN "enroll_tunnel_failed" ELSE "failed",
                            !.job = IF host THEN 0 ELSE @]
<1>1. row \in Row /\ UNCHANGED <<inst, vol, tunnel>> /\ s.state \in Waiting
  BY RowsAre DEF ReceiptFailed, world, Described
<1>2. CASE Goto(p, "reread", NoRow, "none") /\ UNCHANGED rowVars
  <2>1. Idles("reread", "none") /\ NoRow \in Row
    BY Bounds DEF Idles, Pc, Kind
  <2> QED BY <1>1, <1>2, <2>1, IdleMove DEF rowVars
<1>3. CASE s.state # "UNCONFIRMED" /\ step(p, CasReconciler(s), r, "none", "reread", "reread")
  <2>1. /\ r.state = "UNCONFIRMED" /\ r.epoch = row.epoch /\ r.inst = row.inst
        /\ r.fence = row.fence
        /\ r.err = (IF host THEN "enroll_tunnel_failed" ELSE "failed")
    BY <1>1 DEF Row
  <2> HIDE DEF r
  <2>2. ASSUME CasReconciler(s)
        PROVE  Cooled
    <3>1. row.state = s.state /\ row.err = s.err
      BY <2>2 DEF CasReconciler, CasUser
    <3>2. row' = r /\ usage' = usage
      BY <1>3, <2>1, <2>2 DEF step, casInTx, Write, applyTransitionUsageInTx, UsageClosing
    <3>3. row.state \in Undoable \/ ~MayRun
      BY <1>1, <3>1, RowFacts DEF Waiting, IN_FLIGHT_STATES, Undoable, Ended
    <3>4. host => ~MayRun
      BY <3>1, RowFacts DEF isEnrollmentHostRetire, NoReturn, HostRetireErrors
    <3> QED BY <2>1, <3>2, <3>3, <3>4, Cools
            DEF Keeps, Undoable, NoReturn, HostRetireErrors, Boots, Booting
  <2>3. "reread" \in Idling
    BY DEF Idling
  <2> QED BY <1>1, <1>3, <2>1, <2>2, <2>3, StepSess
<1> QED BY <1>2, <1>3 DEF ReceiptFailed

\* A marked start that never ran is taken back: to RUNNING only if it was the
\* retire of a running computer, which nobody else takes back.
LEMMA SettledTurns ==
    ASSUME Inv2, SessInv, NEW p \in Procs, NEW s, s = proc[p].snap, CasReconciler(s),
           s.err \in StartUnknown, s.state \in Waiting,
           row' = settledUndo(s), usage' = applyTransitionUsageInTx(settledUndo(s), "none")
    PROVE  Cooled \/ Turned(p)
<1> DEFINE undo == lifecycleStartUnknownUndo(s)
           host == isEnrollmentHostRetire(s)
<1>1. /\ row \in Row /\ row.state = s.state /\ row.err = s.err /\ s \in Row
      /\ row.state \in Undoable \/ ~MayRun
  BY RowsAre, RowFacts DEF CasReconciler, CasUser, Waiting, IN_FLIGHT_STATES, Undoable, Ended
<1>2. /\ row'.state = undo /\ row'.inst = row.inst /\ row'.fence = row.fence
      /\ row'.err = (IF host THEN "enroll_tunnel_failed" ELSE "lifecycle_start_failed")
      /\ undo \notin UsageClosing => usage' = usage
  BY <1>1 DEF settledUndo, Row, applyTransitionUsageInTx
<1>3. /\ undo \in {"STOPPED", "RUNNING", "UNCONFIRMED"}
      /\ undo = "STOPPED" => s.err = "unknown:STOPPED"
      /\ undo = "RUNNING" => s.err = "unknown:RUNNING"
  <2>1. undo \in {RecordedUndo[s.err], "UNCONFIRMED"}
    BY DEF lifecycleStartUnknownUndo
  <2> QED BY <2>1 DEF RecordedUndo, StartUnknown
<1>4. host => ~MayRun
  BY <1>1, RowFacts DEF isEnrollmentHostRetire, NoReturn, HostRetireErrors
<1> HIDE DEF undo
<1>5. CASE undo = "RUNNING"
  <2>1. row.state = "RETIRING" /\ row.err = "unknown:RUNNING" /\ ~host
    BY <1>1, <1>3, <1>5, RowFacts DEF isEnrollmentHostRetire
  <2>2. Up /\ \A q \in Procs : ~Returns(proc[q])
    BY <2>1 DEF Up, Runs, MayRun, Ended, SessInv, RowSess
  <2> QED BY <1>2, <1>5, <2>1, <2>2 DEF Turned, Keeps, NoReturn, HostRetireErrors, UsageClosing
<1>6. CASE undo = "STOPPED"
  <2>1. ~MayRun
    BY <1>1, <1>3, <1>6, RowFacts DEF NoReturn
  <2> QED BY <1>2, <1>6, <2>1, Cools DEF Boots, Booting
<1>7. CASE undo = "UNCONFIRMED"
  BY <1>1, <1>2, <1>4, <1>7, Cools
     DEF Keeps, Undoable, NoReturn, HostRetireErrors, Boots, Booting, UsageClosing
<1> QED BY <1>3, <1>5, <1>6, <1>7

\* A marked start is settled.
LEMMA SettleSess ==
    ASSUME Inv2, Inv1', SessInv, NEW p \in Procs, settleUnknownStart(p)
    PROVE  SessInv'
<1> DEFINE s == proc[p].snap
<1>1. /\ row \in Row /\ s \in Row /\ proc[p].kind \in Kind /\ UNCHANGED <<inst, vol, tunnel>>
      /\ s.err \in StartUnknown /\ s.state \in Waiting
  BY RowsAre DEF settleUnknownStart, world, Described
<1>2. CASE Goto(p, "start", s, "settle") /\ UNCHANGED rowVars
  <2>1. Idles("start", "settle")
    BY DEF Idles, Pc, Kind
  <2> QED BY <1>1, <1>2, <2>1, IdleMove DEF rowVars
<1>3. CASE step(p, CasReconciler(s), settledUndo(s), "none", "reread", "reread")
  <2> PICK r : r = settledUndo(s)
    OBVIOUS
  <2>1. step(p, CasReconciler(s), r, "none", "reread", "reread") /\ r.epoch = row.epoch
    BY <1>1, <1>3 DEF settledUndo, Row
  <2>2. ASSUME CasReconciler(s)
        PROVE  Cooled \/ Turned(p)
    <3>1. row' = r /\ usage' = applyTransitionUsageInTx(r, "none")
      BY <2>1, <2>2 DEF step, casInTx, Write
    <3> QED BY <1>1, <2>2, <3>1, SettledTurns
  <2>3. "reread" \in Idling
    BY DEF Idling
  <2> QED BY <1>1, <2>1, <2>2, <2>3, StepSess
<1> QED BY <1>2, <1>3 DEF settleUnknownStart

\* A computer with a boot that is not done does not run.
LEMMA BootingHalts ==
    ASSUME SessInv, NEW j \in Jobs, BootOf(j), exec[j].st # "succeeded"
    PROVE  ~Runs
BY DEF SessInv, JobSess, BootOf

\* A replacement's generation is given back: it has not run.
LEMMA GenerationSess ==
    ASSUME Inv2, Inv1', SessInv, NEW p \in Procs, reconcileReplacementGeneration(p)
    PROVE  SessInv'
<1> DEFINE s == proc[p].snap
           x == exec[s.job]
           sourcePair == vol.fence = x.prevFence
           r == [row EXCEPT
                  !.state = "STOPPED", !.job = 0, !.nonce = "none",
                  !.gen = IF sourcePair THEN x.prevGen ELSE x.gen,
                  !.fence = IF sourcePair THEN x.prevFence ELSE x.fence,
                  !.inst = IF sourcePair THEN x.src ELSE x.epoch,
                  !.err = IF sourcePair /\ proc[p].kind = "kept"
                          THEN "lifecycle_start_failed" ELSE "instance_lost"]
           pc == IF proc[p].undo = "NONE" THEN "reread" ELSE "idle"
           lose == IF proc[p].undo = "NONE" THEN "reread" ELSE "undo"
<1>1. /\ proc[p].pc = "gencas" /\ step(p, CasExact(s), r, "close", pc, lose)
      /\ UNCHANGED <<inst, vol, tunnel>> /\ row \in Row /\ s \in Row
  BY RowsAre DEF reconcileReplacementGeneration, world
<1>2. /\ r.state = "STOPPED" /\ r.epoch = row.epoch
      /\ r.err \in {"lifecycle_start_failed", "instance_lost"}
  BY <1>1 DEF Row
<1>3. pc \in Idling /\ lose \in Idling
  BY DEF Idling
<1> HIDE DEF pc, lose, r
<1>4. /\ s.job \in Jobs /\ x.op = "replace" /\ x.epoch = s.epoch /\ x.st # "succeeded"
  <2>1. SnapOK(proc[p].pc, s, proc[p].kind, proc[p].undo, exec) /\ ProcInv(proc[p])
    BY DEF Inv2, Inv1, ProcsOK, ProcsInv
  <2>2. s.job # 0 /\ x.op = "replace" /\ x.epoch = s.epoch
    BY <1>1, <2>1 DEF SnapOK
  <2>3. x.st # "succeeded"
    BY <1>1, <2>1 DEF ProcInv, GenerationInv, StarterInv, Starter
  <2> QED BY <1>1, <2>2, <2>3, SnapIs DEF Inv2
<1>5. ASSUME CasExact(s)
      PROVE  Cooled
  <2>1. BootOf(s.job) /\ x.st # "succeeded"
    BY <1>4, <1>5 DEF CasExact, BootOf, BootOps
  <2>2. ~MayRun
    BY <1>4, <2>1, BootingHalts DEF Runs
  <2>3. row' = r
    BY <1>1, <1>5 DEF step, casInTx, Write
  <2> QED BY <1>2, <2>2, <2>3, Cools DEF Boots, Booting
<1> QED BY <1>1, <1>2, <1>3, <1>5, StepSess

\* A finished stop or retire: to its fence, and at rest after it.
LEMMA EndsSess ==
    ASSUME Inv2, Inv1', SessInv, NEW p \in Procs, ReceiptDraining(p) \/ ReceiptFinal(p)
    PROVE  SessInv'
<1> DEFINE s == proc[p].snap
<1>1. row \in Row /\ s \in Row /\ UNCHANGED <<inst, vol, tunnel>>
  BY RowsAre DEF ReceiptDraining, ReceiptFinal, world
<1>2. "reread" \in Idling /\ "receipt" \in Idling
  BY DEF Idling
<1>3. CASE ReceiptDraining(p)
  <2> PICK r : r = [row EXCEPT !.state = "STOPPING"]
    OBVIOUS
  <2>1. /\ s.state = "DRAINING" /\ step(p, CasReconciler(s), r, "none", "receipt", "reread")
        /\ r.state = "STOPPING" /\ r.epoch = row.epoch /\ r.err = row.err
    BY <1>1, <1>3 DEF ReceiptDraining, Row
  <2>2. ASSUME CasReconciler(s)
        PROVE  Cooled
    <3>1. row.state = "DRAINING" /\ row' = r
      BY <2>1, <2>2 DEF CasReconciler, CasUser, step, casInTx, Write
    <3> QED BY <2>1, <3>1, RowFacts, Cools DEF Undoable, Ended, Boots, Booting
  <2> QED BY <1>1, <1>2, <2>1, <2>2, StepSess
<1>4. CASE ReceiptFinal(p)
  <2> DEFINE host == isEnrollmentHostRetire(s)
  <2> PICK r : r = FinalRow(s)
    OBVIOUS
  <2>1. /\ proc[p].pc = "final" /\ step(p, CasReconciler(s), r, "close", "reread", "reread")
        /\ r.state = (IF s.state = "RETIRING" /\ ~host THEN "RETIRED" ELSE "STOPPED")
        /\ r.epoch = row.epoch /\ r.err \in {"instance_lost", "none"}
    BY <1>1, <1>4 DEF ReceiptFinal, FinalRow, Row
  <2>2. s.state \in {"STOPPING", "RETIRING"}
    BY <2>1, ProcIs DEF Inv2, SnapOK
  <2>3. ASSUME CasReconciler(s)
        PROVE  Cooled
    <3>1. row.state = s.state /\ row.err = s.err /\ row' = r
      BY <2>1, <2>3 DEF CasReconciler, CasUser, step, casInTx, Write
    <3>2. r.state = "RETIRED" \/ ~MayRun
      BY <2>1, <2>2, <3>1, RowFacts
         DEF isEnrollmentHostRetire, NoReturn, HostRetireErrors, Undoable, Ended
    <3> QED BY <2>1, <3>1, <3>2, Cools DEF Ended, Boots, Booting, NoReturn, HostRetireErrors
  <2> QED BY <1>1, <1>2, <2>1, <2>3, StepSess
<1> QED BY <1>3, <1>4

\* A boot that is done attached the volume to the instance its receipt names.
LEMMA BootedOwns ==
    ASSUME Inv2, SessInv, NEW p \in Procs, NEW s, s = proc[p].snap, CasUser(s),
           s.state \in Booting, exec[s.job].st = "succeeded", UNCHANGED <<inst, vol>>,
           row'.inst = ResultInstance(exec[s.job]), row'.fence = row.fence, usage' = {row'.inst}
    PROVE  Owns' /\ Launched /\ (row.inst # 0 => row'.inst = row.inst)
<1> PICK j : j = s.job
  OBVIOUS
<1>1. /\ j \in Jobs /\ BootOf(j) /\ row.job = j /\ row.state = s.state
      /\ JobFits(row, exec) /\ j # 0
  <2>1. s.state # "NONE"
    BY DEF Booting
  <2>2. /\ s.job = row.job /\ s.job \in Jobs /\ BootOf(s.job) /\ row.state = s.state
        /\ JobFits(row, exec)
    BY <2>1, Found
  <2> QED BY <2>2 DEF JobFits
<1> PICK x : x = exec[j]
  OBVIOUS
<1>2. /\ x.fence = row.fence /\ row.inst \in {0, ResultInstance(x)}
  BY <1>1 DEF JobFits, BootOf, BootOps
<1>3. Held(ResultInstance(x), x.fence)
  BY <1>1 DEF SessInv, JobSess
<1>4. ResultInstance(x) # 0
  <2>1. x.epoch \in Epochs /\ (x.op # "provision" => x.src \in Epochs)
    BY <1>1, ExecIs DEF BootOf, BootOps, Inv2
  <2> QED BY <2>1, Bounds DEF ResultInstance, Epochs
<1>5. Owns'
  BY <1>2, <1>3, <1>4 DEF Owns, Held
<1>6. Launched
  BY <1>1, BootIs DEF Launched, Boots
<1> QED BY <1>2, <1>5, <1>6

\* A finished boot: on to its host, and RUNNING once that has its tunnel.
LEMMA BootedSess ==
    ASSUME Inv2, Inv1', SessInv, NEW p \in Procs, ReceiptBooted(p)
    PROVE  SessInv'
<1> DEFINE s == proc[p].snap
           done == [row EXCEPT !.job = 0, !.vol = TRUE, !.inst = ResultInstance(exec[s.job])]
<1>1. /\ row \in Row /\ s \in Row /\ UNCHANGED <<inst, vol, tunnel>>
      /\ exec[s.job].st = "succeeded"
  BY RowsAre DEF ReceiptBooted, world, Described
<1>2. "reread" \in Idling /\ "receipt" \in Idling
  BY DEF Idling
<1>3. ASSUME CasReconciler(s)
      PROVE  /\ CasUser(s) /\ row.state = s.state /\ row.err = s.err
             /\ row.state \in Boots => row.err # "unknown:RUNNING"
  BY <1>3, RowFacts DEF CasReconciler, CasUser, Boots, Booting
<1>4. ASSUME NEW r, NEW state \in {"RUNNING", "MOUNTING"}, NEW pc \in Idling,
             r = [done EXCEPT !.state = state],
             step(p, CasReconciler(s), r, "open", pc, "reread"),
             s.state \in {"PROVISIONING", "STARTING"},
             state = "RUNNING" => s.err = "enroll_succeeded"
      PROVE  SessInv'
  <2>1. /\ r.state = state /\ r.epoch = row.epoch /\ r.fence = row.fence /\ r.err = row.err
        /\ r.inst = ResultInstance(exec[s.job])
    BY <1>1, <1>4 DEF Row
  <2>2. ASSUME CasReconciler(s)
        PROVE  Boosted
    <3>1. row' = r /\ usage' = {r.inst}
      BY <1>4, <2>1, <2>2 DEF step, casInTx, Write, applyTransitionUsageInTx, UsageClosing
    <3>2. Owns' /\ Launched /\ (row.inst # 0 => row'.inst = row.inst)
      BY <1>1, <1>3, <1>4, <2>1, <2>2, <3>1, BootedOwns DEF Booting
    <3>3. row.state \in Boots
      BY <1>3, <1>4, <2>2 DEF Boots, Booting
    <3>4. row.err = "enroll_succeeded" => Ready
      BY <3>3 DEF SessInv, RowSess
    <3>5. row'.inst # 0
      BY <3>2 DEF Owns
    <3> QED BY <1>3, <1>4, <2>1, <2>2, <3>1, <3>2, <3>3, <3>4, <3>5 DEF Boosted, Boots
  <2> QED BY <1>1, <1>2, <1>4, <2>1, <2>2, StepSess
<1>5. CASE s.state = "PROVISIONING" /\ enrolled(s)
           /\ step(p, CasReconciler(s), [done EXCEPT !.state = "RUNNING"], "open", "reread", "reread")
  BY <1>2, <1>4, <1>5 DEF enrolled
<1>6. CASE s.state = "LEASED"
           /\ step(p, CasReconciler(s), [row EXCEPT !.state = "STARTING"], "none", "receipt", "reread")
  <2> PICK r : r = [row EXCEPT !.state = "STARTING"]
    OBVIOUS
  <2>1. /\ step(p, CasReconciler(s), r, "none", "receipt", "reread")
        /\ r.state = "STARTING" /\ r.epoch = row.epoch /\ r.inst = row.inst /\ r.err = row.err
    BY <1>1, <1>6 DEF Row
  <2>2. ASSUME CasReconciler(s)
        PROVE  Boosted
    <3>1. row' = r /\ row.state = "LEASED" /\ row.err # "unknown:RUNNING"
      BY <1>3, <1>6, <2>1, <2>2 DEF step, casInTx, Write, Boots, Booting
    <3> QED BY <2>1, <3>1 DEF Boosted, Boots, Booting, SessInv, RowSess
  <2> QED BY <1>1, <1>2, <2>1, <2>2, StepSess
<1>7. CASE s.state = "STARTING"
           /\ step(p, CasReconciler(s), [done EXCEPT !.state = "MOUNTING"], "open",
                   IF enrolled(s) THEN "receipt" ELSE "reread", "reread")
  BY <1>2, <1>4, <1>7
<1> QED BY <1>5, <1>6, <1>7 DEF ReceiptBooted

-----------------------------------------------------------------------------
(* The starts.                                                             *)

\* A started job: its row goes on to STARTING or STOPPING.
LEMMA StartedSess ==
    ASSUME Inv2, SessInv, NEW p \in Procs, Started(p)
    PROVE  SessInv'
<1> DEFINE s == proc[p].snap
           kind == proc[p].kind
           wins == IF kind \in {"boot", "ustop"} THEN CasUser(s) ELSE CasReconciler(s)
<1>1. /\ UNCHANGED <<inst, vol, tunnel>> /\ StartOK(s, kind, proc[p].undo)
      /\ row \in Row /\ s \in Row
      /\ AfterStart(p) \in Resets /\ Goto(p, AfterStart(p), s, "none") /\ "none" \in Kind
  BY AtStartIs DEF Started, world, Inv2, Kind
<1>2. wins => CasUser(s)
  BY DEF CasReconciler
<1>3. Idles(AfterStart(p), "none")
  BY <1>1 DEF Idles, Resets, Pc
<1> HIDE DEF wins
<1>4. CASE UNCHANGED rowVars
  BY <1>1, <1>3, <1>4, IdleMove DEF rowVars
<1>5. CASE s.state = "LEASED" /\ casInTx(wins, [row EXCEPT !.state = "STARTING"], "none")
  <2> PICK r : r = [row EXCEPT !.state = "STARTING"]
    OBVIOUS
  <2>1. /\ casInTx(wins, r, "none") /\ r.state = "STARTING" /\ r.epoch = row.epoch
        /\ r.inst = row.inst /\ r.err = row.err
    BY <1>1, <1>5 DEF Row
  <2>2. ASSUME wins
        PROVE  Boosted
    <3>1. row' = r /\ row.state = "LEASED"
      BY <1>2, <1>5, <2>1, <2>2 DEF casInTx, Write, CasUser
    <3>2. row.err # "unknown:RUNNING"
      BY <3>1, RowFacts
    <3> QED BY <2>1, <3>1, <3>2 DEF Boosted, Boots, Booting, SessInv, RowSess
  <2> QED BY <1>1, <1>3, <2>1, <2>2, SwapSess
<1>6. CASE kind \in Stops /\ casInTx(wins, [row EXCEPT !.state = "STOPPING"], "none")
  <2> PICK r : r = [row EXCEPT !.state = "STOPPING"]
    OBVIOUS
  <2>1. /\ casInTx(wins, r, "none") /\ r.state = "STOPPING" /\ r.epoch = row.epoch
        /\ r.err = row.err /\ s.state = "DRAINING"
    BY <1>1, <1>6 DEF Row, StartOK, Stops, Retires
  <2>2. ASSUME wins
        PROVE  Cooled
    <3>1. row' = r /\ row.state = "DRAINING"
      BY <1>2, <2>1, <2>2 DEF casInTx, Write, CasUser
    <3> QED BY <2>1, <3>1, RowFacts, Cools DEF Undoable, Ended, Boots, Booting
  <2> QED BY <1>1, <1>3, <2>1, <2>2, SwapSess
<1> QED BY <1>4, <1>5, <1>6 DEF Started, Stops, wins

\* Who takes the retire of a running computer back is the only one to.
LEMMA ReturnsTurn ==
    ASSUME SessInv, NEW p \in Procs, Returns(proc[p]), row.state = "RETIRING", Keeps,
           row'.state \in {"RUNNING", "RETIRING"}, row'.err \notin NoReturn,
           row'.err = "unknown:RUNNING" => row'.state = "RETIRING"
    PROVE  Turned(p)
<1>1. Up
  BY DEF Up, Runs, MayRun, Ended
<1>2. \A q \in Procs : q # p => ~Returns(proc[q])
  BY DEF SessInv, OneReturns
<1> QED BY <1>1, <1>2 DEF Turned

\* The start of a retire that was read of the row, and what it may take back.
LEMMA RetireIs ==
    ASSUME Inv2, SessInv, NEW p \in Procs, AtStart(p), NEW s, s = proc[p].snap, CasUser(s),
           proc[p].kind \in {"uretire", "rretire"}
    PROVE  /\ row.state = "RETIRING" /\ s.err = "none" /\ proc[p].undo \in {"RUNNING", "STOPPED"}
           /\ proc[p].undo = "RUNNING" => Returns(proc[p]) /\ row.err # "unknown:RUNNING"
           /\ proc[p].undo = "STOPPED" => ~MayRun
<1>1. s.state = "RETIRING" /\ proc[p].undo \in {"RUNNING", "STOPPED"}
  BY AtStartIs DEF Inv2, StartOK, Stops, Retires
<1>2. row.state = "RETIRING" /\ Same(s)
  BY <1>1 DEF CasUser, Same
<1>3. s.err = "none"
  BY DEF SessInv, ReadSess, AtStart
<1>4. ASSUME proc[p].undo = "RUNNING"
      PROVE  Returns(proc[p]) /\ row.err # "unknown:RUNNING"
  <2>1. Returns(proc[p])
    BY <1>2, <1>4 DEF Returns, UpUndo, AtStart
  <2> QED BY <2>1 DEF SessInv, RowSess
<1>5. proc[p].undo = "STOPPED" => ~MayRun
  BY <1>2 DEF SessInv, ProcSess, RestUndo, AtStart, Runs
<1> QED BY <1>1, <1>2, <1>3, <1>4, <1>5

\* No answer: the row is marked, as one that may run again only if it may.
LEMMA MarkSess ==
    ASSUME Inv2, SessInv, NEW p \in Procs, markLifecycleStartUnknown(p)
    PROVE  SessInv'
<1> DEFINE s == proc[p].snap
           kind == proc[p].kind
           undo == IF kind = "settle" THEN lifecycleStartUnknownUndo(s) ELSE proc[p].undo
           host == kind \in {"hostretire", "fleetretire"} \/ isEnrollmentHostRetire(s)
           mark == IF host THEN "unknown:UNCONFIRMED:host_retire"
                   ELSE CASE undo = "STOPPED" -> "unknown:STOPPED"
                          [] undo = "RUNNING" -> "unknown:RUNNING"
                          [] OTHER -> "unknown:UNCONFIRMED"
           wins == undo \in PLACEMENT_TRANSITIONS[s.state] /\ CasUser(s) /\ row.err = s.err
           r == [row EXCEPT !.err = mark]
<1>1. /\ UNCHANGED <<inst, vol, tunnel>> /\ AtStart(p) /\ casInTx(wins, r, "none")
      /\ row \in Row /\ s \in Row /\ StartOK(s, kind, proc[p].undo)
      /\ AfterStart(p) \in Resets /\ Goto(p, AfterStart(p), s, "none") /\ "none" \in Kind
  BY AtStartIs DEF markLifecycleStartUnknown, world, Inv2, Kind
<1>2. /\ r.state = row.state /\ r.epoch = row.epoch /\ r.inst = row.inst
      /\ r.fence = row.fence /\ r.err = mark
  BY <1>1 DEF Row
<1>3. /\ mark \in StartUnknown
      /\ host <=> mark = "unknown:UNCONFIRMED:host_retire"
      /\ mark = "unknown:RUNNING" => undo = "RUNNING"
      /\ mark = "unknown:STOPPED" => undo = "STOPPED"
      /\ ~host /\ undo = "RUNNING" => mark = "unknown:RUNNING"
  BY DEF StartUnknown, RecordedUndo
<1>4. ASSUME wins
      PROVE  /\ CasUser(s) /\ row.state = s.state /\ row.err = s.err
             /\ undo \in PLACEMENT_TRANSITIONS[s.state]
  BY <1>4 DEF CasUser
<1>5. Idles(AfterStart(p), "none")
  BY <1>1 DEF Idles, Resets, Pc
<1> HIDE DEF r, mark
<1>6. ASSUME wins
      PROVE  Cooled \/ Boosted \/ Turned(p)
  <2>1. row' = r /\ (row.state \notin UsageClosing => usage' = usage)
    BY <1>1, <1>2, <1>6 DEF casInTx, Write, applyTransitionUsageInTx
  <2>2. CASE kind = "boot"
    <3>1. s.state \in {"PROVISIONING", "LEASED"} /\ undo \in {"STOPPED", "UNCONFIRMED"} /\ ~host
      BY <1>1, <2>2 DEF StartOK, BootUndo, Stops, Retires, isEnrollmentHostRetire
    <3>2. mark \in {"unknown:STOPPED", "unknown:UNCONFIRMED"}
      BY <1>3, <3>1 DEF StartUnknown, RecordedUndo
    <3> QED BY <1>2, <1>4, <1>6, <2>1, <3>1, <3>2 DEF Boosted, Boots, Booting
  <2>3. CASE s.state \in Stopping
    <3>1. undo # "RUNNING"
      BY <1>4, <1>6, <2>3, TransitionsAre DEF Stopping
    <3>2. ~MayRun /\ row.state \in Stopping
      BY <1>4, <1>6, <2>3, RowFacts DEF Stopping, Undoable, Ended
    <3> QED BY <1>2, <1>3, <2>1, <3>1, <3>2, Cools DEF Boots, Booting, Stopping
  <2>4. CASE s.state = "RETIRING"
    <3>1. Keeps /\ row'.state = "RETIRING" /\ row.state = "RETIRING"
      BY <1>2, <1>4, <1>6, <2>1, <2>4 DEF Keeps, UsageClosing
    <3>2. CASE host
      <4>1. s.err \in HostRetireErrors
        <5>1. kind \in {"hostretire", "fleetretire"} => s.err = "enroll_host_retire"
          BY <1>1 DEF SessInv, ReadSess, AtStart
        <5> QED BY <3>2, <5>1 DEF isEnrollmentHostRetire, HostRetireErrors
      <4>2. ~MayRun
        BY <1>4, <1>6, <4>1, RowFacts DEF NoReturn
      <4> QED BY <1>2, <1>3, <2>1, <3>1, <3>2, <4>2, Cools DEF Boots, Booting
    <3>3. CASE ~host /\ undo = "RUNNING"
      <4>1. mark = "unknown:RUNNING"
        BY <1>3, <3>3
      <4>2. mark \notin NoReturn
        BY <4>1 DEF NoReturn, HostRetireErrors
      <4>3. CASE kind = "settle"
        <5>1. row.err = "unknown:RUNNING"
          <6>1. s.err \in StartUnknown
            BY <1>1, <4>3 DEF StartOK, Stops, Retires
          <6> QED BY <1>4, <1>6, <3>3, <4>3, <6>1
                  DEF lifecycleStartUnknownUndo, RecordedUndo, StartUnknown
        <5>2. Up /\ \A q \in Procs : ~Returns(proc[q])
          BY <3>1, <5>1 DEF Up, Runs, MayRun, Ended, SessInv, RowSess
        <5> QED BY <1>2, <2>1, <3>1, <4>2, <5>2 DEF Turned
      <4>4. CASE kind # "settle"
        <5>1. kind \in {"uretire", "rretire"} /\ proc[p].undo = "RUNNING"
          BY <1>1, <3>3, <4>4, <2>4 DEF StartOK, BootUndo, Stopping
        <5>2. Returns(proc[p])
          BY <1>1, <1>4, <1>6, <5>1, RetireIs
        <5> QED BY <1>2, <2>1, <3>1, <4>2, <5>2, ReturnsTurn
      <4> QED BY <4>3, <4>4
    <3>4. CASE ~host /\ undo = "STOPPED"
      <4>1. CASE kind = "settle"
        <5>1. s.err \in StartUnknown
          BY <1>1, <4>1 DEF StartOK, Stops, Retires
        <5>2. s.err = "unknown:STOPPED"
          BY <3>4, <4>1, <5>1 DEF lifecycleStartUnknownUndo, RecordedUndo, StartUnknown
        <5>3. ~MayRun
          BY <1>4, <1>6, <5>2, RowFacts DEF NoReturn
        <5> QED BY <1>2, <1>3, <2>1, <3>1, <3>4, <5>3, Cools DEF Boots, Booting
      <4>2. CASE kind # "settle"
        <5>1. kind \in {"uretire", "rretire"} /\ proc[p].undo = "STOPPED"
          BY <1>1, <3>4, <4>2, <2>4 DEF StartOK, BootUndo, Stopping
        <5>2. ~MayRun
          BY <1>1, <1>4, <1>6, <5>1, RetireIs
        <5> QED BY <1>2, <1>3, <2>1, <3>1, <3>4, <5>2, Cools DEF Boots, Booting
      <4> QED BY <4>1, <4>2
    <3>5. CASE ~host /\ undo \notin {"RUNNING", "STOPPED"}
      <4>1. mark = "unknown:UNCONFIRMED"
        BY <1>3, <3>5 DEF StartUnknown, RecordedUndo
      <4> QED BY <1>2, <2>1, <3>1, <4>1, Cools
              DEF Boots, Booting, Undoable, NoReturn, HostRetireErrors
    <3> QED BY <3>2, <3>3, <3>4, <3>5
  <2>5. kind = "boot" \/ s.state \in Stopping \cup {"RETIRING"}
    BY <1>1 DEF StartOK, Stopping
  <2> QED BY <2>2, <2>3, <2>4, <2>5
<1> HIDE DEF wins
<1> QED BY <1>1, <1>2, <1>5, <1>6, SwapSess

\* A permanent refusal: the step is taken back.
LEMMA RefusedSess ==
    ASSUME Inv2, Inv1', SessInv, NEW p \in Procs, Refused(p)
    PROVE  SessInv'
<1> DEFINE s == proc[p].snap
           kind == proc[p].kind
           undo == proc[p].undo
           wins == IF kind \in {"ustop", "uretire"} THEN CasUser(s) ELSE CasReconciler(s)
           pc == IF kind \in {"hostretire", "settle"} THEN "reread" ELSE "idle"
           r == UndoRow(s, kind, undo)
<1>1. /\ UNCHANGED <<inst, vol, tunnel>> /\ AtStart(p) /\ row \in Row /\ s \in Row
      /\ StartOK(s, kind, undo)
  BY AtStartIs DEF Refused, world, Inv2
<1>2. CASE kind = "boot"
  <2>1. Goto(p, "refused", s, "boot") /\ UNCHANGED rowVars /\ Idles("refused", "boot")
    BY <1>2 DEF Refused, Idles, Pc, Kind
  <2> QED BY <1>1, <2>1, IdleMove DEF rowVars
<1>3. CASE kind # "boot"
  <2>1. step(p, wins, r, "none", pc, pc) /\ pc \in Idling
    BY <1>3 DEF Refused, Idling
  <2>2. wins => CasUser(s) /\ row.state = s.state
    BY DEF CasReconciler, CasUser
  <2>3. wins => row' = r /\ usage' = applyTransitionUsageInTx(r, "none")
    BY <2>1 DEF step, casInTx, Write
  <2>4. CASE kind = "settle"
    <3>1. wins => CasReconciler(s)
      BY <2>4
    <3>2. s.err \in StartUnknown /\ s.state \in Waiting
      BY <1>1, <2>4 DEF StartOK, Stops, Retires, Waiting, IN_FLIGHT_STATES, Stopping
    <3>3. r = settledUndo(s) /\ settledUndo(s).epoch = row.epoch
      BY <1>1, <2>4 DEF UndoRow, settledUndo, Row
    <3> HIDE DEF r, pc, wins
    <3>4. wins => r.epoch = row.epoch /\ (Cooled \/ Turned(p))
      BY <2>3, <3>1, <3>2, <3>3, SettledTurns
    <3> QED BY <1>1, <2>1, <3>4, StepSess
  <2>5. CASE kind \in Stops
    <3>1. s.state = "DRAINING"
      BY <1>1, <2>5 DEF StartOK, Stops, Retires
    <3>2. r.state = "UNCONFIRMED" /\ r.epoch = row.epoch /\ r.err \in {row.err, "failed"}
      BY <1>1, <2>5 DEF UndoRow, Row, Stops
    <3> HIDE DEF r, pc
    <3>3. wins => Cooled
      BY <2>2, <2>3, <3>1, <3>2, RowFacts, Cools DEF Undoable, Ended, Boots, Booting
    <3> HIDE DEF wins
    <3> QED BY <1>1, <2>1, <3>2, <3>3, StepSess
  <2>6. CASE kind \in {"uretire", "rretire"}
    <3>1. /\ r.state = undo /\ r.epoch = row.epoch /\ r.inst = row.inst /\ r.fence = row.fence
          /\ r.err \in {row.err, "failed"}
      BY <1>1, <2>6 DEF UndoRow, Row
    <3> HIDE DEF r, pc
    <3>2. ASSUME wins
          PROVE  Cooled \/ Turned(p)
      <4>1. /\ row.state = "RETIRING" /\ undo \in {"RUNNING", "STOPPED"}
            /\ undo = "RUNNING" => Returns(proc[p]) /\ row.err # "unknown:RUNNING"
            /\ undo = "STOPPED" => ~MayRun
        BY <1>1, <2>2, <2>6, <3>2, RetireIs
      <4>2. CASE undo = "RUNNING"
        <5>1. Keeps
          BY <2>3, <3>1, <3>2, <4>2 DEF Keeps, applyTransitionUsageInTx, UsageClosing
        <5>2. MayRun /\ row.err \notin NoReturn
          BY <4>1, <4>2, RowFacts DEF MayRun
        <5>3. row' = r /\ Returns(proc[p]) /\ row'.state = "RUNNING" /\ row'.err \notin NoReturn
              /\ row'.err # "unknown:RUNNING"
          BY <2>3, <3>1, <3>2, <4>1, <4>2, <5>2 DEF NoReturn, HostRetireErrors
        <5> QED BY <4>1, <5>1, <5>3, ReturnsTurn
      <4>3. CASE undo = "STOPPED"
        <5>1. row.err # "unknown:RUNNING" /\ ~MayRun
          BY <4>1, <4>3 DEF MayRun
        <5> QED BY <2>3, <3>1, <3>2, <4>3, <5>1, Cools DEF Boots, Booting
      <4> QED BY <4>1, <4>2, <4>3
    <3> HIDE DEF wins
    <3> QED BY <1>1, <2>1, <3>1, <3>2, StepSess
  <2>7. CASE kind \in {"uncretire", "hostretire", "fleetretire"}
    <3>1. /\ s.state = "RETIRING" /\ (kind = "uncretire" => undo = "UNCONFIRMED")
          /\ kind # "uncretire" => s.err = "enroll_host_retire"
      <4>1. kind # "uncretire" => s.err = "enroll_host_retire"
        BY <1>1, <2>7 DEF SessInv, ReadSess, AtStart
      <4> QED BY <1>1, <2>7, <4>1 DEF StartOK, Stops, Retires
    <3>2. /\ r.state = "UNCONFIRMED" /\ r.epoch = row.epoch /\ r.inst = row.inst
          /\ r.fence = row.fence
          /\ r.err = (IF kind = "uncretire" THEN "failed" ELSE "enroll_tunnel_failed")
      BY <1>1, <2>7, <3>1 DEF UndoRow, Row
    <3> HIDE DEF r, pc
    <3>3. wins => row.state = "RETIRING" /\ (kind # "uncretire" => ~MayRun)
      <4>1. wins => row.state = "RETIRING" /\ row.err = s.err
        BY <2>2, <2>7, <3>1 DEF CasReconciler
      <4> HIDE DEF wins
      <4> QED BY <3>1, <4>1, RowFacts DEF NoReturn, HostRetireErrors
    <3> HIDE DEF wins
    <3>4. wins => Cooled
      <4> SUFFICES ASSUME wins PROVE Cooled
        OBVIOUS
      <4>1. Keeps
        BY <2>3, <3>2 DEF Keeps, applyTransitionUsageInTx, UsageClosing
      <4> QED BY <2>3, <3>2, <3>3, <4>1, Cools
              DEF Undoable, NoReturn, HostRetireErrors, Boots, Booting
    <3> QED BY <1>1, <2>1, <3>2, <3>4, StepSess
  <2> QED BY <1>1, <1>3, <2>4, <2>5, <2>6, <2>7 DEF StartOK, Retires
<1> QED BY <1>2, <1>3

\* A refused boot goes back to what it was, or to nothing confirmed.
LEMMA RefusedBootSess ==
    ASSUME Inv2, Inv1', SessInv, NEW p \in Procs, RefusedBoot(p)
    PROVE  SessInv'
<1> DEFINE s == proc[p].snap
           undo == proc[p].undo
<1> PICK r : r = [row EXCEPT !.state = undo, !.nonce = "none"]
  OBVIOUS
<1>1. /\ UNCHANGED <<inst, vol, tunnel>> /\ row \in Row /\ proc[p].pc \in {"undo", "refused"}
      /\ step(p, CasUser(s), r, "none", "idle", "idle")
  BY DEF RefusedBoot, world, Inv2, Inv1, TypeOK
<1>2. s.state \in {"PROVISIONING", "LEASED"} /\ undo \in {"STOPPED", "UNCONFIRMED"}
  BY <1>1, ProcIs DEF SnapOK, BootUndo, Inv2
<1>3. r.state = undo /\ r.epoch = row.epoch /\ r.err = row.err
  BY <1>1 DEF Row
<1>4. ASSUME CasUser(s)
      PROVE  Cooled
  <2>1. row' = r /\ row.state \in Boots
    BY <1>1, <1>2, <1>4 DEF CasUser, step, casInTx, Write, Boots, Booting
  <2> QED BY <1>2, <1>3, <2>1, RowFacts, Cools DEF Boots, Booting
<1>5. "idle" \in Idling
  BY DEF Idling
<1> QED BY <1>1, <1>3, <1>4, <1>5, StepSess

-----------------------------------------------------------------------------
(* What is lost, or owns nothing.                                          *)

\* An instance that is gone, and a computer that owns nothing, come to rest.
LEMMA LostSess ==
    ASSUME Inv2, Inv1', SessInv, NEW p \in Procs,
           recoverLostInstance(p) \/ releaseWithoutResources(p)
    PROVE  SessInv'
<1> DEFINE s == proc[p].snap
           goal == proc[p].goal
           wins == CasUser(s) /\ row.inst = s.inst
<1>1. row \in Row /\ UNCHANGED <<inst, vol, tunnel>>
  BY RowsAre DEF recoverLostInstance, releaseWithoutResources, world
<1>2. CASE recoverLostInstance(p)
  <2> DEFINE pc == IF goal = "fleet" THEN "idle" ELSE "again"
  <2> PICK r : r = [row EXCEPT !.state = "STOPPED", !.job = 0, !.nonce = dropProof(@),
                               !.err = "instance_lost"]
    OBVIOUS
  <2>1. /\ proc[p].pc = "lost" /\ step(p, wins, r, "close", pc, "act")
        /\ r.state = "STOPPED" /\ r.epoch = row.epoch /\ r.err = "instance_lost"
    BY <1>1, <1>2 DEF recoverLostInstance, Row
  <2>2. s.state = "RUNNING"
    BY <2>1, ProcIs DEF SnapOK, Inv2
  <2>3. wins => row.state = "RUNNING" /\ row' = r
    BY <2>1, <2>2 DEF CasUser, step, casInTx, Write
  <2>4. pc \in Idling /\ "act" \in Idling
    BY DEF Idling
  <2> HIDE DEF wins, pc
  <2>5. wins => Cooled
    BY <2>1, <2>3, RowFacts, Cools DEF Undoable, Ended, Boots, Booting
  <2> QED BY <1>1, <2>1, <2>4, <2>5, StepSess
<1>3. CASE releaseWithoutResources(p) /\ proc[p].pc = "release"
  <2> PICK r : r = [row EXCEPT !.state = "RETIRED", !.job = 0, !.nonce = dropProof(@),
                               !.err = "released_no_resources"]
    OBVIOUS
  <2>1. /\ step(p, wins, r, "close", "purge", "idle")
        /\ r.state = "RETIRED" /\ r.epoch = row.epoch /\ r.err = "released_no_resources"
    BY <1>1, <1>3 DEF releaseWithoutResources, Row
  <2>2. wins => row' = r
    BY <2>1 DEF step, casInTx, Write
  <2>3. "purge" \in Idling /\ "idle" \in Idling
    BY DEF Idling
  <2> HIDE DEF wins
  <2>4. wins => Cooled
    BY <2>1, <2>2, Cools DEF Ended, Boots, Booting, NoReturn, HostRetireErrors
  <2> QED BY <1>1, <2>1, <2>3, <2>4, StepSess
<1>4. CASE releaseWithoutResources(p) /\ proc[p].pc = "purge"
  <2> DEFINE pc == IF goal = "delete" THEN "softdelete" ELSE "idle"
  <2> PICK r : r = [row EXCEPT !.state = "PURGE_ELIGIBLE"]
    OBVIOUS
  <2>1. /\ step(p, CasReconciler(s), r, "none", pc, pc)
        /\ r.state = "PURGE_ELIGIBLE" /\ r.epoch = row.epoch /\ r.err = row.err
    BY <1>1, <1>4 DEF releaseWithoutResources, Row
  <2>2. s.state = "RETIRED"
    BY <1>4, ProcIs DEF SnapOK, Inv2
  <2>3. ASSUME CasReconciler(s)
        PROVE  Cooled
    <3>1. row.state = "RETIRED" /\ row' = r
      BY <2>1, <2>2, <2>3 DEF CasReconciler, CasUser, step, casInTx, Write
    <3>2. row.err # "unknown:RUNNING" /\ (MayRun => row.err \notin NoReturn)
      BY <3>1, RowFacts
    <3> QED BY <2>1, <3>1, <3>2, Cools DEF Ended, Boots, Booting
  <2>4. pc \in Idling
    BY DEF Idling
  <2> HIDE DEF pc
  <2> QED BY <1>1, <2>1, <2>3, <2>4, StepSess
<1> QED BY <1>2, <1>3, <1>4 DEF releaseWithoutResources

\* An unconfirmed computer is taken into recovery.
LEMMA RecoveringSess ==
    ASSUME Inv2, Inv1', SessInv, NEW p \in Procs, Recovering(p)
    PROVE  SessInv'
<1> DEFINE s == proc[p].snap
           host == \/ proc[p].pc = "recover" /\ s.state = "UNCONFIRMED"
                   \/ /\ Acting(p, {"fleet"}) /\ s.err = "enroll_tunnel_failed"
                      /\ s.job = 0 /\ Complete(s) /\ proc[p].old
           kind == IF proc[p].goal = "fleet" /\ proc[p].pc = "act"
                   THEN "fleetretire"
                   ELSE IF host THEN "hostretire" ELSE "uncretire"
           pc == IF CasReconciler(s) THEN "recover"
                 ELSE IF kind = "hostretire" THEN "reread" ELSE "idle"
<1> PICK r : r = [row EXCEPT !.state = "RECOVERING",
                             !.err = IF host THEN "enroll_host_retire" ELSE "deleted_recovery"]
  OBVIOUS
<1>1. /\ UNCHANGED <<inst, vol, tunnel>> /\ row \in Row /\ kind \in Kind
      /\ s.state = "UNCONFIRMED"
      /\ casInTx(CasReconciler(s), r, "none") /\ Goto(p, pc, row', kind) /\ row' \in Row
  BY DEF Recovering, world, Inv2, Inv1, TypeOK, Kind
<1>2. /\ r.state = "RECOVERING" /\ r.epoch = row.epoch /\ r.inst = row.inst /\ r.fence = row.fence
      /\ r.err = (IF host THEN "enroll_host_retire" ELSE "deleted_recovery")
  BY <1>1 DEF Row
<1>3. host => s.err = "enroll_tunnel_failed"
  BY DEF SessInv, ReadSess
<1>4. kind # "uncretire" => host
  BY DEF Recovering, Unconfirmed, Acting
<1> HIDE DEF host, kind
<1>5. CASE ~CasReconciler(s)
  <2>1. pc \in {"reread", "idle"} /\ Idles("reread", kind) /\ Idles("idle", kind)
    BY <1>1, <1>5 DEF Idles, Pc
  <2> HIDE DEF pc
  <2> QED BY <1>1, <1>5, <2>1, SwapSess
<1>6. CASE CasReconciler(s)
  <2>1. /\ row.state = "UNCONFIRMED" /\ row.err = s.err /\ row' = r /\ exec' = exec
        /\ usage' = usage
    BY <1>1, <1>2, <1>6
       DEF CasReconciler, CasUser, casInTx, Write, applyTransitionUsageInTx, UsageClosing
  <2>2. host => ~MayRun
    BY <1>3, <2>1, RowFacts DEF NoReturn, HostRetireErrors
  <2>3. Cooled
    BY <1>2, <2>1, <2>2, Cools DEF Keeps, Undoable, NoReturn, HostRetireErrors, Boots, Booting
  <2>4. Goto(p, "recover", row', kind)
    BY <1>1, <1>6
  <2>5. /\ proc'[p].pc = "recover" /\ proc'[p].snap = r /\ proc'[p].kind = kind
        /\ \A q \in Procs : q # p => proc'[q] = proc[q]
    BY <1>1, <2>1, <2>4, GotoIs DEF Inv2, Inv1, TypeOK, Pc, Resets
  <2>6. Resumes(proc'[p]) /\ ~UpUndo(proc'[p]) /\ ~RestUndo(proc'[p])
    BY <1>2, <1>4, <2>5 DEF Resumes, ReadSess, UpUndo, RestUndo
  <2>7. Leaves(p) /\ NewEnds
    BY <1>1, <1>2, <2>1, <2>5, SameEnds DEF Leaves
  <2> QED BY <2>3, <2>6, <2>7, CoolSess
<1> QED BY <1>5, <1>6

-----------------------------------------------------------------------------
(* The swaps of an enrollment.                                             *)

\* The nonce is consumed: the row learns its instance.
LEMMA ConsumeSess ==
    ASSUME Inv2, Inv1', SessInv, NEW p \in Procs, consumeEnrollmentNonce(p)
    PROVE  SessInv'
<1> DEFINE s == proc[p].snap
           i == proc[p].host
           wins == /\ row.gen = s.gen /\ row.epoch = s.epoch
                   /\ row.state \in ENROLLABLE_STATES
                   /\ row.nonce = "live" /\ ~expired /\ row.inst \in {0, i}
<1> PICK r : r = [row EXCEPT !.nonce = "used", !.err = "enroll_tunnel_pending",
                             !.inst = i, !.vol = TRUE]
  OBVIOUS
<1>1. /\ UNCHANGED <<inst, vol, tunnel>> /\ proc[p].pc = "consume" /\ proc[p].kind \in Kind
      /\ step(p, wins, r, "none", "tunnel", "idle") /\ row \in Row /\ s \in Row
      /\ proc \in [Procs -> Proc]
  BY RowsAre DEF consumeEnrollmentNonce, world, Inv2, Inv1, TypeOK
<1>2. /\ r.state = row.state /\ r.epoch = row.epoch /\ r.fence = row.fence /\ r.inst = i
      /\ r.err = "enroll_tunnel_pending" /\ i # 0
  BY <1>1 DEF Row, SessInv, ReadSess
<1>3. casInTx(wins, r, "none")
  BY <1>1 DEF step
<1>4. CASE wins
  <2>1. /\ row' = r /\ exec' = exec /\ Goto(p, "tunnel", r, proc[p].kind)
        /\ row.state \in {"PROVISIONING", "STARTING", "MOUNTING"} /\ usage' = usage
    BY <1>1, <1>2, <1>4
       DEF step, casInTx, Write, applyTransitionUsageInTx, UsageClosing, ENROLLABLE_STATES
  <2>2. /\ proc'[p].pc = "tunnel" /\ proc'[p].snap = r
        /\ \A q \in Procs : q # p => proc'[q] = proc[q]
    <3>1. r \in Row
      BY <2>1 DEF Inv1, TypeOK
    <3> QED BY <1>1, <2>1, <3>1, GotoIs DEF Pc, Resets
  <2>3. Resumes(proc'[p]) /\ ~UpUndo(proc'[p]) /\ ~RestUndo(proc'[p])
    BY <1>2, <2>2 DEF Resumes, ReadSess, UpUndo, RestUndo
  <2>4. row.inst # 0 => row'.inst = row.inst
    BY <1>2, <1>4, <2>1
  <2>5. row'.state = "MOUNTING" => Owns'
    <3> HAVE row'.state = "MOUNTING"
    <3>1. Owns
      BY <1>2, <2>1 DEF SessInv, RowSess
    <3>2. Keeps
      BY <1>2, <2>1, <2>4, <3>1 DEF Keeps, Owns
    <3> QED BY <1>1, <3>1, <3>2, OwnsStay
  <2>6. Boosted
    BY <1>2, <2>1, <2>4, <2>5 DEF Boosted, Boots, Booting
  <2>7. Leaves(p) /\ NewEnds
    BY <1>1, <1>2, <2>1, <2>2, SameEnds DEF Leaves
  <2> QED BY <2>3, <2>6, <2>7, BoostSess
<1>5. CASE ~wins
  <2>1. Goto(p, "idle", s, proc[p].kind) /\ Idles("idle", proc[p].kind)
    BY <1>1, <1>5 DEF step, Idles, Pc
  <2> HIDE DEF wins
  <2> QED BY <1>1, <1>3, <1>5, <2>1, SwapSess
<1> QED BY <1>4, <1>5

\* The enrollment is finished with its tunnel, or failed.
LEMMA FinishSess ==
    ASSUME Inv2, Inv1', SessInv, NEW p \in Procs, finishEnrollment(p)
    PROVE  SessInv'
<1> DEFINE s == proc[p].snap
           done == proc[p].kind # "refused"
           wins == /\ row.gen = s.gen /\ row.epoch = s.epoch
                   /\ row.state \in ENROLLABLE_STATES /\ row.inst = s.inst
                   /\ row.err = "enroll_tunnel_pending" /\ row.nonce # "live"
<1> PICK r : r = IF done
                 THEN [row EXCEPT !.err = "enroll_succeeded"]
                 ELSE [row EXCEPT !.state = "UNCONFIRMED", !.nonce = "none",
                                  !.err = "enroll_tunnel_failed"]
  OBVIOUS
<1>1. /\ UNCHANGED <<inst, vol, tunnel>> /\ row \in Row /\ proc[p].pc = "finish"
      /\ step(p, wins, r, "none", "idle", "idle")
  BY RowsAre DEF finishEnrollment, world
<1>2. /\ r.epoch = row.epoch /\ r.inst = row.inst /\ r.fence = row.fence
      /\ r.state = (IF done THEN row.state ELSE "UNCONFIRMED")
      /\ r.err = (IF done THEN "enroll_succeeded" ELSE "enroll_tunnel_failed")
  BY <1>1 DEF Row
<1>3. wins => row.state \in {"PROVISIONING", "STARTING", "MOUNTING"} /\ row.epoch = s.epoch
  BY DEF ENROLLABLE_STATES
<1>4. wins => row' = r /\ usage' = applyTransitionUsageInTx(r, "none")
  BY <1>1 DEF step, casInTx, Write
<1>5. "idle" \in Idling
  BY DEF Idling
<1> HIDE DEF wins
<1>6. ASSUME wins
      PROVE  Cooled \/ Boosted
  <2>1. usage' = usage /\ row' = r /\ row.state \in Boots
    BY <1>2, <1>3, <1>4, <1>6 DEF applyTransitionUsageInTx, UsageClosing, Boots, Booting
  <2>2. CASE ~done
    BY <1>2, <2>1, <2>2, RowFacts, Cools DEF Boots, Booting
  <2>3. CASE done
    <3>1. Same(s)
      <4>1. ProcInv(proc[p])
        BY DEF Inv2, ProcsInv
      <4> QED BY <1>1, <1>3, <1>6, <4>1 DEF ProcInv, EnrollInv, Same
    <3>2. Ready
      BY <1>1, <2>1, <2>3, <3>1 DEF SessInv, ProcSess
    <3>3. row'.state = "MOUNTING" => Owns'
      <4>1. Keeps
        BY <1>2, <2>1 DEF Keeps
      <4>2. row'.state = "MOUNTING" => Owns
        BY <1>2, <2>1, <2>3 DEF SessInv, RowSess
      <4> QED BY <1>1, <4>1, <4>2, OwnsStay
    <3> QED BY <1>2, <1>3, <1>6, <2>1, <2>3, <3>2, <3>3 DEF Boosted
  <2> QED BY <2>2, <2>3
<1> QED BY <1>1, <1>2, <1>5, <1>6, StepSess

-----------------------------------------------------------------------------
(* The swaps that record a job.                                            *)

\* A swap that loses records nothing.
LEMMA LosesSess ==
    ASSUME Inv2, SessInv, NEW p \in Procs, NEW r, NEW work, NEW kind, NEW undo,
           NEW lose \in {"idle", "act", "reread"},
           recordJob(p, FALSE, r, work, kind, undo, lose), UNCHANGED <<inst, vol, tunnel>>
    PROVE  SessInv'
<1>1. /\ UNCHANGED <<row, exec, usage>> /\ Goto(p, lose, proc[p].snap, "none")
      /\ proc[p].snap \in Row
  BY RowsAre DEF recordJob
<1>2. Idles(lose, "none")
  BY DEF Idles, Pc, Kind
<1> QED BY <1>1, <1>2, IdleMove

\* Which stop or retire is recorded of which row.
Closes(s, state, err, kind, undo) ==
    \/ kind \in Stops /\ s.state = "RUNNING" /\ state = "DRAINING"
    \/ /\ kind \in {"uretire", "rretire"} /\ s.state \in {"RUNNING", "STOPPED"}
       /\ state = "RETIRING" /\ err = "none" /\ undo = s.state
    \/ /\ kind = "uncretire" /\ s.state = "RECOVERING"
       /\ state = "RETIRING" /\ err = "none"
    \/ /\ kind \in {"hostretire", "fleetretire"}
       /\ s.state = "RECOVERING" /\ s.err = "enroll_host_retire" /\ CasReconciler(s)
       /\ state = "RETIRING" /\ err = "enroll_host_retire"

\* The stop or the retire of a computer: only the retire of a running one may
\* be taken back to RUNNING.
LEMMA EndJobSess ==
    ASSUME Inv2, SessInv, NEW p \in Procs, NEW s, s = proc[p].snap, NEW wins,
           NEW state, NEW err, NEW op, NEW kind, NEW undo, NEW lose \in {"idle", "act", "reread"},
           EndJob(p, s, wins, state, err, op, kind, undo, lose), s.inst # 0,
           wins => CasUser(s) /\ Closes(s, state, err, kind, undo),
           (state = "DRAINING" /\ op = "stop") \/ (state = "RETIRING" /\ op = "retire"),
           err \in {"none", "session_limit", "enroll_host_retire"}, tunnel' = tunnel
    PROVE  SessInv'
<1> PICK r : r = [row EXCEPT !.state = state, !.nonce = dropProof(@), !.err = err]
  OBVIOUS
<1> PICK work : work = currentGenerationIntent(s, op)
  OBVIOUS
<1>1. recordJob(p, wins, r, work, kind, undo, lose) /\ UNCHANGED <<inst, vol>>
  BY DEF EndJob
<1>2. CASE ~wins
  <2>1. recordJob(p, FALSE, r, work, kind, undo, lose)
    BY <1>1, <1>2 DEF recordJob
  <2> QED BY <1>1, <2>1, LosesSess
<1>3. CASE wins
  <2>1. recordJob(p, TRUE, r, work, kind, undo, lose)
    BY <1>1, <1>3 DEF recordJob
  <2>2. PICK j \in Jobs : /\ NewJob(j, work) /\ Starts(p, kind, undo)
                          /\ row' = [r EXCEPT !.job = j] /\ JobsGrow(exec, exec')
    BY <2>1, Recorded DEF Inv2
  <2>3. /\ err \notin StartUnknown /\ CasUser(s) /\ Closes(s, state, err, kind, undo)
        /\ s.state \in {"RUNNING", "STOPPED", "RECOVERING"}
    BY <1>3 DEF StartUnknown, RecordedUndo, Closes
  <2>4. EndsRow(j, work, s, op, state, err)
    BY <1>1, <2>2, <2>3 DEF EndsRow
  <2>5. EndFits(j, work, op, state)
    BY <2>4, EndIs
  <2>6. /\ row'.state = state /\ row'.epoch = row.epoch /\ row'.inst = row.inst
        /\ row'.fence = row.fence /\ state \in {"DRAINING", "RETIRING"}
    BY <2>5 DEF EndFits
  <2>7. row'.err = err
    <3>1. row \in Row
      BY DEF Inv2, Inv1, TypeOK
    <3> QED BY <2>2, <3>1 DEF Row
  <2>8. usage' = usage
    <3>1. Write(row', "none")
      BY <2>1, <2>2 DEF recordJob, Write
    <3> QED BY <2>6, <3>1 DEF Write, applyTransitionUsageInTx, UsageClosing
  <2>9. Keeps
    BY <2>6, <2>8 DEF Keeps
  <2>10. NewEnds
    <3>1. work.op \in EndOps /\ work.st = "absent" /\ work.op = op
      BY <2>5 DEF EndFits
    <3> QED BY <2>2, <2>6, <3>1 DEF NewEnds, NewJob, Boots, Booting
  <2>11. Leaves(p)
    BY <1>1, <2>2, <2>6 DEF Leaves, Starts
  <2>12. /\ proc'[p].pc = "start" /\ proc'[p].snap.err = err
         /\ proc'[p].kind = kind /\ proc'[p].undo = undo
    BY <2>2, <2>7 DEF Starts
  <2>13. Resumes(proc'[p])
    BY <2>3, <2>12 DEF Resumes, ReadSess, Closes, Stops
  <2>14. row.state = s.state
    BY <2>3 DEF CasUser
  <2>15. CASE kind \in {"uretire", "rretire"} /\ s.state = "RUNNING"
    <3>1. undo = "RUNNING" /\ state = "RETIRING" /\ err = "none"
      BY <2>3, <2>15 DEF Closes, Stops
    <3>2. \A q \in Procs : ~Returns(proc[q])
      BY <2>14, <2>15 DEF SessInv, RowSess
    <3>3. Up
      BY <2>14, <2>15 DEF Up, Runs, Ended
    <3>4. Turned(p)
      BY <2>6, <2>7, <2>9, <3>1, <3>2, <3>3 DEF Turned, NoReturn, HostRetireErrors
    <3>5. ~RestUndo(proc'[p])
      BY <2>12, <3>1 DEF RestUndo
    <3> QED BY <2>6, <2>7, <2>10, <2>11, <2>13, <3>1, <3>4, <3>5, TurnSess
  <2>16. CASE ~(kind \in {"uretire", "rretire"} /\ s.state = "RUNNING")
    <3>1. s.state \in {"RUNNING", "STOPPED"} => ~MayRun
      BY <2>14, RowFacts DEF Undoable, Ended
    <3>2. kind \in {"hostretire", "fleetretire"} => ~MayRun
      <4> HAVE kind \in {"hostretire", "fleetretire"}
      <4>1. row.err = "enroll_host_retire"
        BY <2>3 DEF Closes, Stops, CasReconciler
      <4> QED BY <4>1, RowFacts DEF NoReturn, HostRetireErrors
    <3>3. s.state = "RECOVERING" /\ kind = "uncretire" => state = "RETIRING" /\ err = "none"
      BY <2>3 DEF Closes, Stops
    <3>4. s.state = "RECOVERING" => kind \in {"uncretire", "hostretire", "fleetretire"}
      BY <2>3 DEF Closes
    <3>5. Cooled
      <4>1. row'.state \notin Boots \cup {"RUNNING"} /\ row'.err # "unknown:RUNNING"
        BY <2>6, <2>7 DEF Boots, Booting
      <4>2. CASE ~MayRun
        BY <4>1, <4>2, Cools
      <4>3. CASE MayRun
        <5>1. s.state = "RECOVERING" /\ state = "RETIRING" /\ err = "none"
          BY <2>3, <3>1, <3>2, <3>3, <3>4, <4>3
        <5>2. /\ row'.state \in Undoable /\ row'.err \notin NoReturn
              /\ row.state \in Undoable
          BY <2>6, <2>7, <2>14, <5>1 DEF Undoable, NoReturn, HostRetireErrors
        <5> QED BY <2>9, <4>1, <5>2, Cools
      <4> QED BY <4>2, <4>3
    <3>6. ~UpUndo(proc'[p])
      BY <2>3, <2>12, <2>16 DEF UpUndo, Closes, Stops
    <3>7. RestUndo(proc'[p]) => ~Runs
      <4> HAVE RestUndo(proc'[p])
      <4>1. s.state = "STOPPED"
        BY <2>3, <2>12 DEF RestUndo, Closes, Stops
      <4> QED BY <2>14, <3>1, <4>1 DEF Runs
    <3> QED BY <2>10, <2>11, <2>13, <3>5, <3>6, <3>7, CoolSess
  <2> QED BY <2>15, <2>16
<1> QED BY <1>2, <1>3

\* A stop of a running computer.
LEMMA StopSess ==
    ASSUME Inv2, SessInv, NEW p \in Procs,
           reconcileGuestStop(p) \/ enforceSessionLimits(p) \/ startStop(p)
    PROVE  SessInv'
<1> DEFINE s == proc[p].snap
<1>1. s.state = "RUNNING" /\ s.inst # 0
  BY DEF reconcileGuestStop, enforceSessionLimits, startStop, GuestStopDue, Complete
<1>2. ASSUME NEW wins, wins => CasUser(s), NEW err \in {"none", "session_limit"},
             NEW kind \in Stops, StopJob(p, s, wins, err, kind)
      PROVE  SessInv'
  <2> DEFINE lose == IF kind = "rstop" THEN "act" ELSE "idle"
  <2>1. EndJob(p, s, wins, "DRAINING", err, "stop", kind, "UNCONFIRMED", lose) /\ tunnel' = tunnel
    BY <1>2 DEF StopJob, EndJob, world
  <2>2. lose \in {"idle", "act", "reread"}
    OBVIOUS
  <2>3. /\ err \in {"none", "session_limit", "enroll_host_retire"}
        /\ wins => CasUser(s) /\ Closes(s, "DRAINING", err, kind, "UNCONFIRMED")
    BY <1>1, <1>2 DEF Closes
  <2> HIDE DEF lose
  <2> QED BY <1>1, <2>1, <2>2, <2>3, EndJobSess
<1>3. CASE reconcileGuestStop(p)
  BY <1>2, <1>3 DEF reconcileGuestStop, CasReconciler, Stops
<1>4. CASE enforceSessionLimits(p)
  BY <1>2, <1>4 DEF enforceSessionLimits, CasReconciler, Stops
<1>5. CASE startStop(p)
  BY <1>2, <1>5 DEF startStop, Stops
<1> QED BY <1>3, <1>4, <1>5

\* A retire of a computer at rest or running.
LEMMA RetireSess ==
    ASSUME Inv2, SessInv, NEW p \in Procs, startRetire(p)
    PROVE  SessInv'
<1> DEFINE s == proc[p].snap
           user == proc[p].goal = "delete"
           wins == IF user THEN CasUser(s) ELSE CasReconciler(s)
           kind == IF user THEN "uretire" ELSE "rretire"
<1>1. /\ s.state \in {"RUNNING", "STOPPED"} /\ s.inst # 0 /\ tunnel' = tunnel
      /\ EndJob(p, s, wins, "RETIRING", "none", "retire", kind, s.state, "idle")
  BY DEF startRetire, Complete, EndJob, world
<1>2. wins => CasUser(s) /\ Closes(s, "RETIRING", "none", kind, s.state)
  BY <1>1 DEF CasReconciler, Closes
<1> HIDE DEF wins, kind
<1> QED BY <1>1, <1>2, EndJobSess

\* RECOVERING to RETIRING.
LEMMA RecoveringRetireSess ==
    ASSUME Inv2, SessInv, NEW p \in Procs, RecoveringRetire(p)
    PROVE  SessInv'
<1> DEFINE s == proc[p].snap
           fleet == /\ Acting(p, {"fleet"}) /\ s.err = "enroll_host_retire"
                    /\ s.job = 0 /\ Complete(s) /\ proc[p].old
           kind == IF proc[p].pc = "recover" THEN proc[p].kind
                   ELSE IF fleet THEN "fleetretire" ELSE "uncretire"
           err == IF kind = "uncretire" THEN "none" ELSE "enroll_host_retire"
           lose == IF kind = "hostretire" THEN "reread" ELSE "idle"
           wins == CasReconciler(s)
<1>1. /\ s.state = "RECOVERING" /\ tunnel' = tunnel
      /\ proc[p].pc = "recover" \/ fleet \/ (Unconfirmed(p) /\ Retirable(s))
      /\ EndJob(p, s, wins, "RETIRING", err, "retire", kind, "UNCONFIRMED", lose)
  BY DEF RecoveringRetire, EndJob, world
<1>2. SnapOK(proc[p].pc, s, proc[p].kind, proc[p].undo, exec)
  BY ProcIs DEF Inv2
<1>3. s.inst # 0 /\ kind \in {"hostretire", "fleetretire", "uncretire"}
  BY <1>1, <1>2 DEF SnapOK, Retirable, Complete
<1>4. kind # "uncretire" => s.err = "enroll_host_retire"
  BY <1>1 DEF SessInv, ReadSess
<1>5. /\ err \in {"none", "session_limit", "enroll_host_retire"}
      /\ lose \in {"idle", "act", "reread"}
      /\ wins => CasUser(s) /\ Closes(s, "RETIRING", err, kind, "UNCONFIRMED")
  BY <1>1, <1>3, <1>4 DEF CasReconciler, Closes
<1> HIDE DEF fleet, kind, err, lose, wins
<1> QED BY <1>1, <1>3, <1>5, EndJobSess

\* A lease takes an epoch that nothing of the session is of.
LEMMA BootJobSess ==
    ASSUME Inv2, Inv1', SessInv, NEW p \in Procs, NEW wins, NEW r, NEW work, NEW undo,
           TakesBoot(p, wins, r, work, undo), tunnel' = tunnel
    PROVE  SessInv'
<1>1. /\ recordJob(p, wins, r, work, "boot", undo, "idle") /\ UNCHANGED <<inst, vol>>
      /\ wins => TakesLease(r, work)
  BY DEF TakesBoot, BootJob
<1>2. CASE ~wins
  <2>1. recordJob(p, FALSE, r, work, "boot", undo, "idle")
    BY <1>1, <1>2 DEF recordJob
  <2> QED BY <1>1, <2>1, LosesSess
<1>3. CASE wins
  <2>1. recordJob(p, TRUE, r, work, "boot", undo, "idle")
    BY <1>1, <1>3 DEF recordJob
  <2>2. PICK j \in Jobs : /\ NewJob(j, work) /\ Starts(p, "boot", undo)
                          /\ row' = [r EXCEPT !.job = j] /\ JobsGrow(exec, exec')
    BY <2>1, Recorded DEF Inv2
  <2>3. Leases(j, work)
    BY <1>1, <1>3, <2>2 DEF TakesLease
  <2>4. /\ row'.state \in {"PROVISIONING", "LEASED"} /\ row.epoch < row'.epoch
        /\ row'.epoch = work.epoch /\ row'.epoch \in Nat /\ row.epoch \in Nat
        /\ row'.err = "none" /\ work.op \in BootOps /\ work.st = "absent"
    BY <2>3, Bounds DEF Leases, Inv1, Inv2, TypeOK, Row
  <2>5. /\ proc'[p].pc = "start" /\ proc'[p].kind = "boot"
        /\ \A q \in Procs : q # p => proc'[q] = proc[q]
    BY <2>2 DEF Starts
  <2>6. ASSUME NEW q \in Procs, q # p
        PROVE  ~Same(proc[q].snap)'
    <3>1. proc'[q] = proc[q] /\ row.epoch <= row'.epoch /\ row'.epoch # row.epoch
      BY <2>4, <2>5, <2>6
    <3> QED BY <3>1, SameBefore DEF StillSame, Same
  <2>7. \A q \in Procs : ~Returns(proc[q])'
    BY <2>5, <2>6 DEF Returns, UpUndo
  <2>8. ~Runs'
    BY <2>4, <2>7 DEF Runs, MayRun
  <2>9. ASSUME NEW k \in Jobs
        PROVE  JobSess(k)'
    <3>1. CASE k = j
      <4>1. exec'[k] = work
        BY <2>2, <3>1 DEF NewJob
      <4> QED BY <2>4, <2>8, <4>1 DEF JobSess, BootOps, EndOps
    <3>2. CASE k # j
      <4>1. exec'[k] = exec[k]
        BY <2>2, <3>2 DEF NewJob
      <4>2. exec[k].op # "none" => exec[k].epoch # row'.epoch
        BY <2>3, <2>4, <3>2, LeaseLeavesJobs
      <4>3. JobSess(k)
        BY DEF SessInv
      <4>4. exec[k].op \in EndOps \cup BootOps => exec'[k].epoch # row'.epoch
        BY <4>1, <4>2 DEF EndOps, BootOps
      <4> QED BY <1>1, <2>8, <4>1, <4>3, <4>4 DEF JobSess, BootOf
    <3> QED BY <3>1, <3>2
  <2>10. RowSess'
    BY <2>4, <2>7, <2>8 DEF RowSess, Up, Runs
  <2>11. OneReturns'
    BY <2>7 DEF OneReturns
  <2>12. ASSUME NEW q \in Procs
         PROVE  ReadSess(proc[q])' /\ ProcSess(proc[q])'
    <3>1. CASE q = p
      BY <2>5, <3>1 DEF ReadSess, ProcSess, RestUndo
    <3>2. CASE q # p
      <4>1. ReadSess(proc[q])
        BY DEF SessInv
      <4>2. ReadSess(proc[q])'
        BY <2>5, <3>2, <4>1 DEF ReadSess
      <4> QED BY <2>6, <3>2, <4>2 DEF ProcSess
    <3> QED BY <3>1, <3>2
  <2> QED BY <2>9, <2>10, <2>11, <2>12 DEF SessInv
<1> QED BY <1>2, <1>3

\* The leases of a computer.
LEMMA LeaseSess ==
    ASSUME Inv2, Inv1', SessInv, NEW p \in Procs,
           createAwsPlacement(p) \/ \E replace \in BOOLEAN : leasePlacement(p, replace)
    PROVE  SessInv'
<1>1. tunnel' = tunnel
  BY DEF createAwsPlacement, leasePlacement, world
<1>2. \E wins, r, work, undo : TakesBoot(p, wins, r, work, undo)
  BY CreateTakes, LeaseTakes
<1> QED BY <1>1, <1>2, BootJobSess

-----------------------------------------------------------------------------
(* The steps that swap nothing.                                            *)

\* A step that leaves all but the tunnel and one invocation alone, and leaves
\* ready what has to be.
LEMMA TunnelSess ==
    ASSUME Inv2, SessInv, UNCHANGED <<row, exec, usage, inst, vol>>, NEW p \in Procs,
           \A q \in Procs : q # p => proc'[q] = proc[q],
           ReadSess(proc'[p]), ~UpUndo(proc'[p]), ~RestUndo(proc'[p]),
           Ready /\ (Up \/ row.state \in Boots) => Ready',
           proc'[p].pc = "finish" /\ proc'[p].kind # "refused" /\ Same(proc'[p].snap)
             /\ row.state \in Boots => Ready'
    PROVE  SessInv'
<1>1. \A q \in Procs : Returns(proc[q])' => Returns(proc[q])
  <2> TAKE q \in Procs
  <2>1. CASE q = p
    BY <2>1 DEF Returns
  <2>2. CASE q # p
    BY <2>2, ReturnsStay
  <2> QED BY <2>1, <2>2
<1>2. MayRun' => MayRun
  BY <1>1 DEF MayRun
<1>3. (Runs' => Runs) /\ (Up' => Up) /\ (Owns' <=> Owns)
  BY <1>2 DEF Runs, Up, Owns, Held
<1>4. ASSUME NEW j \in Jobs
      PROVE  JobSess(j)'
  <2> PICK x : x = exec[j]
    OBVIOUS
  <2>1. JobSess(j) /\ exec'[j] = x
    BY DEF SessInv
  <2>2. x.op = "retire" /\ x.st \in {"succeeded", "lost"} => inst[x.src].st = "gone"
    BY <2>1 DEF JobSess
  <2>3. x.op \in BootOps /\ x.epoch = row.epoch /\ x.st = "succeeded" =>
          Held(ResultInstance(x), x.fence)
    BY <2>1 DEF JobSess, BootOf
  <2>4. x.op \in EndOps /\ x.epoch = row.epoch => row.state \notin Boots
    BY <2>1 DEF JobSess
  <2>5. Runs' => /\ x.op = "stop" => x.epoch # row.epoch
                 /\ x.op \in BootOps /\ x.epoch = row.epoch => x.st = "succeeded"
    BY <1>3, <2>1 DEF JobSess, BootOf
  <2>6. Held(ResultInstance(x), x.fence) => Held(ResultInstance(x), x.fence)'
    BY DEF Held, ResultInstance
  <2> QED BY <2>1, <2>2, <2>3, <2>4, <2>5, <2>6 DEF JobSess, BootOf
<1>5. RowSess'
  <2>1. RowSess
    BY DEF SessInv
  <2> QED BY <1>1, <1>2, <1>3, <2>1 DEF RowSess
<1>6. OneReturns'
  BY <1>1 DEF SessInv, OneReturns
<1>7. ASSUME NEW q \in Procs
      PROVE  ReadSess(proc[q])' /\ ProcSess(proc[q])'
  <2> PICK w : w = proc'[q]
    OBVIOUS
  <2>1. CASE q = p
    BY <2>1 DEF ReadSess, ProcSess, RestUndo, Same
  <2>2. CASE q # p
    <3>1. w = proc[q] /\ ReadSess(w) /\ ProcSess(w)
      BY <2>2 DEF SessInv
    <3> QED BY <1>3, <3>1 DEF ReadSess, ProcSess, RestUndo, Same
  <2> QED BY <2>1, <2>2
<1> QED BY <1>4, <1>5, <1>6, <1>7 DEF SessInv

\* A removal of an earlier lease's tunnel leaves the row's.
LEMMA FenceLeaves ==
    ASSUME Inv2, NEW e \in Nat, tunnel' \in {tunnel, deleteTunnel(e)}, e <= row.epoch,
           UNCHANGED <<row, inst>>, Ready, e = row.epoch => inst[row.inst].st = "gone"
    PROVE  Ready'
<1>1. tunnel.rec \in Nat /\ tunnel.fence \in Nat /\ row.epoch \in Nat
  BY EpochsAre
<1>2. CASE inst[row.inst].st = "gone"
  BY <1>2 DEF Ready
<1>3. CASE inst[row.inst].st # "gone"
  BY <1>1, <1>3 DEF Ready, Reach, deleteTunnel
<1> QED BY <1>2, <1>3

\* A fence of an invocation that read the row's own lease: its instance is gone.
LEMMA FenceSess ==
    ASSUME Inv2, SessInv, NEW p \in Procs, UNCHANGED <<row, exec, usage, inst, vol>>,
           NEW s, s = proc[p].snap, s.state # "NONE", NEW pc, NEW kind, NEW lose,
           Fence(p, s.epoch, pc, kind, lose), Idles(pc, kind), Idles(lose, proc[p].kind),
           Same(s) /\ row.inst # 0 /\ (Up \/ row.state \in Boots) => inst[row.inst].st = "gone"
    PROVE  SessInv'
<1>1. s \in Row /\ s.epoch \in Nat /\ s.epoch <= row.epoch
  BY RowsAre, EpochsAre
<1>2. /\ tunnel' \in {tunnel, deleteTunnel(s.epoch)}
      /\ Goto(p, pc, s, kind) \/ Goto(p, lose, s, proc[p].kind)
  BY DEF Fence
<1>3. /\ Resumes(proc'[p]) /\ ~UpUndo(proc'[p]) /\ ~RestUndo(proc'[p])
      /\ \A q \in Procs : q # p => proc'[q] = proc[q]
  BY <1>1, <1>2, IdleResumes
<1>4. Ready /\ (Up \/ row.state \in Boots) => Ready'
  BY <1>1, <1>2, FenceLeaves DEF Ready, Same
<1>5. ReadSess(proc'[p]) /\ proc'[p].pc # "finish"
  BY <1>3 DEF Resumes
<1> QED BY <1>3, <1>4, <1>5, TunnelSess

\* A replacement that did not happen has nothing that runs: not its boot, and
\* not the computer of its lease.
LEMMA GenerationGone ==
    ASSUME Inv2, SessInv, NEW p \in Procs, NEW s, s = proc[p].snap, NEW refused \in BOOLEAN,
           ReplacementEvidence(s, refused), exec[s.job].st # "succeeded",
           Same(s), row.inst # 0, Up \/ row.state \in Boots
    PROVE  inst[row.inst].st = "gone"
<1> PICK x : x = exec[s.job]
  OBVIOUS
<1>1. /\ s.job # 0 /\ x.op = "replace" /\ x.epoch = s.epoch /\ x.st # "succeeded"
      /\ inst[x.epoch].st \in {"none", "gone"}
  BY DEF ReplacementEvidence
<1>2. s.job \in Jobs /\ row \in Row
  BY <1>1, RowsAre, SnapIs DEF Inv2
<1>3. BootOf(s.job)
  BY <1>1 DEF BootOf, BootOps, Same
<1>4. row.state \in Boots
  BY <1>1, <1>2, <1>3, BootingHalts DEF Up
<1>5. row.state # "MOUNTING"
  BY <1>1, <1>2, <1>3, BootIs DEF BootInv, Same
<1>6. row.job # 0 /\ BootOf(row.job)
  <2>1. JobFits(row, exec) /\ row.state \in Booting
    BY <1>4, <1>5 DEF Inv2, RowInv, Boots
  <2> QED BY <2>1 DEF JobFits, Booting, BootOf, BootOps
<1>7. row.job = s.job
  <2>1. row.job \in Jobs
    BY <1>2, <1>6, SnapIs DEF Inv2
  <2> QED BY <1>2, <1>3, <1>6, <2>1, BootIs
<1>8. row.inst = x.epoch
  <2>1. JobFits(row, exec)
    BY DEF Inv2, RowInv
  <2> QED BY <1>1, <1>6, <1>7, <2>1 DEF JobFits, BootOps, ResultInstance
<1>9. inst[row.inst].st # "none"
  BY DEF Inv2, RowInv
<1> QED BY <1>1, <1>8, <1>9

\* The fences of a replacement that did not happen, of a finished stop or
\* retire, of an instance that is gone and of a computer that owns nothing.
LEMMA FencesSess ==
    ASSUME Inv2, SessInv, NEW p \in Procs,
           GenerationFence(p) \/ ReceiptFence(p) \/ LostFence(p) \/ ReleaseFence(p)
    PROVE  SessInv'
<1> DEFINE s == proc[p].snap
<1>1. UNCHANGED <<row, exec, usage, inst, vol>> /\ s \in Row /\ proc[p].kind \in Kind
  BY RowsAre DEF GenerationFence, ReceiptFence, LostFence, ReleaseFence, rowVars
<1>2. ProcInv(proc[p]) /\ SnapInv(s) /\ RowInv
  BY DEF Inv2, ProcsInv, ProcInv
<1>3. \A pc \in Fencing, kind \in Kind : Idles(pc, kind)
  BY DEF Fencing, Idles, Pc
<1>4. \A pc \in {"act", "idle", "reread", "undo"}, kind \in Kind : Idles(pc, kind)
  BY DEF Idles, Pc
<1>5. "none" \in Kind /\ "kept" \in Kind /\ "gone" \in Kind
  BY DEF Kind
<1>6. CASE GenerationFence(p)
  <2> DEFINE kind == IF inst[exec[s.job].src].st = "stopped" THEN "kept" ELSE "gone"
  <2> PICK refused \in BOOLEAN : refused = (proc[p].pc = "refused")
    OBVIOUS
  <2>1. /\ refused <=> proc[p].pc = "refused"
        /\ ReplacementEvidence(s, refused) /\ (refused \/ Described(p, {"failed"}))
        /\ Fence(p, s.epoch, "gencas", kind, IF refused THEN "undo" ELSE "reread")
    BY <1>6 DEF GenerationFence
  <2>2. s.state # "NONE"
    BY <2>1, ProcIs, DescribedIs DEF Inv2, SnapOK, BootUndo
  <2>3. exec[s.job].st # "succeeded"
    <3>1. CASE refused
      BY <1>2, <2>1, <3>1 DEF ProcInv, StarterInv, Starter
    <3>2. CASE ~refused
      BY <2>1, <3>2 DEF Described
    <3> QED BY <3>1, <3>2
  <2>4. Same(s) /\ row.inst # 0 /\ (Up \/ row.state \in Boots) => inst[row.inst].st = "gone"
    BY <2>1, <2>3, GenerationGone
  <2>5. kind \in Kind /\ "gencas" \in Fencing
    BY <1>5 DEF Fencing
  <2> PICK lose : lose = IF refused THEN "undo" ELSE "reread"
    OBVIOUS
  <2>6. Idles("gencas", kind) /\ Idles(lose, proc[p].kind)
    BY <1>1, <1>3, <1>4, <2>5
  <2> HIDE DEF kind
  <2> QED BY <1>1, <2>1, <2>2, <2>4, <2>6, FenceSess
<1>7. CASE ReceiptFence(p)
  <2> PICK x : x = exec[s.job]
    OBVIOUS
  <2>1. /\ s.state \in {"STOPPING", "RETIRING"} /\ s.job # 0 /\ x.st \in {"succeeded", "lost"}
        /\ Fence(p, s.epoch, "final", "none", "reread")
    BY <1>7 DEF ReceiptFence, Described
  <2>2. /\ s.job \in Jobs /\ x.epoch = s.epoch /\ s.inst = x.src
        /\ s.state = "STOPPING" => x.op = "stop"
        /\ s.state = "RETIRING" => x.op = "retire"
    <3>1. s.job \in Jobs
      BY <1>1, <2>1, SnapIs DEF Inv2
    <3> QED BY <1>2, <2>1, <3>1 DEF SnapInv, JobFits, EndOps, Stopping
  <2>3. ASSUME Same(s), row.inst # 0, Up \/ row.state \in Boots
        PROVE  inst[row.inst].st = "gone"
    <3>1. JobSess(s.job) /\ x.epoch = row.epoch
      BY <2>2, <2>3 DEF SessInv, Same
    <3>2. row.state \notin Boots /\ Runs
      BY <2>1, <2>2, <2>3, <3>1 DEF JobSess, EndOps, Up
    <3>3. x.op = "retire"
      BY <2>1, <2>2, <3>1, <3>2 DEF JobSess
    <3>4. inst[x.src].st = "gone"
      BY <2>1, <3>1, <3>3 DEF JobSess
    <3>5. x.src # 0
      <4>1. x.src \in Epochs
        BY <2>2, <3>3, ExecIs DEF Inv2
      <4> QED BY <4>1, Bounds DEF Epochs
    <3> QED BY <1>2, <2>2, <2>3, <3>4, <3>5 DEF SnapInv
  <2>4. Idles("final", "none") /\ Idles("reread", proc[p].kind)
    BY <1>1, <1>3, <1>4, <1>5 DEF Fencing
  <2> QED BY <1>1, <2>1, <2>3, <2>4, FenceSess
<1>8. CASE LostFence(p)
  <2>1. /\ s.state # "NONE" /\ Fence(p, s.epoch, "lost", "none", "act")
        /\ s.inst # 0 /\ inst[s.inst].st = "gone"
    BY <1>8 DEF LostFence, GuestStopDue, Complete
  <2>2. Same(s) => inst[row.inst].st = "gone"
    BY <1>2, <2>1 DEF SnapInv
  <2>3. Idles("lost", "none") /\ Idles("act", proc[p].kind)
    BY <1>1, <1>3, <1>4, <1>5 DEF Fencing
  <2> QED BY <1>1, <2>1, <2>2, <2>3, FenceSess
<1>9. CASE ReleaseFence(p)
  <2>1. /\ s.state # "NONE" /\ Fence(p, s.epoch, "release", "none", "idle")
        /\ \A i \in Epochs : inst[i].st \in {"none", "gone"}
    BY <1>9 DEF ReleaseFence, Unconfirmed, NothingFound
  <2>2. row.inst # 0 => inst[row.inst].st = "gone"
    <3>1. row.inst # 0 => row.inst \in Epochs
      BY RowsAre, SnapIs DEF Inv2
    <3> QED BY <1>2, <2>1, <3>1 DEF RowInv
  <2>3. Idles("release", "none") /\ Idles("idle", proc[p].kind)
    BY <1>1, <1>3, <1>4, <1>5 DEF Fencing
  <2> QED BY <1>1, <2>1, <2>2, <2>3, FenceSess
<1> QED BY <1>6, <1>7, <1>8, <1>9

\* An invocation ends, reads again, or goes on with what it read.
LEMMA QuietSess ==
    ASSUME Inv2, SessInv, NEW p \in Procs,
           ReceiptNothing(p) \/ LookPassed(p) \/ Answer(p) \/ softDeleteComputer(p) \/ Crash(p)
    PROVE  SessInv'
<1> DEFINE s == proc[p].snap
<1>1. UNCHANGED <<row, exec, usage, inst, vol, tunnel>> /\ s \in Row /\ NoRow \in Row
  BY RowsAre, Bounds DEF ReceiptNothing, LookPassed, Answer, softDeleteComputer, Crash,
     rowVars, world
<1>2. Goto(p, "reread", NoRow, "none") \/ Goto(p, "act", s, "none") \/ Goto(p, "idle", NoRow, "none")
  BY DEF ReceiptNothing, LookPassed, Answer, softDeleteComputer, Crash
<1>3. Idles("reread", "none") /\ Idles("act", "none") /\ Idles("idle", "none")
  BY DEF Idles, Pc, Kind
<1> QED BY <1>1, <1>2, <1>3, IdleMove

\* The Worker answers the enrollment, or what it did stays unknown: it makes no
\* tunnel over one of the row's lease, and what it confirms is there.
LEMMA AnswerSess ==
    ASSUME Inv2, SessInv, NEW p \in Procs, TunnelAnswer(p) \/ tunnelOutcomeUnknown(p)
    PROVE  SessInv'
<1> DEFINE s == proc[p].snap
           e == s.epoch
<1>1. /\ UNCHANGED <<row, exec, usage, inst, vol>> /\ s \in Row /\ NoRow \in Row
      /\ proc[p].pc = "tunnel" /\ proc[p].kind \in Kind /\ proc \in [Procs -> Proc]
  BY RowsAre, Bounds DEF TunnelAnswer, tunnelOutcomeUnknown, rowVars, Inv2, Inv1, TypeOK
<1>2. /\ e \in Nat /\ e <= row.epoch /\ row.epoch \in Nat
      /\ tunnel.rec \in Nat /\ tunnel.fence \in Nat
  BY <1>1, EpochsAre DEF Enrolling
<1>3. s.inst # 0 /\ (Same(s) => row.inst = s.inst)
  <2>1. SnapInv(s)
    BY DEF Inv2, ProcsInv, ProcInv
  <2>2. s.inst # 0
    BY <1>1 DEF SessInv, ReadSess
  <2> QED BY <2>1, <2>2 DEF SnapInv
<1>4. tunnel' = tunnel \/ (createTunnelAllowed(e) /\ tunnel' = createTunnel(e))
  BY DEF TunnelAnswer, tunnelOutcomeUnknown
<1>5. Ready => Ready'
  BY <1>1, <1>2, <1>4 DEF Ready, Reach, createTunnelAllowed
<1>6. \A kind \in {proc[p].kind, "pending", "refused", "none"} : kind \in Kind
  BY <1>1 DEF Kind
<1>7. ASSUME NEW kind \in Kind, Goto(p, "finish", s, kind),
             kind # "refused" => tunnel'.rec = e /\ tunnel'.fence < e
      PROVE  SessInv'
  <2>1. /\ proc'[p].pc = "finish" /\ proc'[p].snap = s /\ proc'[p].kind = kind
        /\ \A q \in Procs : q # p => proc'[q] = proc[q]
    BY <1>1, <1>7, GotoIs DEF Pc, Resets
  <2>2. ReadSess(proc'[p]) /\ ~UpUndo(proc'[p]) /\ ~RestUndo(proc'[p])
    BY <1>3, <2>1 DEF ReadSess, UpUndo, RestUndo
  <2>3. kind # "refused" /\ Same(s) => Ready'
    BY <1>1, <1>3, <1>7 DEF Ready, Reach, Same
  <2> QED BY <1>1, <1>5, <2>1, <2>2, <2>3, TunnelSess
<1>8. ASSUME NEW v \in Row, NEW kind \in Kind, Goto(p, "idle", v, kind)
      PROVE  SessInv'
  <2>1. Idles("idle", kind)
    BY DEF Idles, Pc
  <2>2. /\ Resumes(proc'[p]) /\ ~UpUndo(proc'[p]) /\ ~RestUndo(proc'[p])
        /\ \A q \in Procs : q # p => proc'[q] = proc[q]
    BY <1>8, <2>1, IdleResumes
  <2>3. ReadSess(proc'[p]) /\ proc'[p].pc # "finish"
    BY <2>2 DEF Resumes
  <2> QED BY <1>1, <1>5, <2>2, <2>3, TunnelSess
<1>9. CASE TunnelAnswer(p)
  <2>1. CASE /\ createTunnelAllowed(e) /\ tunnel' = createTunnel(e)
             /\ Goto(p, "finish", s, proc[p].kind)
    <3>1. tunnel'.rec = e /\ tunnel'.fence < e
      BY <1>2, <2>1 DEF createTunnelAllowed, createTunnel
    <3> QED BY <1>1, <1>7, <2>1, <3>1
  <2>2. CASE /\ tunnel' = tunnel
             /\ IF proc[p].kind = "pending" /\ tunnel.rec = e /\ e > tunnel.fence
                  THEN Goto(p, "finish", s, "pending")
                  ELSE Goto(p, IF proc[p].kind = "pending" THEN "idle" ELSE "finish",
                            s, "refused")
    <3>1. CASE proc[p].kind = "pending" /\ tunnel.rec = e /\ e > tunnel.fence
      <4>1. tunnel'.rec = e /\ tunnel'.fence < e /\ Goto(p, "finish", s, "pending")
        BY <1>2, <2>2, <3>1
      <4> QED BY <1>6, <1>7, <4>1
    <3>2. CASE ~(proc[p].kind = "pending" /\ tunnel.rec = e /\ e > tunnel.fence)
      <4>1. Goto(p, "idle", s, "refused") \/ Goto(p, "finish", s, "refused")
        BY <2>2, <3>2
      <4> QED BY <1>1, <1>6, <1>7, <1>8, <4>1
    <3> QED BY <3>1, <3>2
  <2>3. CASE Goto(p, "finish", s, "refused")
    BY <1>6, <1>7, <2>3
  <2> QED BY <1>9, <2>1, <2>2, <2>3 DEF TunnelAnswer
<1>10. CASE tunnelOutcomeUnknown(p)
  BY <1>1, <1>6, <1>8, <1>10 DEF tunnelOutcomeUnknown
<1> QED BY <1>9, <1>10

\* An invocation begins, or reads the row again.
LEMMA BeginSess ==
    ASSUME Inv2, SessInv, NEW p \in Procs, (\E goal \in Goal : Begin(p, goal)) \/ ReRead(p)
    PROVE  SessInv'
<1>1. proc \in [Procs -> Proc] /\ proc[p] \in Proc
  BY DEF Inv2, Inv1, TypeOK
<1>2. UNCHANGED <<row, exec, usage, inst, vol, tunnel>>
  BY DEF Begin, ReRead, rowVars, world
<1>3. proc'[p].pc \in {"act", "receipt", "look"} /\ \A q \in Procs : q # p => proc'[q] = proc[q]
  <2>1. ASSUME NEW goal \in Goal, Begin(p, goal)
        PROVE  /\ proc'[p].pc \in {"act", "receipt", "look"}
               /\ \A q \in Procs : q # p => proc'[q] = proc[q]
    <3>1. proc' = [proc EXCEPT ![p] =
                     [Idle EXCEPT !.pc = IF goal = "stop" \/ row.state = "NONE"
                                         THEN "act" ELSE "receipt",
                                  !.goal = goal, !.snap = row, !.old = aged]]
      BY <2>1 DEF Begin
    <3> QED BY <1>1, <3>1 DEF Idle
  <2>2. ASSUME ReRead(p)
        PROVE  /\ proc'[p].pc \in {"act", "receipt", "look"}
               /\ \A q \in Procs : q # p => proc'[q] = proc[q]
    <3>1. proc' = [proc EXCEPT ![p].pc = IF @ = "reread" /\ proc[p].goal # "deleted"
                                         THEN "look" ELSE "act",
                               ![p].snap = row, ![p].old = aged]
      BY <2>2 DEF ReRead
    <3> QED BY <1>1, <3>1 DEF Proc
  <2> QED BY <2>1, <2>2
<1>4. Resumes(proc'[p]) /\ ~UpUndo(proc'[p]) /\ ~RestUndo(proc'[p])
  BY <1>3 DEF Resumes, ReadSess, UpUndo, RestUndo
<1> QED BY <1>2, <1>3, <1>4, MoveSess

\* A host enrolls: what it enrolls for again, the row has learned.
LEMMA EnrollSess ==
    ASSUME Inv2, SessInv, NEW p \in Procs, NEW i \in Epochs, Enroll(p, i)
    PROVE  SessInv'
<1>1. /\ UNCHANGED <<row, exec, usage, inst, vol, tunnel>> /\ row.state \in ENROLLABLE_STATES
      /\ proc \in [Procs -> Proc] /\ i # 0
      /\ row.nonce = "live" \/ row.err = "enroll_tunnel_pending"
  <2>1. i # 0
    BY Bounds DEF Epochs
  <2> QED BY <2>1 DEF Enroll, rowVars, world, Inv2, Inv1, TypeOK
<1>2. proc' = [proc EXCEPT ![p] =
                [Idle EXCEPT !.pc = IF row.nonce = "live" THEN "consume"
                                    ELSE "tunnel",
                             !.goal = "enroll", !.snap = row, !.host = i,
                             !.kind = IF row.nonce = "live" THEN "fresh"
                                      ELSE "pending"]]
  BY DEF Enroll
<1>3. /\ proc'[p].pc = (IF row.nonce = "live" THEN "consume" ELSE "tunnel")
      /\ proc'[p].snap = row /\ proc'[p].host = i
      /\ \A q \in Procs : q # p => proc'[q] = proc[q]
  BY <1>1, <1>2 DEF Idle
<1>4. row.nonce # "live" => row.inst # 0
  BY <1>1 DEF SessInv, RowSess, ENROLLABLE_STATES, Boots, Booting
<1>5. Resumes(proc'[p]) /\ ~UpUndo(proc'[p]) /\ ~RestUndo(proc'[p])
  BY <1>1, <1>3, <1>4 DEF Resumes, ReadSess, UpUndo, RestUndo
<1> QED BY <1>1, <1>3, <1>5, MoveSess

-----------------------------------------------------------------------------
(* Every step keeps the session.                                           *)

\* The steps of an invocation.
LEMMA InvocationSess ==
    ASSUME Inv2, Inv1', SessInv, NEW p \in Procs, Handle(p) \/ Crash(p)
    PROVE  SessInv'
<1>1. Swapless(p) \/ Swaps(p)
  BY HandleIs
<1>2. CASE Swapless(p)
  BY <1>2, QuietSess, FencesSess, StartSess, BeginSess, AnswerSess DEF Swapless
<1>3. CASE Swaps(p)
  BY <1>3, MountedSess, FailedSess, EndsSess, BootedSess, SettleSess, GenerationSess,
     StartedSess, MarkSess, RefusedSess, RefusedBootSess, StopSess, LostSess, LeaseSess,
     RetireSess, RecoveringSess, RecoveringRetireSess, ConsumeSess, FinishSess
     DEF Swaps
<1> QED BY <1>1, <1>2, <1>3

\* Every step keeps what the session says of the row, its jobs and the
\* invocations.
LEMMA NextSess ==
    ASSUME Inv2, SessInv, [Next]_vars
    PROVE  SessInv'
<1>0. Inv1'
  BY NextKeeps DEF Inv2
<1>1. ASSUME NEW p \in Procs, Handle(p) \/ Crash(p)
      PROVE  SessInv'
  BY <1>0, <1>1, InvocationSess
<1>2. ASSUME NEW p \in Procs, NEW goal \in Goal, Begin(p, goal)
      PROVE  SessInv'
  BY <1>2, BeginSess
<1>3. ASSUME NEW p \in Hosts, NEW i \in Epochs, Enroll(p, i)
      PROVE  SessInv'
  BY <1>3, EnrollSess DEF Procs
<1>4. CASE (\E j \in Jobs : Workflow(j)) \/ LateStartExecution
  BY <1>4, WorkflowSess, StartSess
<1>5. CASE UNCHANGED vars
  <2>1. PICK p : p \notin Procs
    BY NoSetContainsEverything
  <2>2. UNCHANGED <<row, exec, usage, inst, vol, tunnel, proc>>
    BY <1>5 DEF vars
  <2> QED BY <2>1, <2>2, MoveSess
<1>6. CASE Next
  <2>1. CASE \E p \in Users, goal \in {"open", "stop", "delete"} : Begin(p, goal)
    BY <1>2, <2>1 DEF Procs, Goal
  <2>2. CASE \E p \in Crons, goal \in {"fleet", "deleted"} : Begin(p, goal)
    BY <1>2, <2>2 DEF Procs, Goal
  <2>3. CASE Age \/ Expire \/ \E i \in Epochs : GuestShutdown(i) \/ InstanceLost(i)
    BY <2>3, WorldStepSess
  <2> QED BY <1>1, <1>3, <1>4, <1>6, <2>1, <2>2, <2>3 DEF Next
<1> QED BY <1>5, <1>6

\* A born computer that runs has its tunnel, its volume and its meter.
LEMMA InitSess == Init => SessInv
<1> SUFFICES ASSUME Init PROVE SessInv
  OBVIOUS
<1>1. PICK state \in Born :
        /\ row = BornRow(state)
        /\ usage = (IF state = "RUNNING" THEN {1} ELSE {})
        /\ exec = [j \in Jobs |-> NoExec]
        /\ vol = [at |-> IF state = "NONE" THEN 0 ELSE 1,
                  fence |-> IF state = "NONE" THEN 0 ELSE 1]
        /\ tunnel = [rec |-> IF state = "RUNNING" THEN 1 ELSE 0,
                     fence |-> IF state = "RUNNING" THEN 0
                               ELSE IF state = "NONE" THEN 0 ELSE 1]
        /\ proc = [p \in Procs |-> Idle]
  BY DEF Init
<1>2. state \in {"NONE", "STOPPED", "RUNNING"}
  BY ConfigAssumption
<1>3. /\ row.state = state /\ row.err \in {"none", "enroll_succeeded"}
      /\ state = "RUNNING" => row.epoch = 1 /\ row.inst = 1 /\ row.fence = 1
  BY <1>1, <1>2 DEF BornRow, NoRow
<1>4. \A p \in Procs : proc[p].pc = "idle"
  BY <1>1 DEF Idle
<1>5. \A p \in Procs : ~Returns(proc[p]) /\ ReadSess(proc[p]) /\ ProcSess(proc[p])
  BY <1>4 DEF Returns, UpUndo, RestUndo, ReadSess, ProcSess
<1>6. \A j \in Jobs : JobSess(j)
  BY <1>1 DEF JobSess, NoExec, BootOf, BootOps, EndOps
<1>7. ~MayRun /\ (Up => state = "RUNNING") /\ row.state \notin Boots
  BY <1>2, <1>3, <1>5 DEF MayRun, Up, Runs, Boots, Booting
<1>8. state = "RUNNING" => Ready /\ Owns
  BY <1>1, <1>3 DEF Ready, Reach, Owns, Held
<1>9. RowSess
  BY <1>3, <1>5, <1>7, <1>8 DEF RowSess, Boots
<1>10. OneReturns
  BY <1>5 DEF OneReturns
<1> QED BY <1>5, <1>6, <1>9, <1>10 DEF SessInv

\* While AWS never refuses a start it has accepted, a computer that runs or may
\* be shown RUNNING again keeps its tunnel, its volume and its meter, and the
\* jobs and the invocations agree with it as SessInv says, whatever interleaves,
\* fails, is lost or dies.
THEOREM SessionInductive ==
    ASSUME FlakyRefusal = FALSE
    PROVE  Spec => []SessInv
<1>1. Inv2 /\ SessInv /\ [Next]_vars => SessInv'
  BY NextSess
<1> QED BY <1>1, InitSess, RestInductive, PTL DEF Spec

\* A computer shown RUNNING has the tunnel of its lease at the Worker, not
\* fenced, unless EC2 has lost its instance: no delayed removal of an earlier
\* lease, no enrollment that was answered twice and no undo of a retire leaves
\* it unreachable.
THEOREM RunningReachable ==
    ASSUME FlakyRefusal = FALSE
    PROVE  Spec => []RunningIsReachable
<1>1. SessInv => RunningIsReachable
  BY DEF SessInv, RowSess, Up, Runs, Ended, Ready, Reach, RunningIsReachable
<1> QED BY <1>1, SessionInductive, PTL

\* A computer shown RUNNING holds its data volume under its own fence token, and
\* its instance is the one that is metered, whichever boot, late receipt or undo
\* of a retire brought it there.
THEOREM RunningOwns ==
    ASSUME FlakyRefusal = FALSE
    PROVE  Spec => []RunningOwnsVolume
<1>1. SessInv => RunningOwnsVolume
  BY DEF SessInv, RowSess, Up, Runs, Ended, Owns, Held, RunningOwnsVolume
<1> QED BY <1>1, SessionInductive, PTL
=============================================================================
