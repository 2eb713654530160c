------------------------ MODULE TunnelRegistryProofs ------------------------
(***************************************************************************)
(* The registry's invariants and its promise, for every set of epochs.     *)
(*                                                                         *)
(* None of the invariants is inductive alone.  IInv adds where an          *)
(* operation can be (OpOK), that a stored record leaves no marker of       *)
(* another epoch behind (MarkerOK), and that an answered removal is covered *)
(* by the fence or by a newer record (AckedOK), which is what keeps a late *)
(* create from bringing a removed epoch back.                              *)
(***************************************************************************)
EXTENDS TunnelRegistry, TLAPS

Destroying == {"dns", "tunnel", "record"}
Cleaning == {"pendingDns", "pendingTunnel", "forget"}
Creating == {"prior", "put", "ensure", "legs", "store"}

\* Where an operation can be, and what it has done by then.
OpOK ==
    /\ op.pc = "idle" <=> op = Idle
    /\ op.pc # "idle" => op.kind # "none" /\ op.epoch \in Epochs
    /\ op.kind = "verify" => op.pc \in Destroying \cup {"fence"}
    /\ op.kind = "create" =>
         /\ op.epoch > fence /\ op.epoch > acked
         /\ op.pc # "done" => op.epoch > record
    /\ op.kind = "remove" =>
         /\ op.pc \in Destroying \cup Cleaning \cup {"fence"}
         /\ record <= op.epoch
         /\ op.pc # "fence" => op.epoch <= fence
    /\ op.pc = "fence" => op.kind = "remove" \/ record # 0
    /\ op.pc \in Destroying => record # 0 /\ record <= fence
    /\ op.pc \in Cleaning =>
         record = 0 /\ pending # 0 /\ pending <= op.epoch
    /\ op.pc \in Creating => op.kind = "create" /\ record = 0
    /\ op.pc = "put" => pending \in {0, op.epoch}
    /\ op.pc \in {"ensure", "legs", "store", "done"} => pending = op.epoch
    /\ op.pc = "done" => op.kind = "create" /\ record = op.epoch

\* What is at Cloudflare at each step.
CloudOK ==
    /\ op.pc = "tunnel" => record \notin cnames
    /\ op.pc = "record" => record \notin cnames /\ record \notin tunnels
    /\ op.pc = "pendingTunnel" => pending \notin cnames
    /\ op.pc = "forget" => pending \notin cnames /\ pending \notin tunnels
    /\ op.pc = "legs" => op.epoch \in tunnels /\ writes \subseteq {op.epoch}
    /\ op.pc # "legs" => writes = {}

MarkerOK == record # 0 => pending \in {0, record}

AckedOK ==
    /\ acked <= fence \/ acked < record
    /\ record # 0 => record > acked
    /\ pending # 0 => pending > acked

IInv ==
    /\ TypeOK /\ OpOK /\ CloudOK /\ MarkerOK /\ AckedOK
    /\ NoOrphan /\ NoDanglingName

-----------------------------------------------------------------------------
(* The operation that is running stays an operation.                       *)

\* An empty queue is an operation record.
LEMMA IdleIsOp == Idle \in Op
BY DEF Idle, Op, Kind, Pc, Zero

\* A request that is taken up is an operation record.
LEMMA RequestIsOp ==
    ASSUME NEW kind \in Kind, NEW e \in Zero, NEW pc \in Pc
    PROVE  [kind |-> kind, epoch |-> e, pc |-> pc, failed |-> FALSE] \in Op
BY DEF Op

\* So is an operation that goes on to its next await.
LEMMA GotoIsOp ==
    ASSUME op \in Op, NEW pc \in Pc
    PROVE  [op EXCEPT !.pc = pc] \in Op
BY DEF Op

\* So is a create one of whose legs was rejected.
LEMMA FailedIsOp ==
    ASSUME op \in Op
    PROVE  [op EXCEPT !.failed = TRUE] \in Op
BY DEF Op

\* The higher of two stored epochs, as fenceThrough writes it, is one of them.
LEMMA HigherIsZero ==
    ASSUME NEW a \in Zero, NEW b \in Zero
    PROVE  Higher(a, b) \in Zero
BY DEF Higher

-----------------------------------------------------------------------------
(* Each lemma is the preservation of IInv by the steps of one phase.       *)

\* The idle queue takes up a create or a removal.
LEMMA RequestsPreserve ==
    ASSUME IInv, NEW e \in Epochs, create(e) \/ remove(e)
    PROVE  IInv'
<1> USE EpochsAssumption DEF Goto, Take, storage, cloudflare
<1>1. CASE create(e)
  <2>1. TypeOK'
    BY <1>1, RequestIsOp DEF IInv, TypeOK, OpOK, Zero, Pc, Kind, create
  <2>2. OpOK'
    BY <1>1 DEF IInv, TypeOK, OpOK, AckedOK, Op, Zero, Idle, Higher, create,
       Destroying, Cleaning, Creating
  <2>3. CloudOK' /\ NoOrphan' /\ NoDanglingName'
    BY <1>1 DEF IInv, TypeOK, OpOK, CloudOK, MarkerOK, NoOrphan,
       NoDanglingName, Resources, Op, Zero, Idle, Higher, create, Destroying,
       Cleaning, Creating
  <2>4. MarkerOK' /\ AckedOK'
    BY <1>1 DEF IInv, TypeOK, OpOK, MarkerOK, AckedOK, Op, Zero, Idle, Higher,
       create, Destroying, Cleaning, Creating
  <2> QED BY <2>1, <2>2, <2>3, <2>4 DEF IInv
<1>2. CASE remove(e)
  <2>1. TypeOK'
    BY <1>2, RequestIsOp, HigherIsZero DEF IInv, TypeOK, OpOK, Zero, Pc, Kind,
       remove
  <2>2. OpOK'
    BY <1>2 DEF IInv, TypeOK, OpOK, AckedOK, Op, Zero, Idle, Higher, remove,
       Destroying, Cleaning, Creating
  <2>3. CloudOK' /\ NoOrphan' /\ NoDanglingName'
    BY <1>2 DEF IInv, TypeOK, OpOK, CloudOK, MarkerOK, NoOrphan,
       NoDanglingName, Resources, Op, Zero, Idle, Higher, remove, Destroying,
       Cleaning, Creating
  <2>4. MarkerOK' /\ AckedOK'
    BY <1>2 DEF IInv, TypeOK, OpOK, MarkerOK, AckedOK, Op, Zero, Idle, Higher,
       remove, Destroying, Cleaning, Creating
  <2> QED BY <2>1, <2>2, <2>3, <2>4 DEF IInv
<1> QED BY <1>1, <1>2

\* The idle queue takes up a check of the origin.
LEMMA VerifyPreserves ==
    ASSUME IInv, verifyOrigin
    PROVE  IInv'
<1> USE EpochsAssumption DEF Goto, Take, storage, cloudflare
<1>1. CASE verifyOrigin
  <2>1. TypeOK'
    BY <1>1, RequestIsOp DEF IInv, TypeOK, OpOK, Zero, Pc, Kind, verifyOrigin,
       liveRecord
  <2>2. OpOK'
    BY <1>1 DEF IInv, TypeOK, OpOK, AckedOK, Op, Zero, Idle, Higher,
       verifyOrigin, liveRecord, Destroying, Cleaning, Creating
  <2>3. CloudOK' /\ NoOrphan' /\ NoDanglingName'
    BY <1>1 DEF IInv, TypeOK, OpOK, CloudOK, MarkerOK, NoOrphan,
       NoDanglingName, Resources, Op, Zero, Idle, Higher, verifyOrigin,
       liveRecord, Destroying, Cleaning, Creating
  <2>4. MarkerOK' /\ AckedOK'
    BY <1>1 DEF IInv, TypeOK, OpOK, MarkerOK, AckedOK, Op, Zero, Idle, Higher,
       verifyOrigin, liveRecord, Destroying, Cleaning, Creating
  <2> QED BY <2>1, <2>2, <2>3, <2>4 DEF IInv
<1> QED BY <1>1

\* destroy: fence, CNAME, tunnel, record, for a create, a removal or a mismatch.
LEMMA DestroyPreserves ==
    ASSUME IInv, fenceThrough \/ destroyDns \/ destroyTunnel \/ destroyRecord
    PROVE  IInv'
<1> USE EpochsAssumption DEF Goto, Take, storage, cloudflare
<1>1. CASE fenceThrough
  <2>1. TypeOK'
    BY <1>1, IdleIsOp, GotoIsOp, HigherIsZero DEF IInv, TypeOK, OpOK, Zero,
       Pc, fenceThrough, CleanOrAnswer, cleanable
  <2>2. OpOK'
    BY <1>1 DEF IInv, TypeOK, OpOK, AckedOK, Op, Zero, Idle, Higher,
       fenceThrough, CleanOrAnswer, cleanable, Destroying, Cleaning, Creating
  <2>3. CloudOK' /\ NoOrphan' /\ NoDanglingName'
    BY <1>1 DEF IInv, TypeOK, OpOK, CloudOK, MarkerOK, NoOrphan,
       NoDanglingName, Resources, Op, Zero, Idle, Higher, fenceThrough,
       CleanOrAnswer, cleanable, Destroying, Cleaning, Creating
  <2>4. MarkerOK' /\ AckedOK'
    BY <1>1 DEF IInv, TypeOK, OpOK, MarkerOK, AckedOK, Op, Zero, Idle, Higher,
       fenceThrough, CleanOrAnswer, cleanable, Destroying, Cleaning, Creating
  <2> QED BY <2>1, <2>2, <2>3, <2>4 DEF IInv
<1>2. CASE destroyDns
  <2>1. TypeOK'
    BY <1>2, GotoIsOp DEF IInv, TypeOK, OpOK, Zero, Pc, destroyDns
  <2>2. OpOK'
    BY <1>2 DEF IInv, TypeOK, OpOK, AckedOK, Op, Zero, Idle, Higher,
       destroyDns, Destroying, Cleaning, Creating
  <2>3. CloudOK' /\ NoOrphan' /\ NoDanglingName'
    BY <1>2 DEF IInv, TypeOK, OpOK, CloudOK, MarkerOK, NoOrphan,
       NoDanglingName, Resources, Op, Zero, Idle, Higher, destroyDns,
       Destroying, Cleaning, Creating
  <2>4. MarkerOK' /\ AckedOK'
    BY <1>2 DEF IInv, TypeOK, OpOK, MarkerOK, AckedOK, Op, Zero, Idle, Higher,
       destroyDns, Destroying, Cleaning, Creating
  <2> QED BY <2>1, <2>2, <2>3, <2>4 DEF IInv
<1>3. CASE destroyTunnel
  <2>1. TypeOK'
    BY <1>3, GotoIsOp DEF IInv, TypeOK, OpOK, Zero, Pc, destroyTunnel
  <2>2. OpOK'
    BY <1>3 DEF IInv, TypeOK, OpOK, AckedOK, Op, Zero, Idle, Higher,
       destroyTunnel, Destroying, Cleaning, Creating
  <2>3. CloudOK' /\ NoOrphan' /\ NoDanglingName'
    BY <1>3 DEF IInv, TypeOK, OpOK, CloudOK, MarkerOK, NoOrphan,
       NoDanglingName, Resources, Op, Zero, Idle, Higher, destroyTunnel,
       Destroying, Cleaning, Creating
  <2>4. MarkerOK' /\ AckedOK'
    BY <1>3 DEF IInv, TypeOK, OpOK, MarkerOK, AckedOK, Op, Zero, Idle, Higher,
       destroyTunnel, Destroying, Cleaning, Creating
  <2> QED BY <2>1, <2>2, <2>3, <2>4 DEF IInv
<1>4. CASE destroyRecord
  <2>1. TypeOK'
    BY <1>4, IdleIsOp, GotoIsOp, HigherIsZero DEF IInv, TypeOK, OpOK, Zero,
       Pc, destroyRecord, CleanOrAnswer, cleanable
  <2>2. OpOK'
    BY <1>4 DEF IInv, TypeOK, OpOK, AckedOK, Op, Zero, Idle, Higher,
       destroyRecord, CleanOrAnswer, cleanable, Destroying, Cleaning, Creating
  <2>3. CloudOK' /\ NoOrphan' /\ NoDanglingName'
    BY <1>4 DEF IInv, TypeOK, OpOK, CloudOK, MarkerOK, NoOrphan,
       NoDanglingName, Resources, Op, Zero, Idle, Higher, destroyRecord,
       CleanOrAnswer, cleanable, Destroying, Cleaning, Creating
  <2>4. MarkerOK' /\ AckedOK'
    BY <1>4 DEF IInv, TypeOK, OpOK, MarkerOK, AckedOK, Op, Zero, Idle, Higher,
       destroyRecord, CleanOrAnswer, cleanable, Destroying, Cleaning, Creating
  <2> QED BY <2>1, <2>2, <2>3, <2>4 DEF IInv
<1> QED BY <1>1, <1>2, <1>3, <1>4

\* cleanupPending and the look at the prior marker.
LEMMA CleanupPreserves ==
    ASSUME IInv, priorPending \/ cleanupDns \/ cleanupTunnel \/ forgetPending
    PROVE  IInv'
<1> USE EpochsAssumption DEF Goto, Take, storage, cloudflare
<1>1. CASE priorPending
  <2>1. TypeOK'
    BY <1>1, IdleIsOp, GotoIsOp DEF IInv, TypeOK, OpOK, Zero, Pc, priorPending
  <2>2. OpOK'
    BY <1>1 DEF IInv, TypeOK, OpOK, AckedOK, Op, Zero, Idle, Higher,
       priorPending, Destroying, Cleaning, Creating
  <2>3. CloudOK' /\ NoOrphan' /\ NoDanglingName'
    BY <1>1 DEF IInv, TypeOK, OpOK, CloudOK, MarkerOK, NoOrphan,
       NoDanglingName, Resources, Op, Zero, Idle, Higher, priorPending,
       Destroying, Cleaning, Creating
  <2>4. MarkerOK' /\ AckedOK'
    BY <1>1 DEF IInv, TypeOK, OpOK, MarkerOK, AckedOK, Op, Zero, Idle, Higher,
       priorPending, Destroying, Cleaning, Creating
  <2> QED BY <2>1, <2>2, <2>3, <2>4 DEF IInv
<1>2. CASE cleanupDns
  <2>1. TypeOK'
    BY <1>2, GotoIsOp DEF IInv, TypeOK, OpOK, Zero, Pc, cleanupDns
  <2>2. OpOK'
    BY <1>2 DEF IInv, TypeOK, OpOK, AckedOK, Op, Zero, Idle, Higher,
       cleanupDns, Destroying, Cleaning, Creating
  <2>3. CloudOK' /\ NoOrphan' /\ NoDanglingName'
    BY <1>2 DEF IInv, TypeOK, OpOK, CloudOK, MarkerOK, NoOrphan,
       NoDanglingName, Resources, Op, Zero, Idle, Higher, cleanupDns,
       Destroying, Cleaning, Creating
  <2>4. MarkerOK' /\ AckedOK'
    BY <1>2 DEF IInv, TypeOK, OpOK, MarkerOK, AckedOK, Op, Zero, Idle, Higher,
       cleanupDns, Destroying, Cleaning, Creating
  <2> QED BY <2>1, <2>2, <2>3, <2>4 DEF IInv
<1>3. CASE cleanupTunnel
  <2>1. TypeOK'
    BY <1>3, GotoIsOp DEF IInv, TypeOK, OpOK, Zero, Pc, cleanupTunnel
  <2>2. OpOK'
    BY <1>3 DEF IInv, TypeOK, OpOK, AckedOK, Op, Zero, Idle, Higher,
       cleanupTunnel, Destroying, Cleaning, Creating
  <2>3. CloudOK' /\ NoOrphan' /\ NoDanglingName'
    BY <1>3 DEF IInv, TypeOK, OpOK, CloudOK, MarkerOK, NoOrphan,
       NoDanglingName, Resources, Op, Zero, Idle, Higher, cleanupTunnel,
       Destroying, Cleaning, Creating
  <2>4. MarkerOK' /\ AckedOK'
    BY <1>3 DEF IInv, TypeOK, OpOK, MarkerOK, AckedOK, Op, Zero, Idle, Higher,
       cleanupTunnel, Destroying, Cleaning, Creating
  <2> QED BY <2>1, <2>2, <2>3, <2>4 DEF IInv
<1>4. CASE forgetPending
  <2>1. TypeOK'
    BY <1>4, IdleIsOp, GotoIsOp, HigherIsZero DEF IInv, TypeOK, OpOK, Zero,
       Pc, forgetPending
  <2>2. OpOK'
    BY <1>4 DEF IInv, TypeOK, OpOK, AckedOK, Op, Zero, Idle, Higher,
       forgetPending, Destroying, Cleaning, Creating
  <2>3. CloudOK' /\ NoOrphan' /\ NoDanglingName'
    BY <1>4 DEF IInv, TypeOK, OpOK, CloudOK, MarkerOK, NoOrphan,
       NoDanglingName, Resources, Op, Zero, Idle, Higher, forgetPending,
       Destroying, Cleaning, Creating
  <2>4. MarkerOK' /\ AckedOK'
    <3>1. op.pc = "forget" /\ op.kind \in {"create", "remove"} /\ record = 0
      BY <1>4 DEF IInv, TypeOK, OpOK, Op, Kind, Idle, forgetPending, Destroying,
         Cleaning
    <3>2. acked <= fence /\ fence \in Nat /\ acked \in Nat
      BY <3>1 DEF IInv, TypeOK, AckedOK, Zero
    <3>3. op.epoch \in Nat /\ (op.kind = "remove" => op.epoch <= fence)
      BY <3>1 DEF IInv, OpOK
    <3>4. /\ pending' = 0 /\ record' = 0 /\ fence' = fence
          /\ acked' = acked \/ (op.kind = "remove" /\ acked' = Higher(acked, op.epoch))
      BY <1>4, <3>1 DEF forgetPending
    <3> QED BY <3>2, <3>3, <3>4 DEF MarkerOK, AckedOK, Higher
  <2> QED BY <2>1, <2>2, <2>3, <2>4 DEF IInv
<1> QED BY <1>1, <1>2, <1>3, <1>4

\* create from its marker to its record, and its failures.
LEMMA CreatePreserves ==
    ASSUME IInv, putPending \/ ensureTunnel \/ legRejected \/ legsSettled
                 \/ storeRecord \/ created \/ Abort
    PROVE  IInv'
<1> USE EpochsAssumption DEF Goto, Take, storage, cloudflare
<1>1. CASE putPending
  <2>1. TypeOK'
    BY <1>1, GotoIsOp DEF IInv, TypeOK, OpOK, Zero, Pc, putPending
  <2>2. OpOK'
    BY <1>1 DEF IInv, TypeOK, OpOK, AckedOK, Op, Zero, Idle, Higher,
       putPending, Destroying, Cleaning, Creating
  <2>3. CloudOK' /\ NoOrphan' /\ NoDanglingName'
    BY <1>1 DEF IInv, TypeOK, OpOK, CloudOK, MarkerOK, NoOrphan,
       NoDanglingName, Resources, Op, Zero, Idle, Higher, putPending,
       Destroying, Cleaning, Creating
  <2>4. MarkerOK' /\ AckedOK'
    BY <1>1 DEF IInv, TypeOK, OpOK, MarkerOK, AckedOK, Op, Zero, Idle, Higher,
       putPending, Destroying, Cleaning, Creating
  <2> QED BY <2>1, <2>2, <2>3, <2>4 DEF IInv
<1>2. CASE ensureTunnel
  <2>1. TypeOK'
    BY <1>2, GotoIsOp DEF IInv, TypeOK, OpOK, Zero, Pc, ensureTunnel
  <2>2. OpOK'
    BY <1>2 DEF IInv, TypeOK, OpOK, AckedOK, Op, Zero, Idle, Higher,
       ensureTunnel, Destroying, Cleaning, Creating
  <2>3. CloudOK' /\ NoOrphan' /\ NoDanglingName'
    BY <1>2 DEF IInv, TypeOK, OpOK, CloudOK, MarkerOK, NoOrphan,
       NoDanglingName, Resources, Op, Zero, Idle, Higher, ensureTunnel,
       Destroying, Cleaning, Creating
  <2>4. MarkerOK' /\ AckedOK'
    BY <1>2 DEF IInv, TypeOK, OpOK, MarkerOK, AckedOK, Op, Zero, Idle, Higher,
       ensureTunnel, Destroying, Cleaning, Creating
  <2> QED BY <2>1, <2>2, <2>3, <2>4 DEF IInv
<1>3. CASE legRejected
  <2>1. TypeOK'
    BY <1>3, FailedIsOp DEF IInv, TypeOK, OpOK, Zero, legRejected
  <2>2. OpOK'
    BY <1>3 DEF IInv, TypeOK, OpOK, AckedOK, Op, Zero, Idle, Higher,
       legRejected, Destroying, Cleaning, Creating
  <2>3. CloudOK' /\ NoOrphan' /\ NoDanglingName'
    BY <1>3 DEF IInv, TypeOK, OpOK, CloudOK, MarkerOK, NoOrphan,
       NoDanglingName, Resources, Op, Zero, Idle, Higher, legRejected,
       Destroying, Cleaning, Creating
  <2>4. MarkerOK' /\ AckedOK'
    BY <1>3 DEF IInv, TypeOK, OpOK, MarkerOK, AckedOK, Op, Zero, Idle, Higher,
       legRejected, Destroying, Cleaning, Creating
  <2> QED BY <2>1, <2>2, <2>3, <2>4 DEF IInv
<1>4. CASE legsSettled
  <2>1. TypeOK'
    BY <1>4, IdleIsOp, GotoIsOp DEF IInv, TypeOK, OpOK, Zero, Pc, legsSettled
  <2>2. OpOK'
    BY <1>4 DEF IInv, TypeOK, OpOK, AckedOK, Op, Zero, Idle, Higher,
       legsSettled, Destroying, Cleaning, Creating
  <2>3. CloudOK' /\ NoOrphan' /\ NoDanglingName'
    BY <1>4 DEF IInv, TypeOK, OpOK, CloudOK, MarkerOK, NoOrphan,
       NoDanglingName, Resources, Op, Zero, Idle, Higher, legsSettled,
       Destroying, Cleaning, Creating
  <2>4. MarkerOK' /\ AckedOK'
    BY <1>4 DEF IInv, TypeOK, OpOK, MarkerOK, AckedOK, Op, Zero, Idle, Higher,
       legsSettled, Destroying, Cleaning, Creating
  <2> QED BY <2>1, <2>2, <2>3, <2>4 DEF IInv
<1>5. CASE storeRecord
  <2>1. TypeOK'
    BY <1>5, GotoIsOp DEF IInv, TypeOK, OpOK, Zero, Pc, storeRecord
  <2>2. OpOK'
    BY <1>5 DEF IInv, TypeOK, OpOK, AckedOK, Op, Zero, Idle, Higher,
       storeRecord, Destroying, Cleaning, Creating
  <2>3. CloudOK' /\ NoOrphan' /\ NoDanglingName'
    BY <1>5 DEF IInv, TypeOK, OpOK, CloudOK, MarkerOK, NoOrphan,
       NoDanglingName, Resources, Op, Zero, Idle, Higher, storeRecord,
       Destroying, Cleaning, Creating
  <2>4. MarkerOK' /\ AckedOK'
    BY <1>5 DEF IInv, TypeOK, OpOK, MarkerOK, AckedOK, Op, Zero, Idle, Higher,
       storeRecord, Destroying, Cleaning, Creating
  <2> QED BY <2>1, <2>2, <2>3, <2>4 DEF IInv
<1>6. CASE created
  <2>1. TypeOK'
    BY <1>6, IdleIsOp DEF IInv, TypeOK, OpOK, Zero, created
  <2>2. OpOK'
    BY <1>6 DEF IInv, TypeOK, OpOK, AckedOK, Op, Zero, Idle, Higher, created,
       Destroying, Cleaning, Creating
  <2>3. CloudOK' /\ NoOrphan' /\ NoDanglingName'
    BY <1>6 DEF IInv, TypeOK, OpOK, CloudOK, MarkerOK, NoOrphan,
       NoDanglingName, Resources, Op, Zero, Idle, Higher, created, Destroying,
       Cleaning, Creating
  <2>4. MarkerOK' /\ AckedOK'
    BY <1>6 DEF IInv, TypeOK, OpOK, MarkerOK, AckedOK, Op, Zero, Idle, Higher,
       created, Destroying, Cleaning, Creating
  <2> QED BY <2>1, <2>2, <2>3, <2>4 DEF IInv
<1>7. CASE Abort
  <2>1. TypeOK'
    BY <1>7, IdleIsOp DEF IInv, TypeOK, OpOK, Zero, Abort
  <2>2. OpOK'
    BY <1>7 DEF IInv, TypeOK, OpOK, AckedOK, Op, Zero, Idle, Higher, Abort,
       Destroying, Cleaning, Creating
  <2>3. CloudOK' /\ NoOrphan' /\ NoDanglingName'
    BY <1>7 DEF IInv, TypeOK, OpOK, CloudOK, MarkerOK, NoOrphan,
       NoDanglingName, Resources, Op, Zero, Idle, Higher, Abort, Destroying,
       Cleaning, Creating
  <2>4. MarkerOK' /\ AckedOK'
    BY <1>7 DEF IInv, TypeOK, OpOK, MarkerOK, AckedOK, Op, Zero, Idle, Higher,
       Abort, Destroying, Cleaning, Creating
  <2> QED BY <2>1, <2>2, <2>3, <2>4 DEF IInv
<1> QED BY <1>1, <1>2, <1>3, <1>4, <1>5, <1>6, <1>7

\* The CNAME leg settles while its create waits for it.
LEMMA LegPreserves ==
    ASSUME IInv, NEW e \in Epochs, ensureDns(e)
    PROVE  IInv'
<1> USE EpochsAssumption DEF storage
<1>1. op.pc = "legs" /\ e = op.epoch
  BY DEF IInv, CloudOK, ensureDns
<1>2. TypeOK'
  BY FailedIsOp DEF IInv, TypeOK, ensureDns
<1>3. OpOK'
  BY <1>1 DEF IInv, TypeOK, OpOK, Op, Zero, Idle, ensureDns, Destroying,
     Cleaning, Creating
<1>4. CloudOK' /\ NoOrphan' /\ NoDanglingName'
  BY <1>1 DEF IInv, TypeOK, OpOK, CloudOK, NoOrphan, NoDanglingName,
     Resources, Op, Zero, Idle, ensureDns
<1>5. MarkerOK' /\ AckedOK'
  BY DEF IInv, MarkerOK, AckedOK, ensureDns
<1> QED BY <1>2, <1>3, <1>4, <1>5 DEF IInv

\* IInv is an invariant of the registry: serial operations that fail, lose
\* answers and are evicted anywhere keep it.
THEOREM Inductive == Spec => []IInv
<1>1. Init => IInv
  <2> SUFFICES ASSUME Init PROVE IInv
    OBVIOUS
  <2>1. TypeOK
    BY IdleIsOp DEF Init, TypeOK, Zero
  <2>2. OpOK /\ CloudOK
    BY DEF Init, OpOK, CloudOK, Idle, Destroying, Cleaning, Creating
  <2>3. MarkerOK /\ AckedOK /\ NoOrphan /\ NoDanglingName
    BY DEF Init, MarkerOK, AckedOK, NoOrphan, NoDanglingName, Resources
  <2> QED BY <2>1, <2>2, <2>3 DEF IInv
<1>2. IInv /\ [Next]_vars => IInv'
  <2> SUFFICES ASSUME IInv, [Next]_vars PROVE IInv'
    OBVIOUS
  <2>1. ASSUME NEW e \in Epochs, create(e) \/ remove(e) PROVE IInv'
    BY <2>1, RequestsPreserve
  <2>2. CASE verifyOrigin
    BY <2>2, VerifyPreserves
  <2>3. ASSUME NEW e \in Epochs, ensureDns(e) PROVE IInv'
    BY <2>3, LegPreserves
  <2>4. CASE fenceThrough \/ destroyDns \/ destroyTunnel \/ destroyRecord
    BY <2>4, DestroyPreserves
  <2>5. CASE priorPending \/ cleanupDns \/ cleanupTunnel \/ forgetPending
    BY <2>5, CleanupPreserves
  <2>6. CASE putPending \/ ensureTunnel \/ legRejected \/ legsSettled
             \/ storeRecord \/ created \/ Abort
    BY <2>6, CreatePreserves
  <2>7. CASE UNCHANGED vars
    BY <2>7 DEF vars, IInv, TypeOK, OpOK, CloudOK, MarkerOK, AckedOK, NoOrphan,
       NoDanglingName, Resources
  <2> QED BY <2>1, <2>2, <2>3, <2>4, <2>5, <2>6, <2>7 DEF Next, Step
<1> QED BY <1>1, <1>2, PTL DEF Spec

\* The type invariant of the registry's storage, of Cloudflare and of the queue.
THEOREM TypeCorrect == Spec => []TypeOK
<1>1. IInv => TypeOK
  BY DEF IInv
<1> QED BY <1>1, Inductive, PTL

\* Nothing a create left at Cloudflare is forgotten, for every set of epochs.
THEOREM NothingOrphaned == Spec => []NoOrphan
<1>1. IInv => NoOrphan
  BY DEF IInv
<1> QED BY <1>1, Inductive, PTL

\* Fence first: two epochs of one computer never exist at Cloudflare together.
THEOREM EpochsDoNotOverlap == Spec => []OneEpochExists
<1>1. IInv => OneEpochExists
  BY EpochsAssumption
     DEF IInv, TypeOK, NoOrphan, MarkerOK, OneEpochExists, Resources
<1> QED BY <1>1, Inductive, PTL

\* destroy and cleanupPending delete the CNAME before its tunnel.
THEOREM NamesResolve == Spec => []NoDanglingName
<1>1. IInv => NoDanglingName
  BY DEF IInv
<1> QED BY <1>1, Inductive, PTL

\* An answered removal is final, whatever creates and retries follow it.
THEOREM RemovalsAreFinal == Spec => []RemovalIsFinal
<1>1. IInv => RemovalIsFinal
  BY EpochsAssumption
     DEF IInv, TypeOK, NoOrphan, AckedOK, RemovalIsFinal, Resources, Zero
<1> QED BY <1>1, Inductive, PTL

-----------------------------------------------------------------------------
(* The refinement of EpochFence: fenceThrough is a Cut, storeRecord a      *)
(* Serve, every other step leaves the live record and the fence alone.     *)

\* Every step of the registry is a step of EpochFence, or leaves it as it is.
LEMMA StepsRefine ==
    ASSUME IInv, [Next]_vars
    PROVE  [Promise!Next]_<<liveRecord, fence>>
<1> USE EpochsAssumption DEF Zero, Idle, liveRecord
<1>1. CASE fenceThrough
  <2> DEFINE e == IF op.kind = "remove" THEN op.epoch ELSE record
  <2>1. e \in Epochs /\ record <= e
    BY <1>1 DEF IInv, TypeOK, OpOK, fenceThrough
  <2>2. fence' = Higher(fence, e) /\ record' = record
    BY <1>1 DEF fenceThrough
  <2> HIDE DEF e
  <2>3. CASE e > fence
    <3>1. Promise!Cut(e)
      BY <2>1, <2>2, <2>3 DEF Promise!Cut, Higher, IInv, TypeOK
    <3> QED BY <3>1, <2>1 DEF Promise!Next
  <2>4. CASE ~(e > fence)
    BY <2>1, <2>2, <2>4 DEF Higher, IInv, TypeOK
  <2> QED BY <2>3, <2>4
<1>2. CASE storeRecord
  <2>1. Promise!Serve(op.epoch) /\ op.epoch \in Epochs
    BY <1>2 DEF Promise!Serve, storeRecord, IInv, TypeOK, OpOK, Creating
  <2> QED BY <2>1 DEF Promise!Next
<1>3. CASE destroyRecord
  <2>1. fence' = fence /\ record' = 0 /\ record <= fence /\ fence >= 0
    BY <1>3 DEF destroyRecord, IInv, TypeOK, OpOK, Destroying
  <2> QED BY <2>1 DEF IInv, TypeOK
<1>4. ASSUME ~fenceThrough, ~storeRecord, ~destroyRecord
      PROVE  UNCHANGED <<record, fence>>
  BY <1>4 DEF Next, Step, vars, storage, create, remove, verifyOrigin,
     destroyDns, destroyTunnel, priorPending, cleanupDns, cleanupTunnel,
     forgetPending, putPending, ensureTunnel, ensureDns, legRejected,
     legsSettled, created, Abort
<1> QED BY <1>1, <1>2, <1>3, <1>4

\* The registry implements EpochFence: at most one epoch is served, a fence
\* only rises, and what it covers is never served again.
THEOREM PromiseKept == Spec => KeepsPromise
<1>1. Init => Promise!Init
  BY DEF Init, Promise!Init, liveRecord
<1>2. IInv /\ [Next]_vars => [Promise!Next]_<<liveRecord, fence>>
  BY StepsRefine
<1> QED BY <1>1, <1>2, Inductive, PTL DEF Spec, KeepsPromise, Promise!Spec
=============================================================================
