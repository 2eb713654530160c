--------------------------- MODULE TunnelRegistry ---------------------------
(***************************************************************************)
(* The Worker's tunnel registry of one computer: a Durable Object with     *)
(* three storage keys, and the Cloudflare tunnel and CNAME it makes and    *)
(* removes for a lease epoch.  Operations are serialized, but each is many *)
(* awaits long: any storage write or Cloudflare call can fail, have its    *)
(* answer lost, or be the last thing before the object is evicted.         *)
(*                                                                         *)
(* Names are deterministic, so an epoch stands for its tunnel and for its  *)
(* CNAME.  A refused request (400, 401, 409, 404) and a replay read only.  *)
(***************************************************************************)
EXTENDS Integers

CONSTANT Epochs
ASSUME EpochsAssumption == Epochs \subseteq Nat \ {0}

VARIABLES
    fence,     \* FENCE_KEY, 0 when absent
    record,    \* RECORD_KEY: the record's epoch, 0 when absent
    verified,  \* the record's originVerified
    pending,   \* PENDING_KEY: the unfinished create's epoch, 0 when absent
    tunnels,   \* epochs that have a tunnel at Cloudflare
    cnames,    \* epochs that have a CNAME at Cloudflare
    writes,    \* epochs with a CNAME write outstanding
    op,        \* the operation the serial queue is running
    acked      \* the highest epoch whose removal was answered 200

vars == <<fence, record, verified, pending, tunnels, cnames, writes, op, acked>>
storage == <<fence, record, verified, pending>>
cloudflare == <<tunnels, cnames, writes>>

Zero == Epochs \cup {0}
Kind == {"none", "create", "remove", "verify"}
Pc == {"idle", "fence", "dns", "tunnel", "record", "prior", "pendingDns",
       "pendingTunnel", "forget", "put", "ensure", "legs", "store", "done"}
Op == [kind: Kind, epoch: Zero, pc: Pc, failed: BOOLEAN]
Idle == [kind |-> "none", epoch |-> 0, pc |-> "idle", failed |-> FALSE]

\* Storage, Cloudflare and the running operation only ever name lease epochs
\* that callers asked for.
TypeOK ==
    /\ fence \in Zero /\ record \in Zero /\ pending \in Zero /\ acked \in Zero
    /\ verified \in BOOLEAN
    /\ tunnels \subseteq Epochs /\ cnames \subseteq Epochs
    /\ writes \subseteq Epochs
    /\ op \in Op

Init ==
    /\ fence = 0 /\ record = 0 /\ verified = FALSE /\ pending = 0
    /\ tunnels = {} /\ cnames = {} /\ writes = {}
    /\ op = Idle /\ acked = 0

Higher(a, b) == IF a > b THEN a ELSE b
Goto(pc) == op' = [op EXCEPT !.pc = pc]
liveRecord == IF record > fence THEN record ELSE 0

\* remove: the pending create is this removal's to clean.
cleanable == pending # 0 /\ pending <= op.epoch

\* A removal is answered 200, or goes on with the pending create.
CleanOrAnswer ==
    IF cleanable THEN Goto("pendingDns") /\ UNCHANGED acked
    ELSE op' = Idle /\ acked' = Higher(acked, op.epoch)

-----------------------------------------------------------------------------
(* Requests the queue takes up.                                            *)

Take(kind, e, pc) ==
    op' = [kind |-> kind, epoch |-> e, pc |-> pc, failed |-> FALSE]

\* create: above the fence and above the record, else 409.
create(e) ==
    /\ op = Idle
    /\ e > fence /\ e > record
    /\ Take("create", e, IF record # 0 THEN "fence" ELSE "prior")
    /\ UNCHANGED <<storage, cloudflare, acked>>

\* remove: a newer record is left alone and the answer is 200 all the same.
remove(e) ==
    /\ op = Idle
    /\ IF record > e
         THEN acked' = Higher(acked, e) /\ UNCHANGED op
         ELSE Take("remove", e, "fence") /\ UNCHANGED acked
    /\ UNCHANGED <<storage, cloudflare>>

\* verifyOrigin of the live record: every connector is the instance's own
\* address, or the record is destroyed.  (No connector: nothing changes.)
verifyOrigin ==
    /\ op = Idle /\ liveRecord # 0
    /\ \/ verified' = TRUE /\ UNCHANGED op
       \/ Take("verify", record, "fence") /\ UNCHANGED verified
    /\ UNCHANGED <<fence, record, pending, cloudflare, acked>>

-----------------------------------------------------------------------------
(* destroy, in order: fence, CNAME, tunnel, record.                        *)

\* Mutants: the fence follows the last request, down too; a removal that finds
\* nothing answers before it fences.
FenceFollows ==
    /\ op.pc = "fence"
    /\ fence' = IF op.kind = "remove" THEN op.epoch ELSE record
    /\ IF record # 0 THEN Goto("dns") /\ UNCHANGED acked ELSE CleanOrAnswer
    /\ UNCHANGED <<record, verified, pending, cloudflare>>
NothingToFence ==
    /\ op.pc = "fence"
    /\ fence' = IF record = 0 /\ ~cleanable THEN fence
                ELSE Higher(fence, IF op.kind = "remove" THEN op.epoch ELSE record)
    /\ IF record # 0 THEN Goto("dns") /\ UNCHANGED acked ELSE CleanOrAnswer
    /\ UNCHANGED <<record, verified, pending, cloudflare>>

fenceThrough ==
    /\ op.pc = "fence"
    /\ fence' = Higher(fence, IF op.kind = "remove" THEN op.epoch ELSE record)
    /\ IF record # 0 THEN Goto("dns") /\ UNCHANGED acked ELSE CleanOrAnswer
    /\ UNCHANGED <<record, verified, pending, cloudflare>>

destroyDns ==
    /\ op.pc = "dns"
    /\ cnames' = cnames \ {record} /\ Goto("tunnel")
    /\ UNCHANGED <<storage, tunnels, writes, acked>>

destroyTunnel ==
    /\ op.pc = "tunnel"
    /\ tunnels' = tunnels \ {record} /\ Goto("record")
    /\ UNCHANGED <<storage, cnames, writes, acked>>

destroyRecord ==
    /\ op.pc = "record"
    /\ record' = 0 /\ verified' = FALSE
    /\ CASE op.kind = "create" -> Goto("prior") /\ UNCHANGED acked
         [] op.kind = "remove" -> CleanOrAnswer
         [] OTHER -> op' = Idle /\ UNCHANGED acked
    /\ UNCHANGED <<fence, pending, cloudflare>>

-----------------------------------------------------------------------------
(* cleanupPending: by name, CNAME first, then the marker is forgotten.     *)

\* Mutant: an older marker is overwritten, its leftovers stay.
OlderMarkerDropped ==
    /\ op.pc = "prior"
    /\ IF pending > op.epoch THEN op' = Idle ELSE Goto("put")
    /\ UNCHANGED <<storage, cloudflare, acked>>

\* create looks at the pending marker of another epoch.
priorPending ==
    /\ op.pc = "prior"
    /\ IF pending \in {0, op.epoch} THEN Goto("put")
       ELSE IF pending > op.epoch THEN op' = Idle
       ELSE Goto("pendingDns")
    /\ UNCHANGED <<storage, cloudflare, acked>>

\* Mutant: the tunnel is deleted before its CNAME.
TunnelFirst ==
    /\ op.pc = "pendingDns"
    /\ tunnels' = tunnels \ {pending} /\ Goto("pendingTunnel")
    /\ UNCHANGED <<storage, cnames, writes, acked>>

cleanupDns ==
    /\ op.pc = "pendingDns"
    /\ cnames' = cnames \ {pending} /\ Goto("pendingTunnel")
    /\ UNCHANGED <<storage, tunnels, writes, acked>>

cleanupTunnel ==
    /\ op.pc = "pendingTunnel"
    /\ tunnels' = tunnels \ {pending} /\ Goto("forget")
    /\ UNCHANGED <<storage, cnames, writes, acked>>

forgetPending ==
    /\ op.pc = "forget"
    /\ pending' = 0
    /\ IF op.kind = "create" THEN Goto("put") /\ UNCHANGED acked
       ELSE op' = Idle /\ acked' = Higher(acked, op.epoch)
    /\ UNCHANGED <<fence, record, verified, cloudflare>>

-----------------------------------------------------------------------------
(* create proper: marker, tunnel, three concurrent legs, record.           *)

\* Mutants: no marker is written; it names the next epoch.
NoMarker ==
    /\ op.pc = "put" /\ Goto("ensure")
    /\ UNCHANGED <<storage, cloudflare, acked>>
NextEpochMarked ==
    /\ op.pc = "put"
    /\ pending' = op.epoch + 1 /\ Goto("ensure")
    /\ UNCHANGED <<fence, record, verified, cloudflare, acked>>

putPending ==
    /\ op.pc = "put"
    /\ pending' = op.epoch /\ Goto("ensure")
    /\ UNCHANGED <<fence, record, verified, cloudflare, acked>>

\* The epoch's tunnel is found by name or created; the legs go out.
ensureTunnel ==
    /\ op.pc = "ensure"
    /\ tunnels' = tunnels \cup {op.epoch}
    /\ writes' = {op.epoch}
    /\ Goto("legs")
    /\ UNCHANGED <<storage, cnames, acked>>

\* The CNAME leg settles: adopted or created; or failed, committed or not.
ensureDns(e) ==
    /\ e \in writes
    /\ writes' = writes \ {e}
    /\ \/ cnames' = cnames \cup {e} /\ UNCHANGED op
       \/ /\ cnames' \in {cnames, cnames \cup {e}}
          /\ op' = [op EXCEPT !.failed = TRUE]
    /\ UNCHANGED <<storage, tunnels, acked>>

\* The ingress or the token leg is rejected; its siblings may be outstanding.
legRejected ==
    /\ op.pc = "legs" /\ ~op.failed
    /\ op' = [op EXCEPT !.failed = TRUE]
    /\ UNCHANGED <<storage, cloudflare, acked>>

\* Promise.allSettled: only with every leg drained does create go on or fail.
legsSettled ==
    /\ op.pc = "legs" /\ writes = {}
    /\ IF op.failed THEN op' = Idle ELSE Goto("store")
    /\ UNCHANGED <<storage, cloudflare, acked>>

storeRecord ==
    /\ op.pc = "store"
    /\ record' = op.epoch /\ verified' = FALSE /\ Goto("done")
    /\ UNCHANGED <<fence, pending, cloudflare, acked>>

created ==
    /\ op.pc = "done"
    /\ pending' = 0 /\ op' = Idle
    /\ UNCHANGED <<fence, record, verified, cloudflare, acked>>

\* A storage write or Cloudflare call fails, its answer is lost (the step
\* before this one was its effect), or the object is evicted.  An outstanding
\* leg has settled by then.
Abort ==
    /\ op # Idle /\ writes = {}
    /\ op' = Idle
    /\ UNCHANGED <<storage, cloudflare, acked>>

Step ==
    \/ fenceThrough \/ destroyDns \/ destroyTunnel \/ destroyRecord
    \/ priorPending \/ cleanupDns \/ cleanupTunnel \/ forgetPending
    \/ putPending \/ ensureTunnel \/ legsSettled \/ storeRecord \/ created
    \/ \E e \in Epochs : ensureDns(e)

Next ==
    \/ \E e \in Epochs : create(e) \/ remove(e)
    \/ verifyOrigin \/ legRejected \/ Step \/ Abort

Spec == Init /\ [][Next]_vars

-----------------------------------------------------------------------------
Resources == tunnels \cup cnames

\* Nothing at Cloudflare is forgotten: whatever a failed, lost or evicted
\* operation left behind is named by the record or by the pending marker, so a
\* retry, a removal or the next epoch finds it.
NoOrphan == Resources \subseteq {record, pending}

\* Fence first: two epochs of a computer never exist at Cloudflare together.
OneEpochExists == \A a, b \in Resources : a = b

\* A hostname never points at a tunnel that is gone.
NoDanglingName == cnames \subseteq tunnels

\* A removal that was answered is final: no later create, retry or late leg
\* brings back an epoch it covered.
RemovalIsFinal == \A e \in Resources \cup ({record} \ {0}) : e > acked

\* The registry keeps the promise of EpochFence: what it serves is its live
\* record, what it has cut off is its fence.
Promise == INSTANCE EpochFence WITH served <- liveRecord, cut <- fence
KeepsPromise == Promise!Spec
=============================================================================
