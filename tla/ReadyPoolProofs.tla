--------------------------- MODULE ReadyPoolProofs ---------------------------
(***************************************************************************)
(* The ready pool's safety properties, for every number of hosts and       *)
(* computers, every cap, and every bound on opens and faults.              *)
(***************************************************************************)
EXTENDS ReadyPool, FiniteSetTheorems, TLAPS

Ended == {"succeeded", "clean", "failed"}

\* What a row says of its jobs, and its jobs of its machine.
HostOK(h) ==
    /\ row[h].job = 0 <=> row[h].state = "none"
    /\ row[h].job = 0 => row[h].dispatch = "none" /\ exec[h][Provision] = "absent"
    /\ row[h].job > Provision =>
          /\ exec[h][Provision] \in Ended
          /\ row[h].lessee = Nobody /\ row[h].state \in {"retiring", "failed", "retired"}
          /\ row[h].dispatch = "pending" => row[h].state = "retiring"
    /\ row[h].dispatch = "settled" =>
          \/ exec[h][Provision] \in Ended
          \/ <<h, Provision>> \in refusals /\ row[h].state = "retired"
    /\ row[h].state \in {"none", "booting", "ready"} => row[h].claim = 0
    /\ row[h].lessee # Nobody \/ row[h].state \in {"ready", "leased", "retiring"} => row[h].inst
    /\ row[h].inst => ec2[h] # "none"
    /\ ec2[h] # "none" => exec[h][Provision] \in {"acted", "succeeded", "failed"}
    /\ exec[h][Provision] \in {"acted", "succeeded"} => ec2[h] # "none"
    /\ row[h].state = "retired" =>
          /\ row[h].lessee = Nobody => row[h].dispatch = "settled"
          /\ \/ <<h, Provision>> \in refusals
             \/ /\ ec2[h] \in {"none", "gone"}
                /\ exec[h][Provision] \notin {"absent", "running", "allowed"}
    /\ \A j \in Jobs \ {Provision} :
          /\ row[h].job = j /\ row[h].state = "retired" => exec[h][j] = "succeeded"
          /\ exec[h][j] \in {"acted", "succeeded"} => ec2[h] = "gone"
          /\ exec[h][j] = "allowed" =>
                /\ row[h].lessee = Nobody /\ row[h].state \in {"retiring", "failed", "retired"}
                /\ ec2[h] # "none"

\* A call is for a row that took a job; a refusal is what AWS answered this caller.
CallOK(call) ==
    /\ row[call.host].job # 0
    /\ call.res = "refused" => <<call.host, call.job>> \in refusals

\* What a placement's job did to the host and the disk.
PlaceOK(c) ==
    LET p == place[c]  h == place[c].host IN
    /\ p.st \in {"STALLED", "RUNNING"} \/ p.job \in {"adopt", "release"} =>
          h \in Hosts /\ row[h].lessee = c
    /\ p.st = "ADOPTING" =>
          p.job = "adopt" /\ (row[h].state = "leased" \/ <<h, Provision>> \in refusals)
    /\ p.st = "RUNNING" => p.job = "none" /\ vol[c] = h
    /\ p.st = "RECOVERING" => p.job = "release"
    /\ p.job = "adopt" /\ p.x \in {"running", "attached", "claimed"} => p.st = "ADOPTING"
    /\ p.job = "adopt" /\ p.x = "none" => p.st \in {"ADOPTING", "UNCONFIRMED"}
    /\ p.st = "ADOPTING" /\ p.x \in {"attached", "claimed", "succeeded"} => vol[c] = h
    /\ p.job = "release" /\ p.x \in {"detached", "terminated", "succeeded"} => vol[c] = NoHost
    /\ p.job = "release" /\ p.x \in {"terminated", "succeeded"} => ec2[h] = "gone"
    /\ h # NoHost => p.epoch <= MaxEpoch

\* ClaimIsCurrent, and that a placement at rest has no claim out.
ClaimOK(h) ==
    row[h].state = "leased" /\ row[h].claim # 0 =>
        LET c == row[h].lessee IN
        /\ c \in Computers
        /\ place[c].host = h /\ place[c].epoch = row[h].claim
        /\ place[c].st \in {"ADOPTING", "RUNNING"} => vol[c] = h
        /\ place[c].st \notin {"STOPPED", "COLD", "STALLED"}

HostsOK == \A h \in Hosts : HostOK(h)
CallsOK == \A call \in calls : CallOK(call)
PlacesOK == \A c \in Computers : PlaceOK(c)
ClaimsOK == \A h \in Hosts : ClaimOK(h)
IInv ==
    /\ TypeOK /\ HostsOK /\ CallsOK /\ PlacesOK /\ AttachedHostIsBound /\ ClaimsOK
    /\ EarmarkedNotAdopted

-----------------------------------------------------------------------------
(* What one row, one placement and one execution look like after a write.  *)

\* The row after a write of one host's row; the others stay.
LEMMA RowSet ==
    ASSUME row \in [Hosts -> HostRow], NEW h \in Hosts, NEW r \in HostRow,
           row' = [row EXCEPT ![h] = r]
    PROVE  /\ row' \in [Hosts -> HostRow] /\ row'[h] = r
           /\ \A g \in Hosts \ {h} : row'[g] = row[g]
OBVIOUS

\* The placements after a write of one computer's placement.
LEMMA PlaceSet ==
    ASSUME place \in [Computers -> Place], NEW c \in Computers, NEW p \in Place,
           place' = [place EXCEPT ![c] = p]
    PROVE  /\ place' \in [Computers -> Place] /\ place'[c] = p
           /\ \A d \in Computers \ {c} : place'[d] = place[d]
OBVIOUS

\* What a write of a placement's state, job and progress leaves.
Wrote(c, st, job, x) ==
    /\ place' \in [Computers -> Place]
    /\ place'[c].st = st /\ place'[c].job = job /\ place'[c].x = x
    /\ place'[c].host = place[c].host /\ place'[c].epoch = place[c].epoch
    /\ \A d \in Computers \ {c} : place'[d] = place[d]

\* What Move leaves of a placement: its epoch and its host are kept.
LEMMA Moved ==
    ASSUME place \in [Computers -> Place], NEW c \in Computers,
           NEW st \in PlaceState, NEW job \in Operation, NEW x \in Progress,
           Move(c, st, job, x)
    PROVE  Wrote(c, st, job, x)
<1> DEFINE p == [place[c] EXCEPT !.st = st, !.job = job, !.x = x]
<1>1. place[c] \in Place
  OBVIOUS
<1>2. p \in Place
  BY <1>1 DEF Place
<1>3. /\ p.st = st /\ p.job = job /\ p.x = x
      /\ p.host = place[c].host /\ p.epoch = place[c].epoch
  BY <1>1 DEF Place
<1>4. place' = [place EXCEPT ![c] = p]
  BY DEF Move
<1> HIDE DEF p
<1>5. /\ place' \in [Computers -> Place] /\ place'[c] = p
      /\ \A d \in Computers \ {c} : place'[d] = place[d]
  BY <1>2, <1>4, PlaceSet
<1> QED
  BY <1>3, <1>5 DEF Wrote

\* A change of the state alone.
LEMMA MovedState ==
    ASSUME place \in [Computers -> Place], NEW c \in Computers,
           NEW st \in PlaceState, place' = [place EXCEPT ![c].st = st]
    PROVE  Wrote(c, st, place[c].job, place[c].x)
<1> DEFINE p == [place[c] EXCEPT !.st = st]
<1>1. place[c] \in Place
  OBVIOUS
<1>2. p \in Place
  BY <1>1 DEF Place
<1>3. /\ p.st = st /\ p.job = place[c].job /\ p.x = place[c].x
      /\ p.host = place[c].host /\ p.epoch = place[c].epoch
  BY <1>1 DEF Place
<1>4. place' = [place EXCEPT ![c] = p]
  OBVIOUS
<1> HIDE DEF p
<1>5. /\ place' \in [Computers -> Place] /\ place'[c] = p
      /\ \A d \in Computers \ {c} : place'[d] = place[d]
  BY <1>2, <1>4, PlaceSet
<1> QED
  BY <1>3, <1>5 DEF Wrote

\* A step of the job's execution alone.
LEMMA MovedProgress ==
    ASSUME place \in [Computers -> Place], NEW c \in Computers, NEW x \in Progress, X(c, x)
    PROVE  Wrote(c, place[c].st, place[c].job, x)
<1> DEFINE p == [place[c] EXCEPT !.x = x]
<1>1. place[c] \in Place
  OBVIOUS
<1>2. p \in Place
  BY <1>1 DEF Place
<1>3. /\ p.st = place[c].st /\ p.job = place[c].job /\ p.x = x
      /\ p.host = place[c].host /\ p.epoch = place[c].epoch
  BY <1>1 DEF Place
<1>4. place' = [place EXCEPT ![c] = p]
  BY DEF X
<1> HIDE DEF p
<1>5. /\ place' \in [Computers -> Place] /\ place'[c] = p
      /\ \A d \in Computers \ {c} : place'[d] = place[d]
  BY <1>2, <1>4, PlaceSet
<1> QED
  BY <1>3, <1>5 DEF Wrote

\* What Run leaves: one execution moves, every other one stays.
LEMMA Ran ==
    ASSUME exec \in [Hosts -> [Jobs -> Exec]], NEW h \in Hosts, NEW j \in Jobs,
           NEW to \in Exec, Run(h, j, to)
    PROVE  /\ exec' \in [Hosts -> [Jobs -> Exec]] /\ exec'[h][j] = to
           /\ \A k \in Jobs \ {j} : exec'[h][k] = exec[h][k]
           /\ \A g \in Hosts \ {h} : exec'[g] = exec[g]
BY DEF Run

\* A fault is counted within its bound.
LEMMA Faulted ==
    ASSUME faults \in 0..MaxFaults, Fault
    PROVE  faults' \in 0..MaxFaults
BY BoundsAssumption DEF Fault

-----------------------------------------------------------------------------
(* What a step that writes one placement, one row, or one execution has to *)
(* show: the rest of the invariant is untouched.                           *)

NoDemand == [by |-> Nobody, hosts |-> {}]

\* A step that writes one placement and no row preserves the invariant if the
\* placement it leaves is right and keeps the claim of its host current.
LEMMA PlaceFrame ==
    ASSUME IInv, NEW c \in Computers, UNCHANGED <<row, exec, calls, refusals, ec2, vol>>,
           place' \in [Computers -> Place],
           \A d \in Computers \ {c} : place'[d] = place[d],
           deleted' \subseteq Computers, demand' \in {demand, NoDemand},
           faults' \in 0..MaxFaults,
           PlaceOK(c)', \A h \in Hosts : row[h].lessee = c => ClaimOK(h)'
    PROVE  IInv'
<1>1. TypeOK'
  BY DEF IInv, TypeOK, NoDemand
<1>2. HostsOK'
  BY DEF IInv, HostsOK, HostOK
<1>3. CallsOK'
  BY DEF IInv, CallsOK, CallOK
<1>4. PlacesOK'
  <2> SUFFICES ASSUME NEW d \in Computers PROVE PlaceOK(d)'
    BY DEF PlacesOK
  <2>1. CASE d = c
    BY <2>1
  <2>2. CASE d # c
    <3>1. place'[d] = place[d] /\ PlaceOK(d)
      BY <2>2 DEF IInv, PlacesOK
    <3> QED
      BY <3>1 DEF PlaceOK
  <2> QED
    BY <2>1, <2>2
<1>5. AttachedHostIsBound'
  BY DEF IInv, AttachedHostIsBound, Disowned
<1>6. ClaimsOK'
  <2> SUFFICES ASSUME NEW h \in Hosts PROVE ClaimOK(h)'
    BY DEF ClaimsOK
  <2>1. CASE row[h].lessee = c
    BY <2>1
  <2>2. CASE row[h].lessee # c
    <3>1. ClaimOK(h)
      BY DEF IInv, ClaimsOK
    <3> QED
      BY <2>2, <3>1 DEF ClaimOK
  <2> QED
    BY <2>1, <2>2
<1>7. EarmarkedNotAdopted'
  BY DEF IInv, EarmarkedNotAdopted, NoDemand
<1> QED
  BY <1>1, <1>2, <1>3, <1>4, <1>5, <1>6, <1>7 DEF IInv

\* A step that writes one row and no placement: what the row owes its machine,
\* its claim, the adopt that runs on it and the disk attached to it.
LEMMA RowFrame ==
    ASSUME IInv, NEW h \in Hosts, NEW r \in HostRow, row' = [row EXCEPT ![h] = r],
           UNCHANGED <<place, deleted, demand, exec, refusals, ec2, vol, faults>>,
           calls' \subseteq calls, r.job = row[h].job, r.lessee = row[h].lessee,
           r.lessee # Nobody => r.state \in {"leased", "retiring", "retired"},
           HostOK(h)', ClaimOK(h)',
           \A c \in Computers : place[c].st = "ADOPTING" /\ place[c].host = h =>
              r.state = "leased" \/ <<h, Provision>> \in refusals,
           \A c \in Computers : vol[c] = h => r.state \in {"leased", "retiring"} \/ Disowned(h)
    PROVE  IInv'
<1>0. row \in [Hosts -> HostRow]
  BY DEF IInv, TypeOK
<1>1. /\ row' \in [Hosts -> HostRow] /\ row'[h] = r
      /\ \A g \in Hosts \ {h} : row'[g] = row[g]
  BY <1>0, RowSet
<1>2. TypeOK'
  BY <1>1 DEF IInv, TypeOK
<1>3. HostsOK'
  <2> SUFFICES ASSUME NEW g \in Hosts, g # h PROVE HostOK(g)'
    BY DEF HostsOK
  <2>1. HostOK(g) /\ row'[g] = row[g]
    BY <1>1 DEF IInv, HostsOK
  <2> QED
    BY <2>1 DEF HostOK
<1>4. PlacesOK'
  <2> SUFFICES ASSUME NEW c \in Computers PROVE PlaceOK(c)'
    BY DEF PlacesOK
  <2>1. PlaceOK(c)
    BY DEF IInv, PlacesOK
  <2>2. CASE place[c].host = h
    BY <1>1, <2>1, <2>2 DEF PlaceOK
  <2>3. CASE place[c].host # h
    BY <1>1, <2>1, <2>3 DEF PlaceOK
  <2> QED
    BY <2>2, <2>3
<1>5. AttachedHostIsBound'
  <2> SUFFICES ASSUME NEW c \in Computers, vol[c] # NoHost
               PROVE  /\ ec2[vol[c]] \in {"pool", "claimed"} /\ row'[vol[c]].lessee = c
                      /\ row'[vol[c]].state \in {"leased", "retiring"} \/ Disowned(vol[c])
    BY DEF AttachedHostIsBound, Disowned
  <2>1. /\ ec2[vol[c]] \in {"pool", "claimed"} /\ vol[c] \in Hosts /\ row[vol[c]].lessee = c
        /\ row[vol[c]].state \in {"leased", "retiring"} \/ Disowned(vol[c])
    BY BoundsAssumption DEF IInv, TypeOK, AttachedHostIsBound, Hosts, NoHost
  <2>2. CASE vol[c] = h
    BY <1>1, <2>1, <2>2
  <2>3. CASE vol[c] # h
    BY <1>1, <2>1, <2>3
  <2> QED
    BY <2>2, <2>3
<1>6. ClaimsOK'
  <2> SUFFICES ASSUME NEW g \in Hosts, g # h PROVE ClaimOK(g)'
    BY DEF ClaimsOK
  <2>1. ClaimOK(g) /\ row'[g] = row[g]
    BY <1>1 DEF IInv, ClaimsOK
  <2> QED
    BY <2>1 DEF ClaimOK
<1>7. EarmarkedNotAdopted'
  <2> SUFFICES ASSUME NEW g \in demand.hosts PROVE row'[g].lessee = Nobody
    BY DEF EarmarkedNotAdopted
  <2>1. g \in Hosts /\ row[g].lessee = Nobody
    BY DEF IInv, TypeOK, EarmarkedNotAdopted
  <2> QED
    BY <1>1, <2>1
<1>8. CallsOK'
  <2> SUFFICES ASSUME NEW call \in calls' PROVE CallOK(call)'
    BY DEF CallsOK
  <2>1. call \in calls /\ call.host \in Hosts /\ CallOK(call)
    BY DEF IInv, TypeOK, Call, CallsOK
  <2>2. row'[call.host].job = row[call.host].job
    BY <1>1, <2>1
  <2> QED
    BY <2>1, <2>2 DEF CallOK
<1> QED
  BY <1>2, <1>3, <1>4, <1>5, <1>6, <1>7, <1>8 DEF IInv

\* A host that nobody leases: no adopt runs on it, no disk is on it.
LEMMA Unbound ==
    ASSUME IInv, NEW h \in Hosts, row[h].lessee = Nobody
    PROVE  \A c \in Computers : ~(place[c].st = "ADOPTING" /\ place[c].host = h) /\ vol[c] # h
<1> SUFFICES ASSUME NEW c \in Computers
             PROVE  ~(place[c].st = "ADOPTING" /\ place[c].host = h) /\ vol[c] # h
  OBVIOUS
<1>1. c # Nobody
  BY ComputersAssumption DEF Nobody
<1>2. place[c].st = "ADOPTING" => row[place[c].host].lessee = c
  BY DEF IInv, PlacesOK, PlaceOK
<1>3. vol[c] # NoHost => row[vol[c]].lessee = c
  BY DEF IInv, AttachedHostIsBound
<1>4. h # NoHost
  BY BoundsAssumption DEF Hosts, NoHost
<1> QED
  BY <1>1, <1>2, <1>3, <1>4

\* A step of one host's execution, machine or calls.
LEMMA ExecFrame ==
    ASSUME IInv, NEW h \in Hosts, UNCHANGED <<row, place, deleted, demand, vol>>,
           exec' \in [Hosts -> [Jobs -> Exec]], \A g \in Hosts \ {h} : exec'[g] = exec[g],
           ec2' \in [Hosts -> {"none", "pool", "claimed", "gone"}],
           \A g \in Hosts \ {h} : ec2'[g] = ec2[g],
           ec2[h] = "gone" => ec2'[h] = "gone",
           \A c \in Computers : vol[c] = h => ec2'[h] = ec2[h],
           exec'[h][Provision] = "absent" => exec[h][Provision] = "absent",
           calls' \subseteq Call, CallsOK', faults' \in 0..MaxFaults, HostOK(h)',
           refusals \subseteq refusals', refusals' \subseteq Hosts \X Jobs
    PROVE  IInv'
<1>1. TypeOK'
  BY DEF IInv, TypeOK
<1>2. HostsOK'
  <2> SUFFICES ASSUME NEW g \in Hosts, g # h PROVE HostOK(g)'
    BY DEF HostsOK
  <2>1. HostOK(g) /\ exec'[g] = exec[g] /\ ec2'[g] = ec2[g]
    BY DEF IInv, HostsOK
  <2> QED
    BY <2>1 DEF HostOK
<1>3. PlacesOK'
  <2> SUFFICES ASSUME NEW c \in Computers PROVE PlaceOK(c)'
    BY DEF PlacesOK
  <2>1. PlaceOK(c)
    BY DEF IInv, PlacesOK
  <2>2. place[c].job = "release" => place[c].host \in Hosts
    BY <2>1 DEF PlaceOK
  <2>3. ec2[place[c].host] = "gone" /\ place[c].host \in Hosts => ec2'[place[c].host] = "gone"
    OBVIOUS
  <2> QED
    BY <2>1, <2>2, <2>3 DEF PlaceOK
<1>4. AttachedHostIsBound'
  <2> SUFFICES ASSUME NEW c \in Computers, vol[c] # NoHost
               PROVE  ec2'[vol[c]] = ec2[vol[c]] /\ (Disowned(vol[c]) => Disowned(vol[c])')
    BY DEF IInv, AttachedHostIsBound
  <2>1. vol[c] \in Hosts
    BY BoundsAssumption DEF IInv, TypeOK, Hosts, NoHost
  <2> QED
    BY <2>1 DEF Disowned
<1>5. ClaimsOK'
  BY DEF IInv, ClaimsOK, ClaimOK
<1>6. EarmarkedNotAdopted'
  BY DEF IInv, EarmarkedNotAdopted
<1> QED
  BY <1>1, <1>2, <1>3, <1>4, <1>5, <1>6 DEF IInv

-----------------------------------------------------------------------------
(* The steps that write a placement alone.                                 *)

\* coldStop: a machine of its own has no row.
LEMMA ColdStopStep ==
    ASSUME IInv, NEW c \in Computers, coldStop(c)
    PROVE  IInv'
<1>1. /\ place \in [Computers -> Place] /\ PlaceOK(c) /\ \A h \in Hosts : ClaimOK(h)
      /\ deleted \subseteq Computers /\ faults \in 0..MaxFaults
  BY DEF IInv, TypeOK, PlacesOK, ClaimsOK
<1>2. Wrote(c, "STOPPED", place[c].job, place[c].x)
  BY <1>1, MovedState DEF coldStop, PlaceState
<1>3. PlaceOK(c)'
  BY <1>1, <1>2 DEF coldStop, Wrote, PlaceOK
<1>4. \A h \in Hosts : row[h].lessee = c => ClaimOK(h)'
  BY <1>1, <1>2 DEF coldStop, Wrote, ClaimOK, PlaceOK
<1> QED
  BY <1>1, <1>2, <1>3, <1>4, PlaceFrame DEF coldStop, Wrote

\* startStop: the claim stays current while the host is released.
LEMMA StartStopStep ==
    ASSUME IInv, NEW c \in Computers, startStop(c)
    PROVE  IInv'
<1>1. /\ place \in [Computers -> Place] /\ PlaceOK(c) /\ \A h \in Hosts : ClaimOK(h)
      /\ deleted \subseteq Computers /\ faults \in 0..MaxFaults
  BY DEF IInv, TypeOK, PlacesOK, ClaimsOK
<1>2. Wrote(c, "RELEASING", "release", "none")
  BY <1>1, Moved DEF startStop, PlaceState, Operation, Progress
<1>3. PlaceOK(c)'
  BY <1>1, <1>2 DEF startStop, Wrote, PlaceOK
<1>4. \A h \in Hosts : row[h].lessee = c => ClaimOK(h)'
  BY <1>1, <1>2 DEF startStop, Wrote, ClaimOK, PlaceOK
<1> QED
  BY <1>1, <1>2, <1>3, <1>4, PlaceFrame DEF startStop, Wrote

\* The poll that turns an adopted placement RUNNING: the disk is on its host.
LEMMA AdoptRunningStep ==
    ASSUME IInv, NEW c \in Computers, adoptRunning(c)
    PROVE  IInv'
<1>1. /\ place \in [Computers -> Place] /\ PlaceOK(c) /\ \A h \in Hosts : ClaimOK(h)
      /\ deleted \subseteq Computers /\ faults \in 0..MaxFaults
  BY DEF IInv, TypeOK, PlacesOK, ClaimsOK
<1>2. Wrote(c, "RUNNING", "none", "none")
  BY <1>1, Moved DEF adoptRunning, PlaceState, Operation, Progress
<1>3. PlaceOK(c)'
  BY <1>1, <1>2 DEF adoptRunning, Adopted, Wrote, PlaceOK
<1>4. \A h \in Hosts : row[h].lessee = c => ClaimOK(h)'
  BY <1>1, <1>2 DEF adoptRunning, Adopted, Wrote, ClaimOK, PlaceOK
<1> QED
  BY <1>1, <1>2, <1>3, <1>4, PlaceFrame DEF adoptRunning, Wrote

\* A failed job leaves its placement UNCONFIRMED, still bound to the row.
LEMMA ReceiptFailedStep ==
    ASSUME IInv, NEW c \in Computers, receiptFailed(c)
    PROVE  IInv'
<1>1. /\ place \in [Computers -> Place] /\ PlaceOK(c) /\ \A h \in Hosts : ClaimOK(h)
      /\ deleted \subseteq Computers /\ faults \in 0..MaxFaults
  BY DEF IInv, TypeOK, PlacesOK, ClaimsOK
<1>2. Wrote(c, "UNCONFIRMED", place[c].job, place[c].x)
  BY <1>1, MovedState DEF receiptFailed, PlaceState
<1>3. PlaceOK(c)'
  BY <1>1, <1>2 DEF receiptFailed, Wrote, PlaceOK
<1>4. \A h \in Hosts : row[h].lessee = c => ClaimOK(h)'
  BY <1>1, <1>2 DEF receiptFailed, Wrote, ClaimOK, PlaceOK
<1> QED
  BY <1>1, <1>2, <1>3, <1>4, PlaceFrame DEF receiptFailed, Wrote

\* STOPPED is only reached when no claim of the placement is out.
LEMMA ReleaseStoppedStep ==
    ASSUME IInv, NEW c \in Computers, releaseStopped(c)
    PROVE  IInv'
<1>1. /\ place \in [Computers -> Place] /\ PlaceOK(c) /\ \A h \in Hosts : ClaimOK(h)
      /\ deleted \subseteq Computers /\ faults \in 0..MaxFaults
  BY DEF IInv, TypeOK, PlacesOK, ClaimsOK
<1>2. Wrote(c, "STOPPED", "none", "none")
  BY <1>1, Moved DEF releaseStopped, PlaceState, Operation, Progress
<1>3. PlaceOK(c)'
  BY <1>1, <1>2 DEF releaseStopped, Released, Burnt, Wrote, PlaceOK
<1>4. \A h \in Hosts : row[h].lessee = c => ClaimOK(h)'
  BY <1>1, <1>2 DEF releaseStopped, Released, Burnt, Wrote, ClaimOK, PlaceOK
<1> QED
  BY <1>1, <1>2, <1>3, <1>4, PlaceFrame DEF releaseStopped, Wrote

\* A failed recovery leaves host, row and disk as they are.
LEMMA RecoveryFailedStep ==
    ASSUME IInv, NEW c \in Computers, recoveryFailed(c)
    PROVE  IInv'
<1>1. /\ place \in [Computers -> Place] /\ PlaceOK(c) /\ \A h \in Hosts : ClaimOK(h)
      /\ deleted \subseteq Computers /\ faults \in 0..MaxFaults
  BY DEF IInv, TypeOK, PlacesOK, ClaimsOK
<1>2. Wrote(c, "UNCONFIRMED", place[c].job, place[c].x)
  BY <1>1, MovedState DEF recoveryFailed, PlaceState
<1>3. PlaceOK(c)'
  BY <1>1, <1>2 DEF recoveryFailed, Wrote, PlaceOK
<1>4. \A h \in Hosts : row[h].lessee = c => ClaimOK(h)'
  BY <1>1, <1>2 DEF recoveryFailed, Wrote, ClaimOK, PlaceOK
<1> QED
  BY <1>1, <1>2, <1>3, <1>4, PlaceFrame DEF recoveryFailed, Wrote

\* The pass over deleted computers starts a retire; host and row stay.
LEMMA ReconcileDeletedAwsComputersStep ==
    ASSUME IInv, NEW c \in Computers, reconcileDeletedAwsComputers(c)
    PROVE  IInv'
<1>1. /\ place \in [Computers -> Place] /\ PlaceOK(c) /\ \A h \in Hosts : ClaimOK(h)
      /\ deleted \subseteq Computers /\ faults \in 0..MaxFaults
  BY DEF IInv, TypeOK, PlacesOK, ClaimsOK
<1>2. Wrote(c, "RETIRING", "retire", "none")
  BY <1>1, Moved DEF reconcileDeletedAwsComputers, Retire, PlaceState, Operation, Progress
<1>3. PlaceOK(c)'
  BY <1>1, <1>2 DEF reconcileDeletedAwsComputers, Retire, Wrote, PlaceOK
<1>4. \A h \in Hosts : row[h].lessee = c => ClaimOK(h)'
  BY <1>1, <1>2 DEF reconcileDeletedAwsComputers, Retire, Wrote, ClaimOK, PlaceOK
<1> QED
  BY <1>1, <1>2, <1>3, <1>4, PlaceFrame DEF reconcileDeletedAwsComputers, Wrote

\* A retired placement keeps no claim current that it had not.
LEMMA RetireDoneStep ==
    ASSUME IInv, NEW c \in Computers, retireDone(c)
    PROVE  IInv'
<1>1. /\ place \in [Computers -> Place] /\ PlaceOK(c) /\ \A h \in Hosts : ClaimOK(h)
      /\ deleted \subseteq Computers /\ faults \in 0..MaxFaults
  BY DEF IInv, TypeOK, PlacesOK, ClaimsOK
<1>2. Wrote(c, "RETIRED", "none", "none")
  BY <1>1, Moved DEF retireDone, PlaceState, Operation, Progress
<1>3. PlaceOK(c)'
  BY <1>1, <1>2 DEF retireDone, Wrote, PlaceOK
<1>4. \A h \in Hosts : row[h].lessee = c => ClaimOK(h)'
  BY <1>1, <1>2 DEF retireDone, Wrote, ClaimOK, PlaceOK
<1> QED
  BY <1>1, <1>2, <1>3, <1>4, PlaceFrame DEF retireDone, Wrote

\* A recovery releases the host of the failed job under the same epoch.
LEMMA StartRecoveryStep ==
    ASSUME IInv, NEW c \in Computers, startRecovery(c)
    PROVE  IInv'
<1>1. /\ place \in [Computers -> Place] /\ PlaceOK(c) /\ \A h \in Hosts : ClaimOK(h)
      /\ deleted \subseteq Computers /\ faults \in 0..MaxFaults
  BY DEF IInv, TypeOK, PlacesOK, ClaimsOK
<1>2. Wrote(c, "RECOVERING", "release", "none")
  <2> DEFINE p == [place[c] EXCEPT !.st = "RECOVERING", !.job = "release",
                                   !.x = "none", !.tried = TRUE]
  <2>1. place[c] \in Place
    BY <1>1
  <2>2. /\ p \in Place /\ p.st = "RECOVERING" /\ p.job = "release" /\ p.x = "none"
        /\ p.host = place[c].host /\ p.epoch = place[c].epoch
    BY <2>1 DEF Place, PlaceState, Operation, Progress
  <2>3. place' = [place EXCEPT ![c] = p]
    BY DEF startRecovery
  <2> HIDE DEF p
  <2>4. /\ place' \in [Computers -> Place] /\ place'[c] = p
        /\ \A d \in Computers \ {c} : place'[d] = place[d]
    BY <1>1, <2>2, <2>3, PlaceSet
  <2> QED
    BY <2>2, <2>4 DEF Wrote
<1>3. PlaceOK(c)'
  BY <1>1, <1>2 DEF startRecovery, Recoverable, Wrote, PlaceOK
<1>4. \A h \in Hosts : row[h].lessee = c => ClaimOK(h)'
  BY <1>1, <1>2 DEF startRecovery, Wrote, ClaimOK
<1> QED
  BY <1>1, <1>2, <1>3, <1>4, PlaceFrame DEF startRecovery, Wrote

\* The start of a placement's job, or of an adopt whose start was lost.
LEMMA StartJobStep ==
    ASSUME IInv, NEW c \in Computers, startJob(c)
    PROVE  IInv'
<1>1. /\ place \in [Computers -> Place] /\ PlaceOK(c) /\ \A h \in Hosts : ClaimOK(h)
      /\ deleted \subseteq Computers /\ faults \in 0..MaxFaults
  BY DEF IInv, TypeOK, PlacesOK, ClaimsOK
<1>2. CASE X(c, "running") /\ UNCHANGED faults
  <2>1. Wrote(c, place[c].st, place[c].job, "running")
    BY <1>1, <1>2, MovedProgress DEF Progress
  <2>2. PlaceOK(c)'
    BY <1>1, <2>1 DEF startJob, Others, Wrote, PlaceOK
  <2>3. \A h \in Hosts : row[h].lessee = c => ClaimOK(h)'
    BY <1>1, <2>1 DEF startJob, Others, Wrote, ClaimOK
  <2> QED
    BY <1>1, <1>2, <2>1, <2>2, <2>3, PlaceFrame DEF startJob, Others, Wrote
<1>3. CASE /\ place[c].st = "ADOPTING" /\ Fault
           /\ place' = [place EXCEPT ![c].st = "UNCONFIRMED"]
  <2>1. Wrote(c, "UNCONFIRMED", place[c].job, place[c].x)
    BY <1>1, <1>3, MovedState DEF PlaceState
  <2>2. PlaceOK(c)'
    BY <1>1, <2>1 DEF startJob, Others, Wrote, PlaceOK
  <2>3. \A h \in Hosts : row[h].lessee = c => ClaimOK(h)'
    BY <1>1, <2>1 DEF startJob, Others, Wrote, ClaimOK
  <2>4. faults' \in 0..MaxFaults
    BY <1>1, <1>3, Faulted
  <2> QED
    BY <1>1, <2>1, <2>2, <2>3, <2>4, PlaceFrame DEF startJob, Others, Wrote
<1> QED
  BY <1>2, <1>3 DEF startJob

\* The retire execution of a placement changes no host.
LEMMA ObserveRetireStep ==
    ASSUME IInv, NEW c \in Computers, observeRetire(c)
    PROVE  IInv'
<1>1. /\ place \in [Computers -> Place] /\ PlaceOK(c) /\ \A h \in Hosts : ClaimOK(h)
      /\ deleted \subseteq Computers /\ faults \in 0..MaxFaults
  BY DEF IInv, TypeOK, PlacesOK, ClaimsOK
<1>2. PICK x \in {"failed", "succeeded"} : X(c, x)
  BY DEF observeRetire
<1>3. Wrote(c, place[c].st, place[c].job, x)
  BY <1>1, <1>2, MovedProgress DEF Progress
<1>4. PlaceOK(c)'
  BY <1>1, <1>3 DEF observeRetire, Others, Wrote, PlaceOK
<1>5. \A h \in Hosts : row[h].lessee = c => ClaimOK(h)'
  BY <1>1, <1>3 DEF observeRetire, Others, Wrote, ClaimOK
<1> QED
  BY <1>1, <1>3, <1>4, <1>5, PlaceFrame DEF observeRetire, Others, Wrote

\* An execution that fails leaves machine and disk as its last step left them.
LEMMA FailJobStep ==
    ASSUME IInv, NEW c \in Computers, failJob(c)
    PROVE  IInv'
<1>1. /\ place \in [Computers -> Place] /\ PlaceOK(c) /\ \A h \in Hosts : ClaimOK(h)
      /\ deleted \subseteq Computers /\ faults \in 0..MaxFaults
  BY DEF IInv, TypeOK, PlacesOK, ClaimsOK
<1>2. PICK x \in {"refused", "failed"} : X(c, x)
  BY DEF failJob
<1>3. Wrote(c, place[c].st, place[c].job, x)
  BY <1>1, <1>2, MovedProgress DEF Progress
<1>4. PlaceOK(c)'
  BY <1>1, <1>2, <1>3 DEF failJob, Others, Wrote, PlaceOK
<1>5. \A h \in Hosts : row[h].lessee = c => ClaimOK(h)'
  BY <1>1, <1>3 DEF failJob, Others, Wrote, ClaimOK
<1>6. faults' \in 0..MaxFaults
  BY <1>1, Faulted DEF failJob
<1> QED
  BY <1>1, <1>3, <1>4, <1>5, <1>6, PlaceFrame DEF failJob, Others, Wrote

\* The owner's delete.
LEMMA TerminateStep ==
    ASSUME IInv, NEW c \in Computers, terminate(c)
    PROVE  IInv'
<1>1. /\ place \in [Computers -> Place] /\ PlaceOK(c) /\ \A h \in Hosts : ClaimOK(h)
      /\ deleted' \subseteq Computers /\ faults \in 0..MaxFaults
  BY DEF IInv, TypeOK, PlacesOK, ClaimsOK, terminate
<1>2. CASE Retire(c)
  <2>1. Wrote(c, "RETIRING", "retire", "none")
    BY <1>1, <1>2, Moved DEF Retire, PlaceState, Operation, Progress
  <2>2. PlaceOK(c)'
    BY <1>1, <2>1 DEF terminate, Wrote, PlaceOK
  <2>3. \A h \in Hosts : row[h].lessee = c => ClaimOK(h)'
    BY <1>1, <2>1 DEF terminate, Wrote, ClaimOK
  <2> QED
    BY <1>1, <2>1, <2>2, <2>3, PlaceFrame DEF terminate, Wrote
<1>3. CASE UNCHANGED place
  <2>1. PlaceOK(c)' /\ \A h \in Hosts : ClaimOK(h)'
    BY <1>1, <1>3 DEF terminate, PlaceOK, ClaimOK
  <2> QED
    BY <1>1, <1>3, <2>1, PlaceFrame DEF terminate
<1> QED
  BY <1>2, <1>3 DEF terminate

\* Dropping a demand frees its earmarked hosts.
LEMMA CancelComputerDemandStep ==
    ASSUME IInv, NEW c \in Computers, cancelComputerDemand(c)
    PROVE  IInv'
<1>1. /\ place \in [Computers -> Place] /\ PlaceOK(c) /\ \A h \in Hosts : ClaimOK(h)
      /\ deleted \subseteq Computers /\ faults \in 0..MaxFaults
  BY DEF IInv, TypeOK, PlacesOK, ClaimsOK
<1>2. PlaceOK(c)' /\ \A h \in Hosts : ClaimOK(h)'
  BY <1>1 DEF cancelComputerDemand, PlaceOK, ClaimOK
<1> QED
  BY <1>1, <1>2, PlaceFrame DEF cancelComputerDemand, NoDemand

\* A placement that starts over, on a pool host or on a machine of its own.
LEMMA Opened ==
    ASSUME place \in [Computers -> Place], NEW c \in Computers,
           place[c].epoch <= MaxEpoch, NEW st \in {"ADOPTING", "COLD"}, NEW h \in 0..N,
           place' = Open(c, st, h)
    PROVE  /\ place' \in [Computers -> Place]
           /\ \A d \in Computers \ {c} : place'[d] = place[d]
           /\ place'[c].st = st /\ place'[c].host = h /\ place'[c].x = "none"
           /\ place'[c].job = IF st = "ADOPTING" THEN "adopt" ELSE "none"
           /\ place'[c].epoch = place[c].epoch + 1
<1> DEFINE p == [st |-> st, epoch |-> place[c].epoch + 1, host |-> h, tried |-> FALSE,
                 job |-> IF st = "ADOPTING" THEN "adopt" ELSE "none", x |-> "none"]
<1>1. place[c] \in Place
  OBVIOUS
<1>2. place[c].epoch + 1 \in Epochs
  BY <1>1, BoundsAssumption DEF Place, Epochs
<1>3. p \in Place
  BY <1>2 DEF Place, PlaceState, Operation, Progress
<1>4. place' = [place EXCEPT ![c] = p]
  BY DEF Open
<1>5. /\ p.st = st /\ p.host = h /\ p.x = "none" /\ p.epoch = place[c].epoch + 1
      /\ p.job = IF st = "ADOPTING" THEN "adopt" ELSE "none"
  OBVIOUS
<1> HIDE DEF p
<1>6. /\ place' \in [Computers -> Place] /\ place'[c] = p
      /\ \A d \in Computers \ {c} : place'[d] = place[d]
  BY <1>3, <1>4, PlaceSet
<1> QED
  BY <1>5, <1>6

\* openCold: a new epoch on a machine of its own; no claim of the old one is out.
LEMMA OpenColdStep ==
    ASSUME IInv, NEW c \in Computers, openCold(c)
    PROVE  IInv'
<1>1. /\ place \in [Computers -> Place] /\ PlaceOK(c) /\ \A h \in Hosts : ClaimOK(h)
      /\ deleted \subseteq Computers /\ faults \in 0..MaxFaults
  BY DEF IInv, TypeOK, PlacesOK, ClaimsOK
<1>2. place[c].epoch <= MaxEpoch /\ place' = Open(c, "COLD", NoHost) /\ NoHost \in 0..N
  BY <1>1, BoundsAssumption DEF openCold, Place, Epochs, NoHost
<1>3. /\ place' \in [Computers -> Place] /\ \A d \in Computers \ {c} : place'[d] = place[d]
      /\ place'[c].st = "COLD" /\ place'[c].host = NoHost /\ place'[c].job = "none"
  BY <1>1, <1>2, Opened
<1>4. PlaceOK(c)'
  BY <1>3 DEF PlaceOK
<1>5. \A h \in Hosts : row[h].lessee = c => ClaimOK(h)'
  BY <1>1, <1>3 DEF openCold, ClaimOK
<1>6. demand' \in {demand, NoDemand}
  BY DEF openCold, validateCapacity, NoDemand
<1> QED
  BY <1>1, <1>3, <1>4, <1>5, <1>6, PlaceFrame DEF openCold

\* The replacement of a stalled adopt: its host was written off before.
LEMMA ReplaceStalledPoolAdoptStep ==
    ASSUME IInv, NEW c \in Computers, replaceStalledPoolAdopt(c)
    PROVE  IInv'
<1>1. /\ place \in [Computers -> Place] /\ PlaceOK(c) /\ \A h \in Hosts : ClaimOK(h)
      /\ deleted \subseteq Computers /\ faults \in 0..MaxFaults
  BY DEF IInv, TypeOK, PlacesOK, ClaimsOK
<1>2. place[c].epoch <= MaxEpoch /\ place' = Open(c, "COLD", NoHost) /\ NoHost \in 0..N
  BY <1>1, BoundsAssumption DEF replaceStalledPoolAdopt, PlaceOK, Hosts, NoHost
<1>3. /\ place' \in [Computers -> Place] /\ \A d \in Computers \ {c} : place'[d] = place[d]
      /\ place'[c].st = "COLD" /\ place'[c].host = NoHost /\ place'[c].job = "none"
  BY <1>1, <1>2, Opened
<1>4. PlaceOK(c)'
  BY <1>3 DEF PlaceOK
<1>5. \A h \in Hosts : row[h].lessee = c => ClaimOK(h)'
  BY <1>1, <1>3 DEF replaceStalledPoolAdopt, ClaimOK
<1>6. demand' \in {demand, NoDemand}
  BY DEF replaceStalledPoolAdopt, validateCapacity, NoDemand
<1> QED
  BY <1>1, <1>3, <1>4, <1>5, <1>6, PlaceFrame DEF replaceStalledPoolAdopt

-----------------------------------------------------------------------------
(* The steps of calls and of executions.                                   *)

\* A call that is lost takes nothing with it.
LEMMA CrashStep ==
    ASSUME IInv, NEW call \in calls, Crash(call)
    PROVE  IInv'
<1>1. calls' \subseteq calls /\ calls \subseteq Call /\ faults' \in 0..MaxFaults
  BY Faulted DEF IInv, TypeOK, Crash
<1>2. TypeOK'
  BY <1>1 DEF IInv, TypeOK, Crash
<1>3. HostsOK' /\ PlacesOK' /\ AttachedHostIsBound' /\ ClaimsOK' /\ EarmarkedNotAdopted'
  BY DEF IInv, Crash, HostsOK, HostOK, PlacesOK, PlaceOK, AttachedHostIsBound, Disowned,
         ClaimsOK, ClaimOK, EarmarkedNotAdopted
<1>4. CallsOK'
  BY <1>1 DEF IInv, Crash, CallsOK, CallOK
<1> QED
  BY <1>2, <1>3, <1>4 DEF IInv

\* StartExecution: what exists stays as it is, and a refusal only adds to what
\* callers were told.
LEMMA StartLifecycleJobStep ==
    ASSUME IInv, NEW call \in calls, startLifecycleJob(call)
    PROVE  IInv'
<1> DEFINE h == call.host
           j == call.job
<1>1. /\ calls \subseteq Call /\ h \in Hosts /\ j \in Jobs /\ HostOK(h) /\ faults \in 0..MaxFaults
      /\ exec \in [Hosts -> [Jobs -> Exec]] /\ refusals \subseteq Hosts \X Jobs
      /\ ec2 \in [Hosts -> {"none", "pool", "claimed", "gone"}]
      /\ row[h].job # 0
  BY DEF IInv, TypeOK, Call, HostsOK, CallsOK, CallOK
<1>2. UNCHANGED <<row, place, deleted, demand, ec2, vol>>
  BY DEF startLifecycleJob
<1>3. faults' \in 0..MaxFaults
  <2>1. UNCHANGED faults \/ Fault
    BY DEF startLifecycleJob
  <2> QED
    BY <1>1, <2>1, Faulted
<1>4. /\ exec' \in [Hosts -> [Jobs -> Exec]]
      /\ \A g \in Hosts \ {h} : exec'[g] = exec[g]
      /\ \A k \in Jobs \ {j} : exec'[h][k] = exec[h][k]
      /\ exec'[h][j] = exec[h][j] \/ (exec[h][j] = "absent" /\ exec'[h][j] = "running")
  <2>1. CASE UNCHANGED exec
    BY <1>1, <2>1
  <2>2. CASE exec[h][j] = "absent" /\ Run(h, j, "running")
    BY <1>1, <2>2, Ran DEF Exec
  <2> QED
    BY <2>1, <2>2 DEF startLifecycleJob
<1>5. /\ refusals \subseteq refusals' /\ refusals' \subseteq Hosts \X Jobs
      /\ \/ calls' = calls \ {call}
         \/ /\ calls' = (calls \ {call}) \cup {[call EXCEPT !.res = "refused"]}
            /\ <<h, j>> \in refusals'
  BY <1>1 DEF startLifecycleJob
<1>6. HostOK(h)'
  <2>0. Provision \in Jobs
    BY BoundsAssumption DEF Provision, Jobs, LastJob
  <2>1. \A k \in Jobs : exec'[h][k] \in {exec[h][k], "running"}
                       /\ (exec'[h][k] # exec[h][k] => exec[h][k] = "absent")
    BY <1>4
  <2> QED
    BY <1>1, <1>2, <1>5, <2>0, <2>1 DEF HostOK, Ended
<1>7. calls' \subseteq Call /\ CallsOK'
  <2> SUFFICES ASSUME NEW k \in calls' PROVE k \in Call /\ CallOK(k)'
    BY DEF CallsOK
  <2>1. CASE k \in calls
    BY <1>1, <1>2, <1>5, <2>1 DEF IInv, CallsOK, CallOK
  <2>2. CASE k = [call EXCEPT !.res = "refused"] /\ <<h, j>> \in refusals'
    <3>1. k \in Call /\ k.host = h /\ k.job = j
      BY <1>1, <2>2 DEF Call
    <3> QED
      BY <1>1, <1>2, <2>2, <3>1 DEF CallOK
  <2> QED
    BY <1>5, <2>1, <2>2
<1>8. exec'[h][Provision] = "absent" => exec[h][Provision] = "absent"
  BY <1>4, BoundsAssumption DEF Provision, Jobs, LastJob
<1> QED
  BY <1>1, <1>2, <1>3, <1>4, <1>5, <1>6, <1>7, <1>8, ExecFrame

\* What callers were told stays true of the calls that are out.
LEMMA CallsStay ==
    ASSUME IInv, UNCHANGED <<row, calls, refusals>>
    PROVE  CallsOK'
BY DEF IInv, CallsOK, CallOK

\* The observer's look: authority is given only while the row is the job's, and
\* retire is only allowed on a machine that nobody claimed.
LEMMA ObservePoolStep ==
    ASSUME IInv, NEW h \in Hosts, NEW j \in Jobs, observePool(h, j)
    PROVE  IInv'
<1>1. /\ HostOK(h) /\ faults \in 0..MaxFaults /\ exec \in [Hosts -> [Jobs -> Exec]]
      /\ ec2 \in [Hosts -> {"none", "pool", "claimed", "gone"}] /\ calls \subseteq Call
      /\ refusals \subseteq Hosts \X Jobs
  BY DEF IInv, TypeOK, HostsOK
<1>2. UNCHANGED <<row, place, deleted, demand, calls, refusals, ec2, vol, faults>>
  BY DEF observePool
<1>3. PICK to \in Exec :
        /\ Run(h, j, to)
        /\ \/ exec[h][j] = "running" /\ j = Provision /\ to \in {"allowed", "clean"}
           \/ exec[h][j] = "running" /\ j # Provision /\ to = "failed"
           \/ exec[h][j] = "running" /\ j # Provision /\ to = "succeeded" /\ ec2[h] = "gone"
           \/ /\ exec[h][j] = "running" /\ j # Provision /\ to = "allowed"
              /\ row[h].state = "retiring" /\ row[h].lessee = Nobody /\ ec2[h] # "none"
           \/ exec[h][j] = "acted" /\ to \in {"succeeded", "failed"}
  BY DEF observePool, poolJobAuthority, Exec
<1>4. /\ exec' \in [Hosts -> [Jobs -> Exec]] /\ exec'[h][j] = to
      /\ \A k \in Jobs \ {j} : exec'[h][k] = exec[h][k]
      /\ \A g \in Hosts \ {h} : exec'[g] = exec[g]
  BY <1>1, <1>3, Ran
<1>5. HostOK(h)'
  <2>0. Provision \in Jobs
    BY BoundsAssumption DEF Provision, Jobs, LastJob
  <2>1. CASE j = Provision
    BY <1>1, <1>2, <1>3, <1>4, <2>0, <2>1 DEF HostOK, Ended
  <2>2. CASE j # Provision
    BY <1>1, <1>2, <1>3, <1>4, <2>0, <2>2 DEF HostOK, Ended
  <2> QED
    BY <2>1, <2>2
<1>6. CallsOK'
  BY <1>2, CallsStay
<1>7. exec'[h][Provision] = "absent" => exec[h][Provision] = "absent"
  BY <1>3, <1>4, BoundsAssumption DEF Provision, Jobs, LastJob
<1> QED
  BY <1>1, <1>2, <1>4, <1>5, <1>6, <1>7, ExecFrame

\* RunInstances and TerminateInstances act on an answer of a moment ago: the row
\* may have been failed, never leased or booted again meanwhile, and only written
\* off if the start of its provision was refused to some caller.
LEMMA ActPoolStep ==
    ASSUME IInv, NEW h \in Hosts, NEW j \in Jobs, actPool(h, j)
    PROVE  IInv'
<1>1. /\ HostOK(h) /\ faults \in 0..MaxFaults /\ exec \in [Hosts -> [Jobs -> Exec]]
      /\ ec2 \in [Hosts -> {"none", "pool", "claimed", "gone"}] /\ calls \subseteq Call
      /\ refusals \subseteq Hosts \X Jobs
  BY DEF IInv, TypeOK, HostsOK
<1>2. UNCHANGED <<row, place, deleted, demand, calls, refusals, vol, faults>> /\ exec[h][j] = "allowed"
  BY DEF actPool
<1>3. /\ exec' \in [Hosts -> [Jobs -> Exec]] /\ exec'[h][j] = "acted"
      /\ \A k \in Jobs \ {j} : exec'[h][k] = exec[h][k]
      /\ \A g \in Hosts \ {h} : exec'[g] = exec[g]
  BY <1>1, Ran DEF actPool, Exec
<1>4. /\ ec2' \in [Hosts -> {"none", "pool", "claimed", "gone"}]
      /\ ec2'[h] = IF j = Provision THEN "pool" ELSE "gone"
      /\ \A g \in Hosts \ {h} : ec2'[g] = ec2[g]
  BY <1>1 DEF actPool
<1>5. Provision \in Jobs
  BY BoundsAssumption DEF Provision, Jobs, LastJob
<1>6. HostOK(h)'
  <2>1. CASE j = Provision
    BY <1>1, <1>2, <1>3, <1>4, <1>5, <2>1 DEF HostOK, Ended
  <2>2. CASE j # Provision
    BY <1>1, <1>2, <1>3, <1>4, <1>5, <2>2 DEF HostOK, Ended
  <2> QED
    BY <2>1, <2>2
<1>7. CallsOK'
  BY <1>2, CallsStay
<1>8. /\ ec2[h] = "gone" => ec2'[h] = "gone"
      /\ \A c \in Computers : vol[c] = h => ec2'[h] = ec2[h]
  <2>1. CASE j = Provision
    <3>1. ec2[h] = "none"
      BY <1>1, <1>2, <2>1 DEF HostOK
    <3>2. \A c \in Computers : vol[c] # h
      BY <3>1, BoundsAssumption DEF IInv, AttachedHostIsBound, Hosts, NoHost
    <3> QED
      BY <3>1, <3>2
  <2>2. CASE j # Provision
    <3>1. row[h].lessee = Nobody
      BY <1>1, <1>2, <2>2 DEF HostOK
    <3>2. \A c \in Computers : vol[c] # h
      BY <3>1, BoundsAssumption, ComputersAssumption
         DEF IInv, AttachedHostIsBound, Hosts, NoHost, Nobody
    <3> QED
      BY <1>4, <2>2, <3>2
  <2> QED
    BY <2>1, <2>2
<1>9. exec'[h][Provision] = "absent" => exec[h][Provision] = "absent"
  BY <1>3, <1>5
<1> QED
  BY <1>1, <1>2, <1>3, <1>4, <1>6, <1>7, <1>8, <1>9, ExecFrame

\* Only a launch that was refused for capacity ends clean.
LEMMA FailPoolStep ==
    ASSUME IInv, NEW h \in Hosts, NEW j \in Jobs, failPool(h, j)
    PROVE  IInv'
<1>1. /\ HostOK(h) /\ faults' \in 0..MaxFaults /\ exec \in [Hosts -> [Jobs -> Exec]]
      /\ ec2 \in [Hosts -> {"none", "pool", "claimed", "gone"}] /\ calls \subseteq Call
      /\ refusals \subseteq Hosts \X Jobs
  BY Faulted DEF IInv, TypeOK, HostsOK, failPool
<1>2. UNCHANGED <<row, place, deleted, demand, calls, refusals, ec2, vol>>
  BY DEF failPool
<1>3. PICK to \in {"clean", "failed"} :
        /\ Run(h, j, to) /\ exec[h][j] \in {"running", "allowed", "acted"}
        /\ to = "clean" => j = Provision /\ exec[h][j] = "allowed"
  BY DEF failPool
<1>4. /\ exec' \in [Hosts -> [Jobs -> Exec]] /\ exec'[h][j] = to
      /\ \A k \in Jobs \ {j} : exec'[h][k] = exec[h][k]
      /\ \A g \in Hosts \ {h} : exec'[g] = exec[g]
  BY <1>1, <1>3, Ran DEF Exec
<1>5. HostOK(h)'
  <2>0. Provision \in Jobs
    BY BoundsAssumption DEF Provision, Jobs, LastJob
  <2>1. CASE j = Provision
    BY <1>1, <1>2, <1>3, <1>4, <2>0, <2>1 DEF HostOK, Ended
  <2>2. CASE j # Provision
    BY <1>1, <1>2, <1>3, <1>4, <2>0, <2>2 DEF HostOK, Ended
  <2> QED
    BY <2>1, <2>2
<1>6. CallsOK'
  BY <1>2, CallsStay
<1>7. exec'[h][Provision] = "absent" => exec[h][Provision] = "absent"
  BY <1>3, <1>4, BoundsAssumption DEF Provision, Jobs, LastJob
<1> QED
  BY <1>1, <1>2, <1>4, <1>5, <1>6, <1>7, ExecFrame

-----------------------------------------------------------------------------
(* The steps that write a row alone.                                       *)

\* A refused provision writes its row off, whatever became of its execution and
\* whoever leased the host meanwhile.
LEMMA OutcomeStep ==
    ASSUME IInv, NEW call \in calls, outcome(call)
    PROVE  IInv'
<1> DEFINE h == call.host
           r == [row[h] EXCEPT !.dispatch = "settled", !.state = refusedAs(call)]
<1>1. /\ h \in Hosts /\ call.job \in Jobs /\ HostOK(h) /\ ClaimOK(h)
      /\ row \in [Hosts -> HostRow] /\ row[h] \in HostRow
      /\ <<h, call.job>> \in refusals /\ row[h].job # 0
  BY DEF IInv, TypeOK, Call, HostsOK, ClaimsOK, CallsOK, CallOK, outcome
<1>2. /\ UNCHANGED <<place, deleted, demand, exec, refusals, ec2, vol, faults>>
      /\ calls' \subseteq calls
  BY DEF outcome
<1>3. CASE row[h].job = call.job /\ row[h].dispatch = "pending"
  <2>1. /\ r \in HostRow /\ r.state = refusedAs(call) /\ r.dispatch = "settled"
        /\ r.job = row[h].job /\ r.lessee = row[h].lessee /\ r.inst = row[h].inst
        /\ r.claim = row[h].claim /\ r.state \in {"retired", "failed"}
    BY <1>1 DEF HostRow, refusedAs
  <2>2. row' = [row EXCEPT ![h] = r]
    BY <1>3 DEF outcome
  <2> HIDE DEF r
  <2>3. row'[h] = r
    BY <1>1, <2>1, <2>2, RowSet
  <2>4. ClaimOK(h)'
    BY <2>1, <2>3 DEF ClaimOK
  <2>5. CASE call.job = Provision
    <3>1. r.state = "retired" /\ <<h, Provision>> \in refusals
      BY <1>1, <2>1, <2>5 DEF refusedAs
    <3>2. HostOK(h)'
      <4>1. row[h].job = Provision /\ Provision # 0
        BY <1>3, <2>5 DEF Provision
      <4>2. row'[h].job = Provision /\ ~(Provision > Provision)
        BY <2>1, <2>3, <4>1 DEF Provision
      <4> QED
        BY <1>1, <1>2, <2>1, <2>3, <3>1, <4>1, <4>2 DEF HostOK
    <3>3. ec2[h] # "none" => Disowned(h)
      BY <1>1, <3>1 DEF HostOK, Disowned
    <3>4. \A c \in Computers : vol[c] = h => Disowned(h)
      BY <1>1, <3>3, BoundsAssumption DEF IInv, AttachedHostIsBound, Hosts, NoHost
    <3> QED
      BY <1>1, <1>2, <2>1, <2>2, <2>4, <3>1, <3>2, <3>4, RowFrame
  <2>6. CASE call.job # Provision
    <3>1. row[h].job > Provision /\ r.state = "failed" /\ r.lessee = Nobody
      BY <1>1, <1>3, <2>1, <2>6 DEF HostOK, Jobs, Provision, refusedAs
    <3>2. HostOK(h)'
      BY <1>1, <1>2, <2>1, <2>3, <3>1 DEF HostOK, Provision
    <3>3. /\ \A c \in Computers : ~(place[c].st = "ADOPTING" /\ place[c].host = h)
          /\ \A c \in Computers : vol[c] # h
      BY <1>1, <2>1, <3>1, Unbound
    <3> QED
      BY <1>1, <1>2, <2>1, <2>2, <2>4, <3>1, <3>2, <3>3, RowFrame
  <2> QED
    BY <2>5, <2>6
<1>4. CASE ~(row[h].job = call.job /\ row[h].dispatch = "pending")
  <2>1. row' = row /\ calls \subseteq Call
    BY <1>4 DEF outcome, IInv, TypeOK
  <2>2. CallsOK'
    BY <1>2, <2>1 DEF IInv, CallsOK, CallOK
  <2>3. HostOK(h)' /\ refusals \subseteq Hosts \X Jobs
        /\ faults \in 0..MaxFaults /\ exec \in [Hosts -> [Jobs -> Exec]]
        /\ ec2 \in [Hosts -> {"none", "pool", "claimed", "gone"}]
    BY <1>1, <1>2, <2>1 DEF HostOK, IInv, TypeOK
  <2> QED
    BY <1>1, <1>2, <2>1, <2>2, <2>3, ExecFrame
<1> QED
  BY <1>3, <1>4

\* A pass over one pending row, whatever its execution came to.
LEMMA ReconcileStep ==
    ASSUME IInv, NEW h \in Hosts, reconcile(h)
    PROVE  IInv'
<1>1. /\ HostOK(h) /\ ClaimOK(h) /\ row \in [Hosts -> HostRow] /\ row[h] \in HostRow
      /\ calls \subseteq Call /\ refusals \subseteq Hosts \X Jobs
      /\ row[h].dispatch = "pending" \/ <<h, row[h].job>> \in refusals
      /\ row[h].lessee # Nobody => row[h].state \in {"leased", "retiring", "retired"}
  BY DEF IInv, TypeOK, HostsOK, ClaimsOK, reconcile, ReadPending
<1>2. UNCHANGED <<place, deleted, demand, exec, refusals, ec2, vol, faults>>
  BY DEF reconcile
<1>3. row[h].job \in Jobs
  BY <1>1 DEF HostOK, HostRow
<1>4. CASE /\ calls' = calls \cup {[host |-> h, job |-> row[h].job, res |-> "todo"]}
           /\ UNCHANGED row
  <2>1. calls' \subseteq Call
    BY <1>1, <1>3, <1>4 DEF Call
  <2>2. CallsOK'
    <3> SUFFICES ASSUME NEW k \in calls' PROVE CallOK(k)'
      BY DEF CallsOK
    <3>1. CASE k \in calls
      BY <1>2, <1>4, <3>1 DEF IInv, CallsOK, CallOK
    <3>2. CASE k = [host |-> h, job |-> row[h].job, res |-> "todo"]
      BY <1>3, <1>4, <3>2 DEF CallOK, Jobs
    <3> QED
      BY <1>4, <3>1, <3>2
  <2>3. /\ HostOK(h)' /\ faults \in 0..MaxFaults /\ exec \in [Hosts -> [Jobs -> Exec]]
        /\ ec2 \in [Hosts -> {"none", "pool", "claimed", "gone"}]
    BY <1>1, <1>2, <1>4 DEF HostOK, IInv, TypeOK
  <2> QED
    BY <1>1, <1>2, <1>4, <2>1, <2>2, <2>3, ExecFrame
<1>5. CASE /\ exec[h][row[h].job] = "succeeded" /\ UNCHANGED calls
           /\ row' = [row EXCEPT ![h].inst = TRUE, ![h].dispatch = "settled",
                        ![h].state = IF row[h].job = Provision THEN @ ELSE "retired"]
  <2> DEFINE r == [row[h] EXCEPT !.inst = TRUE, !.dispatch = "settled",
                     !.state = IF row[h].job = Provision THEN @ ELSE "retired"]
  <2>1. /\ r \in HostRow /\ r.inst /\ r.dispatch = "settled"
        /\ r.state = IF row[h].job = Provision THEN row[h].state ELSE "retired"
        /\ r.job = row[h].job /\ r.lessee = row[h].lessee /\ r.claim = row[h].claim
    BY <1>1 DEF HostRow
  <2>2. row' = [row EXCEPT ![h] = r]
    BY <1>5
  <2> HIDE DEF r
  <2>3. row'[h] = r
    BY <1>1, <2>1, <2>2, RowSet
  <2>4. row[h].job # Provision => row[h].lessee = Nobody
    BY <1>1, <1>3 DEF HostOK, Jobs, Provision
  <2>5. HostOK(h)'
    <3>1. CASE row[h].job = Provision
      BY <1>1, <1>2, <1>5, <2>1, <2>3, <3>1 DEF HostOK, Ended, Provision
    <3>2. CASE row[h].job # Provision
      BY <1>1, <1>2, <1>3, <1>5, <2>1, <2>3, <2>4, <3>2 DEF HostOK, Ended, Provision, Jobs
    <3> QED
      BY <3>1, <3>2
  <2>6. ClaimOK(h)'
    BY <1>1, <1>2, <2>1, <2>3 DEF ClaimOK
  <2>7. /\ \A c \in Computers : place[c].st = "ADOPTING" /\ place[c].host = h =>
              r.state = "leased" \/ <<h, Provision>> \in refusals
        /\ \A c \in Computers : vol[c] = h => r.state \in {"leased", "retiring"} \/ Disowned(h)
    BY <2>1, <2>4, ComputersAssumption, BoundsAssumption
       DEF IInv, PlacesOK, PlaceOK, AttachedHostIsBound, Nobody, Hosts, NoHost
  <2>8. r.lessee # Nobody => r.state \in {"leased", "retiring", "retired"}
    BY <1>1, <2>1
  <2> QED
    BY <1>2, <1>5, <2>1, <2>2, <2>5, <2>6, <2>7, <2>8, RowFrame
<1>6. CASE /\ exec[h][row[h].job] \in {"clean", "failed"} /\ unleased(h) /\ UNCHANGED calls
           /\ row' = [row EXCEPT ![h].dispatch = "settled", ![h].state = settledAs(h)]
  <2> DEFINE r == [row[h] EXCEPT !.dispatch = "settled", !.state = settledAs(h)]
  <2>1. /\ r \in HostRow /\ r.inst = row[h].inst /\ r.dispatch = "settled"
        /\ r.state = settledAs(h) /\ r.state \in {"retired", "failed"}
        /\ r.job = row[h].job /\ r.lessee = row[h].lessee /\ r.claim = row[h].claim
        /\ r.lessee = Nobody
    BY <1>1, <1>6 DEF HostRow, settledAs, unleased
  <2>2. row' = [row EXCEPT ![h] = r]
    BY <1>6
  <2> HIDE DEF r
  <2>3. row'[h] = r
    BY <1>1, <2>1, <2>2, RowSet
  <2>5. HostOK(h)'
    <3>1. CASE row[h].job = Provision
      BY <1>1, <1>2, <1>6, <2>1, <2>3, <3>1 DEF HostOK, Ended, Provision, settledAs
    <3>2. CASE row[h].job # Provision
      <4>1. row[h].job > Provision /\ r.state = "failed"
        BY <1>3, <2>1, <3>2 DEF Jobs, Provision, settledAs
      <4> QED
        BY <1>1, <1>2, <2>1, <2>3, <4>1 DEF HostOK
    <3> QED
      BY <3>1, <3>2
  <2>6. ClaimOK(h)'
    BY <2>1, <2>3 DEF ClaimOK
  <2>7. /\ \A c \in Computers : ~(place[c].st = "ADOPTING" /\ place[c].host = h)
        /\ \A c \in Computers : vol[c] # h
    BY <1>1, <2>1, Unbound
  <2> QED
    BY <1>2, <1>6, <2>1, <2>2, <2>5, <2>6, <2>7, RowFrame
<1> QED
  BY <1>4, <1>5, <1>6 DEF reconcile

\* Enrollment: the host that calls is the machine of the row.
LEMMA RecordPoolEnrollmentStep ==
    ASSUME IInv, NEW h \in Hosts, recordPoolEnrollment(h)
    PROVE  IInv'
<1> DEFINE r == [row[h] EXCEPT !.inst = TRUE, !.enrolled = TRUE]
<1>1. /\ HostOK(h) /\ row \in [Hosts -> HostRow] /\ row[h] \in HostRow /\ ec2[h] = "pool"
      /\ row[h].state \in {"booting", "ready"} /\ row[h].lessee = Nobody
  BY DEF IInv, TypeOK, HostsOK, recordPoolEnrollment
<1>2. UNCHANGED <<place, deleted, demand, exec, calls, refusals, ec2, vol, faults>>
  BY DEF recordPoolEnrollment
<1>3. /\ r \in HostRow /\ r.inst /\ r.state = row[h].state /\ r.dispatch = row[h].dispatch
      /\ r.job = row[h].job /\ r.lessee = row[h].lessee /\ r.claim = row[h].claim
  BY <1>1 DEF HostRow
<1>4. row' = [row EXCEPT ![h] = r]
  BY DEF recordPoolEnrollment
<1> HIDE DEF r
<1>5. row'[h] = r
  BY <1>1, <1>3, <1>4, RowSet
<1>6. HostOK(h)' /\ ClaimOK(h)'
  BY <1>1, <1>2, <1>3, <1>5 DEF HostOK, ClaimOK
<1> QED
  BY <1>1, <1>2, <1>3, <1>4, <1>6, Unbound, RowFrame

\* A ready host has its machine and its provision launched.
LEMMA RecordPoolReadyStep ==
    ASSUME IInv, NEW h \in Hosts, recordPoolReady(h)
    PROVE  IInv'
<1> DEFINE r == [row[h] EXCEPT !.state = "ready"]
<1>1. /\ HostOK(h) /\ row \in [Hosts -> HostRow] /\ row[h] \in HostRow /\ ec2[h] = "pool"
      /\ row[h].state \in {"booting", "ready"} /\ row[h].lessee = Nobody /\ row[h].inst
  BY DEF IInv, TypeOK, HostsOK, recordPoolReady
<1>2. UNCHANGED <<place, deleted, demand, exec, calls, refusals, ec2, vol, faults>>
  BY DEF recordPoolReady
<1>3. /\ r \in HostRow /\ r.inst = row[h].inst /\ r.state = "ready"
      /\ r.dispatch = row[h].dispatch
      /\ r.job = row[h].job /\ r.lessee = row[h].lessee /\ r.claim = row[h].claim
  BY <1>1 DEF HostRow
<1>4. row' = [row EXCEPT ![h] = r]
  BY DEF recordPoolReady
<1> HIDE DEF r
<1>5. row'[h] = r
  BY <1>1, <1>3, <1>4, RowSet
<1>6. HostOK(h)' /\ ClaimOK(h)'
  BY <1>1, <1>2, <1>3, <1>5 DEF HostOK, ClaimOK
<1> QED
  BY <1>1, <1>2, <1>3, <1>4, <1>6, Unbound, RowFrame

\* The host's session report changes nothing but the row's stamp.
LEMMA HandlePoolSessionReadyStep ==
    ASSUME IInv, NEW h \in Hosts, handlePoolSessionReady(h)
    PROVE  IInv'
<1> DEFINE r == [row[h] EXCEPT !.session = TRUE]
<1>1. /\ HostOK(h) /\ ClaimOK(h) /\ row \in [Hosts -> HostRow] /\ row[h] \in HostRow
      /\ row[h].state = "leased"
  BY DEF IInv, TypeOK, HostsOK, ClaimsOK, handlePoolSessionReady
<1>2. UNCHANGED <<place, deleted, demand, exec, calls, refusals, ec2, vol, faults>>
  BY DEF handlePoolSessionReady
<1>3. /\ r \in HostRow /\ r.inst = row[h].inst /\ r.state = row[h].state
      /\ r.dispatch = row[h].dispatch
      /\ r.job = row[h].job /\ r.lessee = row[h].lessee /\ r.claim = row[h].claim
  BY <1>1 DEF HostRow
<1>4. row' = [row EXCEPT ![h] = r]
  BY DEF handlePoolSessionReady
<1> HIDE DEF r
<1>5. row'[h] = r
  BY <1>1, <1>3, <1>4, RowSet
<1>6. HostOK(h)' /\ ClaimOK(h)'
  BY <1>1, <1>2, <1>3, <1>5 DEF HostOK, ClaimOK
<1> QED
  BY <1>1, <1>2, <1>3, <1>4, <1>6, RowFrame

\* A claim is published for the placement's epoch once the disk is on the host.
LEMMA PublishPoolClaimStep ==
    ASSUME IInv, NEW c \in Computers, publishPoolClaim(c)
    PROVE  IInv'
<1> DEFINE h == place[c].host
           r == [row[h] EXCEPT !.claim = place[c].epoch]
<1>1. /\ PlaceOK(c) /\ row \in [Hosts -> HostRow] /\ place[c] \in Place
      /\ row[h].state = "leased" /\ row[h].lessee = c
      /\ place[c].st = "ADOPTING" /\ place[c].x = "succeeded"
  BY DEF IInv, TypeOK, PlacesOK, publishPoolClaim, Adopted
<1>2. /\ h \in Hosts /\ vol[c] = h
  BY <1>1 DEF PlaceOK
<1>3. HostOK(h) /\ row[h] \in HostRow
  BY <1>1, <1>2 DEF IInv, HostsOK
<1>4. UNCHANGED <<place, deleted, demand, exec, calls, refusals, ec2, vol, faults>>
  BY DEF publishPoolClaim
<1>5. /\ r \in HostRow /\ r.inst = row[h].inst /\ r.state = row[h].state
      /\ r.dispatch = row[h].dispatch /\ r.claim = place[c].epoch
      /\ r.job = row[h].job /\ r.lessee = row[h].lessee
  BY <1>1, <1>3 DEF HostRow, Place
<1>6. row' = [row EXCEPT ![h] = r]
  BY DEF publishPoolClaim
<1> HIDE DEF r
<1>7. row'[h] = r
  BY <1>1, <1>2, <1>5, <1>6, RowSet
<1>8. HostOK(h)'
  BY <1>1, <1>3, <1>4, <1>5, <1>7 DEF HostOK
<1>9. ClaimOK(h)'
  BY <1>1, <1>2, <1>4, <1>5, <1>7 DEF ClaimOK
<1> QED
  BY <1>1, <1>2, <1>4, <1>5, <1>6, <1>8, <1>9, RowFrame

\* A host that no adopt runs on and no disk is on, although a computer holds it.
LEMMA BoundTo ==
    ASSUME IInv, NEW c \in Computers, NEW h \in Hosts, row[h].lessee = c,
           place[c].st # "ADOPTING", vol[c] # h
    PROVE  \A d \in Computers : ~(place[d].st = "ADOPTING" /\ place[d].host = h) /\ vol[d] # h
<1> SUFFICES ASSUME NEW d \in Computers
             PROVE  ~(place[d].st = "ADOPTING" /\ place[d].host = h) /\ vol[d] # h
  OBVIOUS
<1>1. place[d].st = "ADOPTING" => row[place[d].host].lessee = d
  BY DEF IInv, PlacesOK, PlaceOK
<1>2. vol[d] # NoHost => row[vol[d]].lessee = d
  BY DEF IInv, AttachedHostIsBound
<1>3. h # NoHost
  BY BoundsAssumption DEF Hosts, NoHost
<1> QED
  BY <1>1, <1>2, <1>3

\* A leased row whose machine is gone is written off.
LEMMA WrittenOff ==
    ASSUME IInv, NEW h \in Hosts, row[h].lessee # Nobody, ec2[h] = "gone",
           NEW r \in HostRow, r = [row[h] EXCEPT !.state = "retired"], row'[h] = r,
           UNCHANGED <<exec, refusals, ec2>>
    PROVE  /\ HostOK(h)' /\ r.lessee = row[h].lessee /\ r.job = row[h].job
           /\ r.state = "retired"
<1>1. HostOK(h) /\ row[h] \in HostRow
  BY DEF IInv, TypeOK, HostsOK
<1>2. /\ r.inst = row[h].inst /\ r.state = "retired" /\ r.dispatch = row[h].dispatch
      /\ r.claim = row[h].claim /\ r.job = row[h].job /\ r.lessee = row[h].lessee
  BY <1>1 DEF HostRow
<1>3. row[h].job # 0 /\ \A j \in Jobs \ {Provision} : row[h].job # j
  BY <1>1 DEF HostOK, Jobs, Provision
<1>4. HostOK(h)'
  BY <1>1, <1>2, <1>3 DEF HostOK
<1> QED
  BY <1>2, <1>4

\* A released host is written off after its machine is gone.
LEMMA RetirePoolLeaseStep ==
    ASSUME IInv, NEW c \in Computers, retirePoolLease(c)
    PROVE  IInv'
<1> DEFINE h == place[c].host
           r == [row[h] EXCEPT !.state = "retired"]
<1>1. /\ PlaceOK(c) /\ row \in [Hosts -> HostRow] /\ row[h].lessee = c /\ c # Nobody
      /\ place[c].st # "ADOPTING" /\ place[c].job = "release" /\ place[c].x = "succeeded"
  BY ComputersAssumption
     DEF IInv, TypeOK, PlacesOK, retirePoolLease, Released, Burnt, Nobody
<1>2. h \in Hosts /\ vol[c] = NoHost /\ ec2[h] = "gone" /\ vol[c] # h
  BY <1>1, BoundsAssumption DEF PlaceOK, Hosts, NoHost
<1>3. UNCHANGED <<place, deleted, demand, exec, calls, refusals, ec2, vol, faults>>
  BY DEF retirePoolLease
<1>4. r \in HostRow /\ r.state = "retired"
  BY <1>1, <1>2 DEF HostRow
<1>5. row' = [row EXCEPT ![h] = r]
  BY DEF retirePoolLease
<1>6. row'[h] = r
  BY <1>1, <1>2, <1>4, <1>5, RowSet
<1>7. HostOK(h)' /\ r.lessee = row[h].lessee /\ r.job = row[h].job
  BY <1>1, <1>2, <1>3, <1>4, <1>6, WrittenOff
<1> HIDE DEF r
<1>8. ClaimOK(h)'
  BY <1>3, <1>4, <1>6 DEF ClaimOK
<1> QED
  BY <1>1, <1>2, <1>3, <1>4, <1>5, <1>7, <1>8, BoundTo, RowFrame

-----------------------------------------------------------------------------
(* The steps that write a row and a placement.                             *)

\* A step that writes one placement and the row of its host in one transaction.
LEMMA BothFrame ==
    ASSUME IInv, NEW c \in Computers, NEW h \in Hosts, NEW r \in HostRow,
           row' = [row EXCEPT ![h] = r],
           UNCHANGED <<deleted, exec, calls, refusals, ec2, vol, faults>>,
           demand' \in {demand, NoDemand},
           place' \in [Computers -> Place],
           \A d \in Computers \ {c} : place'[d] = place[d],
           r.job = row[h].job, r.lessee \in {c, Nobody}, row[h].lessee \in {c, Nobody},
           r.lessee # Nobody => r.state \in {"leased", "retiring", "retired"},
           HostOK(h)', PlaceOK(c)',
           \A g \in Hosts : g = h \/ row[g].lessee = c => ClaimOK(g)',
           vol[c] = h => r.lessee = c /\ r.state \in {"leased", "retiring"},
           h \in demand.hosts => r.lessee = Nobody
    PROVE  IInv'
<1>0. row \in [Hosts -> HostRow] /\ \A d \in Computers : d # Nobody
  BY ComputersAssumption DEF IInv, TypeOK, Nobody
<1>1. /\ row' \in [Hosts -> HostRow] /\ row'[h] = r
      /\ \A g \in Hosts \ {h} : row'[g] = row[g]
  BY <1>0, RowSet
<1>2. TypeOK'
  <2>1. demand' \in [by: Computers \cup {Nobody}, hosts: SUBSET Hosts]
    BY DEF IInv, TypeOK, NoDemand
  <2> QED
    BY <1>1, <2>1 DEF IInv, TypeOK
<1>3. HostsOK'
  <2> SUFFICES ASSUME NEW g \in Hosts, g # h PROVE HostOK(g)'
    BY DEF HostsOK
  <2>1. HostOK(g) /\ row'[g] = row[g]
    BY <1>1 DEF IInv, HostsOK
  <2> QED
    BY <2>1 DEF HostOK
<1>4. CallsOK'
  <2> SUFFICES ASSUME NEW call \in calls PROVE CallOK(call)'
    BY DEF CallsOK
  <2>1. call.host \in Hosts /\ CallOK(call)
    BY DEF IInv, TypeOK, Call, CallsOK
  <2>2. row'[call.host].job = row[call.host].job
    BY <1>1, <2>1
  <2> QED
    BY <2>1, <2>2 DEF CallOK
<1>5. PlacesOK'
  <2> SUFFICES ASSUME NEW d \in Computers, d # c PROVE PlaceOK(d)'
    BY DEF PlacesOK
  <2>1. PlaceOK(d) /\ place'[d] = place[d]
    BY DEF IInv, PlacesOK
  <2>2. CASE place[d].host = h
    BY <1>0, <2>1, <2>2 DEF PlaceOK
  <2>3. CASE place[d].host # h
    BY <1>1, <2>1, <2>3 DEF PlaceOK
  <2> QED
    BY <2>2, <2>3
<1>6. AttachedHostIsBound'
  <2> SUFFICES ASSUME NEW d \in Computers, vol[d] # NoHost
               PROVE  /\ ec2[vol[d]] \in {"pool", "claimed"}
                      /\ row'[vol[d]].lessee = d
                      /\ row'[vol[d]].state \in {"leased", "retiring"} \/ Disowned(vol[d])
    BY DEF AttachedHostIsBound, Disowned
  <2>1. /\ ec2[vol[d]] \in {"pool", "claimed"} /\ vol[d] \in Hosts /\ row[vol[d]].lessee = d
        /\ row[vol[d]].state \in {"leased", "retiring"} \/ Disowned(vol[d])
    BY BoundsAssumption DEF IInv, TypeOK, AttachedHostIsBound, Hosts, NoHost
  <2>2. CASE vol[d] = h
    BY <1>0, <1>1, <2>1, <2>2
  <2>3. CASE vol[d] # h
    BY <1>1, <2>1, <2>3
  <2> QED
    BY <2>2, <2>3
<1>7. ClaimsOK'
  <2> SUFFICES ASSUME NEW g \in Hosts, g # h, row[g].lessee # c PROVE ClaimOK(g)'
    BY DEF ClaimsOK
  <2>1. ClaimOK(g) /\ row'[g] = row[g]
    BY <1>1 DEF IInv, ClaimsOK
  <2> QED
    BY <2>1 DEF ClaimOK
<1>8. EarmarkedNotAdopted'
  <2> SUFFICES ASSUME NEW g \in demand.hosts PROVE row'[g].lessee = Nobody
    BY DEF EarmarkedNotAdopted, NoDemand
  <2>1. g \in Hosts /\ row[g].lessee = Nobody
    BY DEF IInv, TypeOK, EarmarkedNotAdopted
  <2> QED
    BY <1>1, <2>1
<1> QED
  BY <1>2, <1>3, <1>4, <1>5, <1>6, <1>7, <1>8 DEF IInv

\* leasePoolHost: an idle, unearmarked host is bound to the new epoch.
LEMMA LeasePoolHostStep ==
    ASSUME IInv, NEW c \in Computers, NEW h \in Hosts, leasePoolHost(c, h)
    PROVE  IInv'
<1> DEFINE r == [row[h] EXCEPT !.state = "leased", !.lessee = c]
<1>1. /\ HostOK(h) /\ row \in [Hosts -> HostRow] /\ row[h] \in HostRow
      /\ place \in [Computers -> Place] /\ place[c] \in Place
      /\ row[h].state = "ready" /\ row[h].inst /\ row[h].lessee = Nobody /\ row[h].claim = 0
      /\ h \notin demand.hosts /\ vol[c] = NoHost /\ place[c].st = "STOPPED"
  BY DEF IInv, TypeOK, HostsOK, HostOK, leasePoolHost, usableReady
<1>2. UNCHANGED <<deleted, exec, calls, refusals, ec2, vol, faults>> /\ demand' \in {demand, NoDemand}
  BY DEF leasePoolHost, validateCapacity, NoDemand
<1>3. /\ r \in HostRow /\ r.inst /\ r.state = "leased" /\ r.dispatch = row[h].dispatch
      /\ r.job = row[h].job /\ r.lessee = c /\ r.claim = 0
  BY <1>1 DEF HostRow
<1>4. row' = [row EXCEPT ![h] = r]
  BY DEF leasePoolHost
<1> HIDE DEF r
<1>5. row'[h] = r
  BY <1>1, <1>3, <1>4, RowSet
<1>6. HostOK(h)'
  <2>1. ~(row[h].job > Provision /\ row[h].dispatch = "pending")
    BY <1>1 DEF HostOK
  <2>2. row[h].job # 0
    BY <1>1 DEF HostOK
  <2> QED
    BY <1>1, <1>2, <1>3, <1>5, <2>1, <2>2 DEF HostOK
<1>7. place[c].epoch + 1 <= MaxEpoch /\ place' = Open(c, "ADOPTING", h) /\ h \in 0..N
  BY <1>1, BoundsAssumption DEF leasePoolHost, Place, Epochs, Hosts
<1>8. place[c].epoch <= MaxEpoch
  BY <1>1, <1>7, BoundsAssumption DEF Place, Epochs
<1>9. /\ place' \in [Computers -> Place] /\ \A d \in Computers \ {c} : place'[d] = place[d]
      /\ place'[c].st = "ADOPTING" /\ place'[c].host = h /\ place'[c].job = "adopt"
      /\ place'[c].x = "none" /\ place'[c].epoch = place[c].epoch + 1
  BY <1>1, <1>7, <1>8, Opened
<1>10. PlaceOK(c)'
  BY <1>3, <1>5, <1>7, <1>9 DEF PlaceOK
<1>11. ClaimOK(h)'
  BY <1>3, <1>5 DEF ClaimOK
<1>12. \A g \in Hosts \ {h} : row[g].lessee = c => ClaimOK(g)'
  <2> SUFFICES ASSUME NEW g \in Hosts, g # h, row[g].lessee = c PROVE ClaimOK(g)'
    OBVIOUS
  <2>1. ClaimOK(g) /\ row'[g] = row[g]
    BY <1>1, <1>3, <1>4, RowSet DEF IInv, ClaimsOK
  <2> QED
    BY <1>1, <2>1 DEF ClaimOK
<1>13. vol[c] # h
  BY <1>1, BoundsAssumption DEF Hosts, NoHost
<1>14. \A g \in Hosts : g = h \/ row[g].lessee = c => ClaimOK(g)'
  BY <1>11, <1>12
<1>15. /\ r \in HostRow /\ r.job = row[h].job
       /\ r.lessee \in {c, Nobody} /\ row[h].lessee \in {c, Nobody}
       /\ r.lessee # Nobody => r.state \in {"leased", "retiring", "retired"}
       /\ vol[c] = h => r.lessee = c /\ r.state \in {"leased", "retiring"}
       /\ h \in demand.hosts => r.lessee = Nobody
  BY <1>1, <1>3, <1>13
<1>16. place' \in [Computers -> Place] /\ \A d \in Computers \ {c} : place'[d] = place[d]
  BY <1>9
<1> QED
  BY <1>2, <1>4, <1>6, <1>10, <1>14, <1>15, <1>16, BothFrame

\* The host given up at its claim still names its computer.
LEMMA FailStalledPoolAdoptStep ==
    ASSUME IInv, NEW c \in Computers, failStalledPoolAdopt(c)
    PROVE  IInv'
<1>0. PICK h \in Hosts : h = place[c].host /\ row[h].lessee = c
  BY DEF IInv, PlacesOK, PlaceOK, failStalledPoolAdopt, Adopted
<1> DEFINE r == [row[h] EXCEPT !.state = "retiring"]
<1>1. /\ HostOK(h) /\ PlaceOK(c) /\ \A g \in Hosts : ClaimOK(g)
      /\ row \in [Hosts -> HostRow] /\ row[h] \in HostRow
      /\ place \in [Computers -> Place] /\ row[h].state = "leased"
      /\ place[c].st = "ADOPTING" /\ place[c].x = "succeeded"
      /\ \A g \in demand.hosts : row[g].lessee = Nobody
      /\ c # Nobody
  BY <1>0, ComputersAssumption
     DEF IInv, TypeOK, HostsOK, PlacesOK, ClaimsOK, EarmarkedNotAdopted,
         failStalledPoolAdopt, Adopted, Nobody
<1>2. UNCHANGED <<deleted, demand, exec, calls, refusals, ec2, vol, faults>>
  BY DEF failStalledPoolAdopt
<1>3. /\ r \in HostRow /\ r.inst = row[h].inst /\ r.state = "retiring"
      /\ r.dispatch = row[h].dispatch
      /\ r.job = row[h].job /\ r.lessee = c /\ r.claim = row[h].claim
  BY <1>0, <1>1 DEF HostRow
<1>4. row' = [row EXCEPT ![h] = r]
  BY <1>0 DEF failStalledPoolAdopt
<1> HIDE DEF r
<1>5. row'[h] = r /\ \A g \in Hosts \ {h} : row'[g] = row[g]
  BY <1>1, <1>3, <1>4, RowSet
<1>6. HostOK(h)'
  BY <1>0, <1>1, <1>2, <1>3, <1>5 DEF HostOK
<1>7. Wrote(c, "STALLED", place[c].job, place[c].x)
  BY <1>1, MovedState DEF failStalledPoolAdopt, PlaceState
<1>8. PlaceOK(c)'
  BY <1>0, <1>1, <1>2, <1>3, <1>5, <1>7 DEF PlaceOK, Wrote
<1>9. \A g \in Hosts : g = h \/ row[g].lessee = c => ClaimOK(g)'
  <2> SUFFICES ASSUME NEW g \in Hosts, g # h, row[g].lessee = c PROVE ClaimOK(g)'
    BY <1>3, <1>5 DEF ClaimOK
  <2> QED
    BY <1>0, <1>1, <1>5 DEF ClaimOK
<1>10. /\ r.lessee \in {c, Nobody} /\ row[h].lessee \in {c, Nobody}
       /\ h \notin demand.hosts
  BY <1>0, <1>1, <1>3
<1> QED
  BY <1>2, <1>3, <1>4, <1>6, <1>7, <1>8, <1>9, <1>10, BothFrame DEF Wrote

\* The lease is undone only while the disk is not on the host.
LEMMA RecoverRefusedAdoptStep ==
    ASSUME IInv, NEW c \in Computers, recoverRefusedAdopt(c)
    PROVE  IInv'
<1>0. PICK h \in Hosts : h = place[c].host /\ row[h].lessee = c
  BY DEF IInv, PlacesOK, PlaceOK, recoverRefusedAdopt
<1> DEFINE r == [row[h] EXCEPT !.state = "retiring", !.lessee = Nobody]
           p == [NewPlace EXCEPT !.epoch = place[c].epoch]
<1>1. /\ HostOK(h) /\ \A g \in Hosts : ClaimOK(g)
      /\ row \in [Hosts -> HostRow] /\ row[h] \in HostRow
      /\ place \in [Computers -> Place] /\ row[h].state = "leased" /\ vol[c] # h
      /\ c # Nobody
  BY <1>0, ComputersAssumption
     DEF IInv, TypeOK, HostsOK, ClaimsOK, recoverRefusedAdopt, Nobody
<1>2. UNCHANGED <<deleted, demand, exec, calls, refusals, ec2, vol, faults>>
  BY DEF recoverRefusedAdopt
<1>3. /\ r \in HostRow /\ r.inst = row[h].inst /\ r.state = "retiring"
      /\ r.dispatch = row[h].dispatch
      /\ r.job = row[h].job /\ r.lessee = Nobody /\ r.claim = row[h].claim
  BY <1>0, <1>1 DEF HostRow
<1>4. row' = [row EXCEPT ![h] = r] /\ place' = [place EXCEPT ![c] = p]
  BY <1>0 DEF recoverRefusedAdopt
<1>5. /\ p \in Place /\ p.st = "STOPPED" /\ p.job = "none" /\ p.host = NoHost
  <2>1. place[c] \in Place /\ place[c].epoch \in Epochs /\ NoHost \in 0..N
    BY <1>1, BoundsAssumption DEF Place, NoHost
  <2>2. NewPlace \in Place
    BY <2>1, BoundsAssumption DEF Place, NewPlace, PlaceState, Operation, Progress, Epochs
  <2>3. p \in Place /\ p.st = NewPlace.st /\ p.job = NewPlace.job /\ p.host = NewPlace.host
    BY <2>1, <2>2 DEF Place
  <2> QED
    BY <2>3 DEF NewPlace
<1> HIDE DEF r, p
<1>6. row'[h] = r /\ \A g \in Hosts \ {h} : row'[g] = row[g]
  BY <1>1, <1>3, <1>4, RowSet
<1>7. /\ place' \in [Computers -> Place] /\ place'[c] = p
      /\ \A d \in Computers \ {c} : place'[d] = place[d]
  BY <1>1, <1>4, <1>5, PlaceSet
<1>8. HostOK(h)'
  BY <1>0, <1>1, <1>2, <1>3, <1>6 DEF HostOK
<1>9. PlaceOK(c)'
  BY <1>5, <1>7 DEF PlaceOK
<1>10. \A g \in Hosts : g = h \/ row[g].lessee = c => ClaimOK(g)'
  <2> SUFFICES ASSUME NEW g \in Hosts, g # h, row[g].lessee = c PROVE ClaimOK(g)'
    BY <1>3, <1>6 DEF ClaimOK
  <2> QED
    BY <1>0, <1>1, <1>6 DEF ClaimOK
<1> QED
  BY <1>0, <1>1, <1>2, <1>3, <1>4, <1>7, <1>8, <1>9, <1>10, BothFrame

\* The release under the failed row, and the write-off after it.
LEMMA ReconcileStalledPoolAdoptStep ==
    ASSUME IInv, NEW c \in Computers, reconcileStalledPoolAdopt(c)
    PROVE  IInv'
<1>0. PICK h \in Hosts : h = place[c].host /\ row[h].lessee = c
  BY DEF IInv, PlacesOK, PlaceOK, reconcileStalledPoolAdopt
<1>1. /\ PlaceOK(c) /\ \A g \in Hosts : ClaimOK(g)
      /\ row \in [Hosts -> HostRow] /\ row[h] \in HostRow
      /\ place \in [Computers -> Place] /\ place[c].st = "STALLED"
      /\ deleted \subseteq Computers /\ faults \in 0..MaxFaults
      /\ \A g \in demand.hosts : row[g].lessee = Nobody
      /\ c # Nobody
  BY <1>0, ComputersAssumption
     DEF IInv, TypeOK, PlacesOK, ClaimsOK, EarmarkedNotAdopted,
         reconcileStalledPoolAdopt, Nobody
<1>2. UNCHANGED <<deleted, demand, exec, calls, refusals, ec2, vol, faults>>
  BY DEF reconcileStalledPoolAdopt
<1>3. CASE Move(c, "STALLED", "release", "none") /\ UNCHANGED row
  <2>1. Wrote(c, "STALLED", "release", "none")
    BY <1>1, <1>3, Moved DEF PlaceState, Operation, Progress
  <2>2. PlaceOK(c)'
    BY <1>0, <1>1, <1>2, <1>3, <2>1 DEF PlaceOK, Wrote
  <2>3. \A g \in Hosts : row[g].lessee = c => ClaimOK(g)'
    BY <1>1, <1>3, <2>1 DEF ClaimOK, Wrote
  <2> QED
    BY <1>1, <1>2, <1>3, <2>1, <2>2, <2>3, PlaceFrame DEF Wrote
<1>4. CASE /\ place[c].job = "release" /\ place[c].x = "succeeded"
           /\ Move(c, "STALLED", "none", "none")
           /\ row' = [row EXCEPT ![place[c].host].state = "retired"]
  <2> DEFINE r == [row[h] EXCEPT !.state = "retired"]
  <2>1. Wrote(c, "STALLED", "none", "none")
    BY <1>1, <1>4, Moved DEF PlaceState, Operation, Progress
  <2>2. /\ r \in HostRow /\ r.state = "retired" /\ row' = [row EXCEPT ![h] = r]
        /\ vol[c] # h /\ ec2[h] = "gone"
    BY <1>0, <1>1, <1>4, BoundsAssumption DEF HostRow, PlaceOK, Hosts, NoHost
  <2>3. row'[h] = r /\ \A g \in Hosts \ {h} : row'[g] = row[g]
    BY <1>1, <2>2, RowSet
  <2>4. HostOK(h)' /\ r.lessee = row[h].lessee /\ r.job = row[h].job
    BY <1>0, <1>1, <1>2, <2>2, <2>3, WrittenOff
  <2> HIDE DEF r
  <2>5. PlaceOK(c)'
    BY <1>0, <1>1, <1>2, <2>1, <2>3, <2>4 DEF PlaceOK, Wrote
  <2>6. \A g \in Hosts : g = h \/ row[g].lessee = c => ClaimOK(g)'
    <3> SUFFICES ASSUME NEW g \in Hosts, g # h, row[g].lessee = c PROVE ClaimOK(g)'
      BY <2>2, <2>3 DEF ClaimOK
    <3> QED
      BY <1>0, <1>1, <2>3 DEF ClaimOK
  <2>7. /\ r.lessee \in {c, Nobody} /\ row[h].lessee \in {c, Nobody}
        /\ h \notin demand.hosts
    BY <1>0, <1>1, <2>4
  <2> QED
    BY <1>2, <2>1, <2>2, <2>4, <2>5, <2>6, <2>7, BothFrame DEF Wrote
<1> QED
  BY <1>3, <1>4 DEF reconcileStalledPoolAdopt

\* saveAdoptRecovery: row and placement together, the machine gone.
LEMMA CompleteAdoptRecoveryStep ==
    ASSUME IInv, NEW c \in Computers, completeAdoptRecovery(c)
    PROVE  IInv'
<1>0. PICK h \in Hosts : h = place[c].host /\ row[h].lessee = c
  BY DEF IInv, PlacesOK, PlaceOK, completeAdoptRecovery
<1>1. /\ PlaceOK(c) /\ \A g \in Hosts : ClaimOK(g)
      /\ row \in [Hosts -> HostRow] /\ row[h] \in HostRow /\ row[h].claim = 0
      /\ place \in [Computers -> Place]
      /\ \A g \in demand.hosts : row[g].lessee = Nobody
      /\ c # Nobody /\ vol[c] # h /\ ec2[h] = "gone"
  BY <1>0, ComputersAssumption, BoundsAssumption
     DEF IInv, TypeOK, PlacesOK, ClaimsOK, EarmarkedNotAdopted,
         completeAdoptRecovery, Unclaimed, Nobody, Hosts, NoHost
<1>2. UNCHANGED <<deleted, demand, exec, calls, refusals, ec2, vol, faults>>
  BY DEF completeAdoptRecovery
<1> DEFINE r == [row[h] EXCEPT !.state = "retired"]
<1>3. Wrote(c, "STOPPED", "none", "none")
  BY <1>1, Moved DEF completeAdoptRecovery, PlaceState, Operation, Progress
<1>4. /\ r \in HostRow /\ r.state = "retired" /\ row' = [row EXCEPT ![h] = r]
  BY <1>0, <1>1 DEF HostRow, completeAdoptRecovery
<1>5. row'[h] = r /\ \A g \in Hosts \ {h} : row'[g] = row[g]
  BY <1>1, <1>4, RowSet
<1>6. HostOK(h)' /\ r.lessee = row[h].lessee /\ r.job = row[h].job
  BY <1>0, <1>1, <1>2, <1>4, <1>5, WrittenOff
<1> HIDE DEF r
<1>7. PlaceOK(c)'
  BY <1>0, <1>1, <1>2, <1>3 DEF PlaceOK, Wrote
<1>8. \A g \in Hosts : g = h \/ row[g].lessee = c => ClaimOK(g)'
  <2> SUFFICES ASSUME NEW g \in Hosts, g # h, row[g].lessee = c PROVE ClaimOK(g)'
    BY <1>4, <1>5 DEF ClaimOK
  <2> QED
    BY <1>0, <1>1, <1>5 DEF ClaimOK
<1>9. /\ r.lessee \in {c, Nobody} /\ row[h].lessee \in {c, Nobody}
      /\ h \notin demand.hosts
  BY <1>0, <1>1, <1>6
<1> QED
  BY <1>1, <1>2, <1>3, <1>4, <1>6, <1>7, <1>8, <1>9, BothFrame DEF Wrote

-----------------------------------------------------------------------------
(* The steps of a computer's jobs on its host and its disk.                *)

\* A step of a placement's job that touches its host's machine or its disk.
LEMMA JobFrame ==
    ASSUME IInv, NEW c \in Computers, NEW h \in Hosts, row[h].lessee = c,
           UNCHANGED <<row, exec, calls, refusals, deleted, demand, faults>>,
           place' \in [Computers -> Place],
           \A d \in Computers \ {c} : place'[d] = place[d],
           vol' \in [Computers -> 0..N], \A d \in Computers \ {c} : vol'[d] = vol[d],
           ec2' \in [Hosts -> {"none", "pool", "claimed", "gone"}],
           \A g \in Hosts \ {h} : ec2'[g] = ec2[g],
           HostOK(h)', PlaceOK(c)', \A g \in Hosts : row[g].lessee = c => ClaimOK(g)',
           vol'[c] # NoHost => /\ vol'[c] = h /\ ec2'[h] \in {"pool", "claimed"}
                               /\ row[h].state \in {"leased", "retiring"} \/ Disowned(h)
    PROVE  IInv'
<1>1. TypeOK'
  BY DEF IInv, TypeOK
<1>2. HostsOK'
  <2> SUFFICES ASSUME NEW g \in Hosts, g # h PROVE HostOK(g)'
    BY DEF HostsOK
  <2>1. HostOK(g) /\ ec2'[g] = ec2[g]
    BY DEF IInv, HostsOK
  <2> QED
    BY <2>1 DEF HostOK
<1>3. CallsOK'
  BY DEF IInv, CallsOK, CallOK
<1>4. PlacesOK'
  <2> SUFFICES ASSUME NEW d \in Computers, d # c PROVE PlaceOK(d)'
    BY DEF PlacesOK
  <2>1. PlaceOK(d) /\ place'[d] = place[d] /\ vol'[d] = vol[d]
    BY DEF IInv, PlacesOK
  <2>2. place[d].job = "release" => ec2'[place[d].host] = ec2[place[d].host]
    BY <2>1 DEF PlaceOK
  <2> QED
    BY <2>1, <2>2 DEF PlaceOK
<1>5. AttachedHostIsBound'
  <2> SUFFICES ASSUME NEW d \in Computers, vol'[d] # NoHost
               PROVE  /\ ec2'[vol'[d]] \in {"pool", "claimed"} /\ row[vol'[d]].lessee = d
                      /\ row[vol'[d]].state \in {"leased", "retiring"} \/ Disowned(vol'[d])
    BY DEF AttachedHostIsBound, Disowned
  <2>1. CASE d = c
    BY <2>1
  <2>2. CASE d # c
    <3>1. /\ vol'[d] = vol[d] /\ row[vol[d]].lessee = d /\ vol[d] \in Hosts
          /\ ec2[vol[d]] \in {"pool", "claimed"}
          /\ row[vol[d]].state \in {"leased", "retiring"} \/ Disowned(vol[d])
      BY <2>2, BoundsAssumption DEF IInv, TypeOK, AttachedHostIsBound, Hosts, NoHost
    <3> QED
      BY <2>2, <3>1
  <2> QED
    BY <2>1, <2>2
<1>6. ClaimsOK'
  <2> SUFFICES ASSUME NEW g \in Hosts, row[g].lessee # c PROVE ClaimOK(g)'
    BY DEF ClaimsOK
  <2>1. ClaimOK(g)
    BY DEF IInv, ClaimsOK
  <2> QED
    BY <2>1 DEF ClaimOK
<1>7. EarmarkedNotAdopted'
  BY DEF IInv, EarmarkedNotAdopted
<1> QED
  BY <1>1, <1>2, <1>3, <1>4, <1>5, <1>6, <1>7 DEF IInv

\* observeAdopt: attach, then retag; only the leased row's machine.
LEMMA ObserveAdoptStep ==
    ASSUME IInv, NEW c \in Computers, observeAdopt(c)
    PROVE  IInv'
<1>0. PICK h \in Hosts : h = place[c].host /\ row[h].lessee = c
  BY DEF IInv, PlacesOK, PlaceOK, observeAdopt
<1>1. /\ HostOK(h) /\ PlaceOK(c) /\ \A g \in Hosts : ClaimOK(g)
      /\ place \in [Computers -> Place] /\ vol \in [Computers -> 0..N]
      /\ ec2 \in [Hosts -> {"none", "pool", "claimed", "gone"}]
      /\ place[c].job = "adopt" /\ c # Nobody
      /\ h # NoHost /\ h \in 0..N
  BY <1>0, ComputersAssumption, BoundsAssumption
     DEF IInv, TypeOK, HostsOK, PlacesOK, ClaimsOK, observeAdopt, Nobody, Hosts, NoHost
<1>2. UNCHANGED <<row, exec, calls, refusals, deleted, demand, faults>>
  BY DEF observeAdopt, Others
<1> DEFINE bound == row[h].state \in {"leased", "retiring"} \/ Disowned(h)
<1>b. /\ place[c].st = "ADOPTING" /\ ec2[h] # "none" => bound
      /\ ec2[h] # "none" => exec[h][Provision] # "absent"
  BY <1>0, <1>1 DEF PlaceOK, HostOK, Disowned
<1>3. CASE /\ place[c].x = "running" /\ ec2[h] = "pool" /\ X(c, "attached")
           /\ vol' = [vol EXCEPT ![c] = h] /\ UNCHANGED ec2
  <2>1. Wrote(c, place[c].st, "adopt", "attached")
    BY <1>1, <1>3, MovedProgress DEF Progress
  <2>2. /\ vol' \in [Computers -> 0..N] /\ vol'[c] = h
        /\ \A d \in Computers \ {c} : vol'[d] = vol[d]
    BY <1>1, <1>3
  <2>3. HostOK(h)'
    BY <1>1, <1>2, <1>3 DEF HostOK
  <2>4. place[c].st = "ADOPTING" /\ bound
    BY <1>0, <1>1, <1>3, <1>b DEF PlaceOK
  <2>5. PlaceOK(c)'
    BY <1>0, <1>1, <1>2, <2>1, <2>2, <2>4 DEF PlaceOK, Wrote
  <2>6. \A g \in Hosts : row[g].lessee = c => ClaimOK(g)'
    BY <1>0, <1>1, <1>2, <2>1, <2>2, <2>4 DEF ClaimOK, Wrote
  <2> QED
    BY <1>0, <1>1, <1>2, <1>3, <2>1, <2>2, <2>3, <2>4, <2>5, <2>6, JobFrame DEF Wrote
<1>4. CASE /\ place[c].x = "attached" /\ X(c, "claimed")
           /\ ec2' = [ec2 EXCEPT ![h] = "claimed"] /\ UNCHANGED vol
  <2>1. Wrote(c, place[c].st, "adopt", "claimed")
    BY <1>1, <1>4, MovedProgress DEF Progress
  <2>2. /\ place[c].st = "ADOPTING" /\ bound /\ vol[c] = h
        /\ ec2[h] \in {"pool", "claimed"}
    BY <1>0, <1>1, <1>4, <1>b DEF PlaceOK, IInv, AttachedHostIsBound
  <2>3. /\ ec2' \in [Hosts -> {"none", "pool", "claimed", "gone"}] /\ ec2'[h] = "claimed"
        /\ \A g \in Hosts \ {h} : ec2'[g] = ec2[g]
    BY <1>1, <1>4
  <2>4. HostOK(h)'
    BY <1>0, <1>1, <1>2, <2>2, <2>3 DEF HostOK
  <2>5. PlaceOK(c)'
    BY <1>0, <1>1, <1>2, <1>4, <2>1, <2>2 DEF PlaceOK, Wrote
  <2>6. \A g \in Hosts : row[g].lessee = c => ClaimOK(g)'
    BY <1>0, <1>1, <1>2, <1>4, <2>1, <2>2 DEF ClaimOK, Wrote
  <2> QED
    BY <1>0, <1>1, <1>2, <1>4, <2>1, <2>2, <2>3, <2>4, <2>5, <2>6, JobFrame DEF Wrote
<1>5. CASE place[c].x = "claimed" /\ X(c, "succeeded") /\ UNCHANGED <<ec2, vol>>
  <2>1. Wrote(c, place[c].st, "adopt", "succeeded")
    BY <1>1, <1>5, MovedProgress DEF Progress
  <2>2. /\ place[c].st = "ADOPTING" /\ bound /\ vol[c] = h
        /\ ec2[h] \in {"pool", "claimed"}
    BY <1>0, <1>1, <1>5, <1>b DEF PlaceOK, IInv, AttachedHostIsBound
  <2>3. HostOK(h)'
    BY <1>1, <1>2, <1>5 DEF HostOK
  <2>4. PlaceOK(c)'
    BY <1>0, <1>1, <1>2, <1>5, <2>1, <2>2 DEF PlaceOK, Wrote
  <2>5. \A g \in Hosts : row[g].lessee = c => ClaimOK(g)'
    BY <1>0, <1>1, <1>2, <1>5, <2>1, <2>2 DEF ClaimOK, Wrote
  <2> QED
    BY <1>0, <1>1, <1>2, <1>5, <2>1, <2>2, <2>3, <2>4, <2>5, JobFrame DEF Wrote
<1> QED
  BY <1>0, <1>3, <1>4, <1>5 DEF observeAdopt

\* observeRelease: no machine is ended under a disk.
LEMMA ObserveReleaseStep ==
    ASSUME IInv, NEW c \in Computers, observeRelease(c)
    PROVE  IInv'
<1>0. PICK h \in Hosts : h = place[c].host /\ row[h].lessee = c
  BY DEF IInv, PlacesOK, PlaceOK, observeRelease
<1>1. /\ HostOK(h) /\ PlaceOK(c) /\ \A g \in Hosts : ClaimOK(g)
      /\ place \in [Computers -> Place] /\ vol \in [Computers -> 0..N]
      /\ ec2 \in [Hosts -> {"none", "pool", "claimed", "gone"}]
      /\ place[c].job = "release" /\ c # Nobody /\ h # NoHost /\ NoHost \in 0..N
  BY <1>0, ComputersAssumption, BoundsAssumption
     DEF IInv, TypeOK, HostsOK, PlacesOK, ClaimsOK, observeRelease, Nobody, Hosts, NoHost
<1>a. place[c].st \notin {"ADOPTING", "RUNNING"}
  BY <1>1 DEF PlaceOK
<1>2. UNCHANGED <<row, exec, calls, refusals, deleted, demand, faults>>
  BY DEF observeRelease, Others
<1>3. CASE /\ place[c].x = "running" /\ X(c, "detached")
           /\ vol' = [vol EXCEPT ![c] = NoHost] /\ UNCHANGED ec2
  <2>1. Wrote(c, place[c].st, "release", "detached")
    BY <1>1, <1>3, MovedProgress DEF Progress
  <2>2. /\ vol' \in [Computers -> 0..N] /\ vol'[c] = NoHost
        /\ \A d \in Computers \ {c} : vol'[d] = vol[d]
    BY <1>1, <1>3
  <2>3. HostOK(h)'
    BY <1>1, <1>2, <1>3 DEF HostOK
  <2>4. PlaceOK(c)'
    BY <1>0, <1>1, <1>a, <1>2, <2>1, <2>2 DEF PlaceOK, Wrote
  <2>5. \A g \in Hosts : row[g].lessee = c => ClaimOK(g)'
    BY <1>0, <1>1, <1>a, <1>2, <2>1 DEF ClaimOK, Wrote
  <2> QED
    BY <1>0, <1>1, <1>2, <1>3, <2>1, <2>2, <2>3, <2>4, <2>5, JobFrame DEF Wrote
<1>4. CASE /\ place[c].x = "detached" /\ X(c, "terminated")
           /\ ec2' = [ec2 EXCEPT ![h] = "gone"] /\ UNCHANGED vol
  <2>1. Wrote(c, place[c].st, "release", "terminated")
    BY <1>1, <1>4, MovedProgress DEF Progress
  <2>2. vol[c] = NoHost
    BY <1>1, <1>4 DEF PlaceOK
  <2>3. /\ ec2' \in [Hosts -> {"none", "pool", "claimed", "gone"}] /\ ec2'[h] = "gone"
        /\ \A g \in Hosts \ {h} : ec2'[g] = ec2[g]
    BY <1>1, <1>4
  <2>4. HostOK(h)'
    <3>1. ec2[h] # "none"
      BY <1>0, <1>1 DEF HostOK
    <3> QED
      BY <1>0, <1>1, <1>2, <2>3, <3>1 DEF HostOK
  <2>5. PlaceOK(c)'
    BY <1>0, <1>1, <1>a, <1>2, <1>4, <2>1, <2>2, <2>3 DEF PlaceOK, Wrote
  <2>6. \A g \in Hosts : row[g].lessee = c => ClaimOK(g)'
    BY <1>0, <1>1, <1>a, <1>2, <1>4, <2>1 DEF ClaimOK, Wrote
  <2> QED
    BY <1>0, <1>1, <1>a, <1>2, <1>4, <2>1, <2>2, <2>3, <2>4, <2>5, <2>6, JobFrame DEF Wrote
<1>5. CASE place[c].x = "terminated" /\ X(c, "succeeded") /\ UNCHANGED <<ec2, vol>>
  <2>1. Wrote(c, place[c].st, "release", "succeeded")
    BY <1>1, <1>5, MovedProgress DEF Progress
  <2>2. vol[c] = NoHost
    BY <1>1, <1>5 DEF PlaceOK
  <2>3. HostOK(h)'
    BY <1>1, <1>2, <1>5 DEF HostOK
  <2>4. PlaceOK(c)'
    BY <1>0, <1>1, <1>a, <1>2, <1>5, <2>1, <2>2 DEF PlaceOK, Wrote
  <2>5. \A g \in Hosts : row[g].lessee = c => ClaimOK(g)'
    BY <1>0, <1>1, <1>a, <1>2, <1>5, <2>1 DEF ClaimOK, Wrote
  <2> QED
    BY <1>0, <1>1, <1>a, <1>2, <1>5, <2>1, <2>2, <2>3, <2>4, <2>5, JobFrame DEF Wrote
<1> QED
  BY <1>0, <1>3, <1>4, <1>5 DEF observeRelease

-----------------------------------------------------------------------------
(* The steps that give rows their next job: the pass and a demand.         *)

\* A step that rewrites a set of rows that nobody leases, and hands calls over.
LEMMA RowsFrame ==
    ASSUME IInv, UNCHANGED <<place, deleted, exec, refusals, ec2, vol, faults>>,
           row' \in [Hosts -> HostRow], NEW S \in SUBSET Hosts,
           \A h \in Hosts \ S : row'[h] = row[h],
           \A h \in S : /\ row[h].lessee = Nobody /\ row'[h].lessee = Nobody
                        /\ row'[h].state # "leased" /\ row'[h].job # 0 /\ HostOK(h)',
           calls' \subseteq Call,
           \A call \in calls' \ calls : call.host \in S /\ call.res = "todo",
           demand' \in [by: Computers \cup {Nobody}, hosts: SUBSET Hosts],
           \A h \in demand'.hosts : row[h].lessee = Nobody
    PROVE  IInv'
<1>1. TypeOK'
  BY DEF IInv, TypeOK
<1>2. HostsOK'
  <2> SUFFICES ASSUME NEW h \in Hosts, h \notin S PROVE HostOK(h)'
    BY DEF HostsOK
  <2>1. HostOK(h) /\ row'[h] = row[h]
    BY DEF IInv, HostsOK
  <2> QED
    BY <2>1 DEF HostOK
<1>3. CallsOK'
  <2> SUFFICES ASSUME NEW call \in calls' PROVE CallOK(call)'
    BY DEF CallsOK
  <2>1. CASE call \in calls
    <3>1. CallOK(call) /\ call.host \in Hosts
      BY <2>1 DEF IInv, CallsOK, Call
    <3> QED
      BY <3>1 DEF CallOK
  <2>2. CASE call \notin calls
    BY <2>2 DEF CallOK
  <2> QED
    BY <2>1, <2>2
<1>4. PlacesOK'
  <2> SUFFICES ASSUME NEW c \in Computers PROVE PlaceOK(c)'
    BY DEF PlacesOK
  <2>1. PlaceOK(c) /\ c # Nobody
    BY ComputersAssumption DEF IInv, PlacesOK, Nobody
  <2>2. /\ place[c].st \in {"STALLED", "RUNNING"} \/ place[c].job \in {"adopt", "release"} =>
              row'[place[c].host] = row[place[c].host]
        /\ place[c].st = "ADOPTING" => row'[place[c].host] = row[place[c].host]
    BY <2>1 DEF PlaceOK
  <2> QED
    BY <2>1, <2>2 DEF PlaceOK
<1>5. AttachedHostIsBound'
  <2> SUFFICES ASSUME NEW c \in Computers, vol[c] # NoHost
               PROVE  row'[vol[c]] = row[vol[c]]
    BY DEF IInv, AttachedHostIsBound, Disowned
  <2>1. row[vol[c]].lessee = c /\ vol[c] \in Hosts /\ c # Nobody
    BY BoundsAssumption, ComputersAssumption
       DEF IInv, TypeOK, AttachedHostIsBound, Hosts, NoHost, Nobody
  <2> QED
    BY <2>1
<1>6. ClaimsOK'
  <2> SUFFICES ASSUME NEW h \in Hosts PROVE ClaimOK(h)'
    BY DEF ClaimsOK
  <2>1. CASE h \in S
    BY <2>1 DEF ClaimOK
  <2>2. CASE h \notin S
    BY <2>2 DEF IInv, ClaimsOK, ClaimOK
  <2> QED
    BY <2>1, <2>2
<1>7. EarmarkedNotAdopted'
  <2> SUFFICES ASSUME NEW h \in demand'.hosts PROVE row'[h].lessee = Nobody
    BY DEF EarmarkedNotAdopted
  <2>1. h \in Hosts /\ row[h].lessee = Nobody
    OBVIOUS
  <2> QED
    BY <2>1
<1> QED
  BY <1>1, <1>2, <1>3, <1>4, <1>5, <1>6, <1>7 DEF IInv

\* What prepare gives the rows of a set, and that it leaves the others alone.
LEMMA Prepared ==
    ASSUME NEW R \in [Hosts -> HostRow], NEW S \in SUBSET Hosts,
           NEW state \in {"booting", "retiring"}, \A h \in S : R[h].job + 1 \in Jobs
    PROVE  /\ Prepare(R, S, state) \in [Hosts -> HostRow]
           /\ \A h \in Hosts \ S : Prepare(R, S, state)[h] = R[h]
           /\ \A h \in S :
                 LET r == Prepare(R, S, state)[h] IN
                 /\ r.state = state /\ r.job = R[h].job + 1 /\ r.dispatch = "pending"
                 /\ r.inst = R[h].inst /\ r.lessee = R[h].lessee /\ r.claim = R[h].claim
<1>1. \A h \in S :
         LET r == [R[h] EXCEPT !.state = state, !.job = R[h].job + 1, !.dispatch = "pending"] IN
         /\ r \in HostRow /\ r.state = state /\ r.job = R[h].job + 1 /\ r.dispatch = "pending"
         /\ r.inst = R[h].inst /\ r.lessee = R[h].lessee /\ r.claim = R[h].claim
  <2> SUFFICES ASSUME NEW h \in S
               PROVE  LET r == [R[h] EXCEPT !.state = state, !.job = R[h].job + 1,
                                            !.dispatch = "pending"] IN
                      /\ r \in HostRow /\ r.state = state /\ r.job = R[h].job + 1
                      /\ r.dispatch = "pending" /\ r.inst = R[h].inst
                      /\ r.lessee = R[h].lessee /\ r.claim = R[h].claim
    OBVIOUS
  <2>1. R[h] \in HostRow /\ R[h].job + 1 \in Jobs
    OBVIOUS
  <2> QED
    BY <2>1 DEF HostRow
<1>2. \A h \in Hosts : Prepare(R, S, state)[h] =
         IF h \in S THEN [R[h] EXCEPT !.state = state, !.job = R[h].job + 1, !.dispatch = "pending"]
         ELSE R[h]
  BY DEF Prepare
<1>3. Prepare(R, S, state) \in [Hosts -> HostRow]
  BY <1>1 DEF Prepare
<1> QED
  BY <1>1, <1>2, <1>3

\* The jobs that are handed to the dispatcher.
LEMMA Dispatched ==
    ASSUME IInv, NEW S \in SUBSET Hosts, \A h \in S : row[h].job + 1 \in Jobs
    PROVE  /\ calls \cup Dispatch(S) \subseteq Call
           /\ \A call \in (calls \cup Dispatch(S)) \ calls :
                 call.host \in S /\ call.res = "todo"
BY DEF Dispatch, Call, IInv, TypeOK

\* The next job of a row whose provision has settled.
LEMMA NextRetire ==
    ASSUME IInv, NEW h \in Hosts, canRetire(h), row[h].state # "retired",
           UNCHANGED <<exec, refusals, ec2>>,
           row'[h].state = "retiring", row'[h].job = row[h].job + 1,
           row'[h].dispatch = "pending", row'[h].inst = row[h].inst,
           row'[h].lessee = row[h].lessee, row'[h].claim = row[h].claim
    PROVE  /\ row[h].lessee = Nobody /\ row'[h].lessee = Nobody
           /\ row'[h].state # "leased" /\ row'[h].job # 0 /\ HostOK(h)'
<1>1. HostOK(h) /\ row[h] \in HostRow
  BY DEF IInv, TypeOK, HostsOK
<1>2. row[h].dispatch = "settled" /\ row[h].lessee = Nobody /\ row[h].inst
  BY DEF canRetire
<1>3. row[h].job \in Jobs /\ row[h].job + 1 > Provision /\ row[h].job + 1 # 0
  BY <1>1, <1>2 DEF HostOK, HostRow, Jobs, Provision
<1>4. exec[h][Provision] \in Ended
  BY <1>1, <1>2 DEF HostOK
<1>5. HostOK(h)'
  BY <1>1, <1>2, <1>3, <1>4 DEF HostOK
<1> QED
  BY <1>2, <1>3, <1>5

\* A demand retires idle hosts and earmarks those it cannot retire yet.
LEMMA ReservePoolDemandStep ==
    ASSUME IInv, NEW c \in Computers, reservePoolDemand(c)
    PROVE  IInv'
<1>1. PICK picked \in SUBSET Reclaimable :
        LET now == {h \in picked : canRetire(h)} IN
        /\ row' = Prepare(row, now, "retiring")
        /\ calls' = calls \cup Dispatch(now)
        /\ demand' = [by |-> c, hosts |-> picked]
  BY DEF reservePoolDemand
<1> DEFINE now == {h \in picked : canRetire(h)}
<1>2. UNCHANGED <<place, deleted, exec, refusals, ec2, vol, faults>>
  BY DEF reservePoolDemand
<1>3. picked \subseteq Hosts /\ \A h \in picked : row[h].lessee = Nobody
  BY <1>1 DEF Reclaimable
<1>4. row \in [Hosts -> HostRow] /\ now \in SUBSET Hosts
  BY <1>3 DEF IInv, TypeOK
<1>5. \A h \in now : row[h].job + 1 \in Jobs
  BY <1>4, BoundsAssumption DEF canRetire, HostRow, Jobs, LastJob
<1>6. row' = Prepare(row, now, "retiring") /\ calls' = calls \cup Dispatch(now)
  BY <1>1
<1>7. \A h \in now : canRetire(h) /\ row[h].state # "retired"
  BY DEF Reclaimable
<1>8. demand' \in [by: Computers \cup {Nobody}, hosts: SUBSET Hosts]
      /\ \A h \in demand'.hosts : row[h].lessee = Nobody
  BY <1>1, <1>3
<1> HIDE DEF now
<1>9. /\ row' \in [Hosts -> HostRow] /\ \A h \in Hosts \ now : row'[h] = row[h]
      /\ \A h \in now :
            /\ row'[h].state = "retiring" /\ row'[h].job = row[h].job + 1
            /\ row'[h].dispatch = "pending" /\ row'[h].inst = row[h].inst
            /\ row'[h].lessee = row[h].lessee /\ row'[h].claim = row[h].claim
  BY <1>4, <1>5, <1>6, Prepared
<1>10. \A h \in now : /\ row[h].lessee = Nobody /\ row'[h].lessee = Nobody
                      /\ row'[h].state # "leased" /\ row'[h].job # 0 /\ HostOK(h)'
  BY <1>2, <1>4, <1>7, <1>9, NextRetire
<1>11. /\ calls' \subseteq Call
       /\ \A call \in calls' \ calls : call.host \in now /\ call.res = "todo"
  BY <1>4, <1>5, <1>6, Dispatched
<1> QED
  BY <1>2, <1>4, <1>8, <1>9, <1>10, <1>11, RowsFrame


\* What the pass writes, and the room it found for the rows it inserts.
LEMMA PassWrites ==
    ASSUME IInv, runPoolReplenish
    PROVE  \E open \in {demand, [by |-> Nobody, hosts |-> {}]},
              failedNow \in SUBSET {h \in Hosts : row[h].state = "booting" /\ row[h].lessee = Nobody},
              retire \in SUBSET Hosts,
              new \in SUBSET {h \in Hosts : row[h].state = "none"} :
        /\ \A h \in retire : canRetire(h) /\ row[h].state # "retired"
        /\ row' = Prepare(Prepare([h \in Hosts |-> IF h \in failedNow
                                                   THEN [row[h] EXCEPT !.state = "failed"]
                                                   ELSE row[h]],
                                  retire, "retiring"), new, "booting")
        /\ calls' = calls \cup Dispatch(retire \cup new)
        /\ demand' = open
        /\ Cardinality(new) > 0 =>
              vcpuInUse(row, place) + (IF open.by = Nobody THEN 0 ELSE 1) + Cardinality(new) <= Cap
<1>1. PICK open \in {demand, [by |-> Nobody, hosts |-> {}]},
           fail \in SUBSET {h \in Hosts : row[h].state = "booting" /\ row[h].lessee = Nobody},
           new \in SUBSET {h \in Hosts : row[h].state = "none"} :
      LET n == Cardinality(new)
          stranded == {h \in Hosts : row[h].state = "retiring" /\ canRetire(h)}
          earmarked == {h \in open.hosts : /\ canRetire(h)
                                           /\ row[h].state \in {"booting", "ready", "failed"}}
          failedNow == fail \ earmarked
          failed == {h \in Hosts : row[h].state = "failed"} \cup failedNow
          idle == {h \in Hosts : row[h].state = "ready" /\ row[h].lessee = Nobody}
      IN  /\ open.by \notin deleted
          /\ n <= provisionBudget
          /\ \A h \in new, g \in Hosts \ new : row[g].state = "none" => h < g
          /\ n > 0 => vcpuInUse(row, place) + (IF open.by = Nobody THEN 0 ELSE 1) + n <= Cap
          /\ \E given \in SUBSET {h \in (failed \cup idle) \ earmarked : canRetire(h)} :
             LET retire == stranded \cup earmarked \cup given
                 marked == [h \in Hosts |-> IF h \in failedNow
                                            THEN [row[h] EXCEPT !.state = "failed"] ELSE row[h]]
             IN  /\ Cardinality(given) <= retireBudget
                 /\ Cardinality(given) < retireBudget =>
                       \A h \in failed \ earmarked : canRetire(h) => h \in given
                 /\ row' = Prepare(Prepare(marked, retire, "retiring"), new, "booting")
                 /\ calls' = calls \cup Dispatch(retire \cup new)
                 /\ demand' = open
                 /\ UNCHANGED <<place, deleted, exec, refusals, ec2, vol, faults>>
  BY DEF runPoolReplenish
<1> DEFINE stranded == {h \in Hosts : row[h].state = "retiring" /\ canRetire(h)}
           earmarked == {h \in open.hosts : /\ canRetire(h)
                                            /\ row[h].state \in {"booting", "ready", "failed"}}
           failedNow == fail \ earmarked
           failed == {h \in Hosts : row[h].state = "failed"} \cup failedNow
           idle == {h \in Hosts : row[h].state = "ready" /\ row[h].lessee = Nobody}
<1>2. PICK given \in SUBSET {h \in (failed \cup idle) \ earmarked : canRetire(h)} :
        /\ row' = Prepare(Prepare([h \in Hosts |-> IF h \in failedNow
                                                   THEN [row[h] EXCEPT !.state = "failed"]
                                                   ELSE row[h]],
                                  stranded \cup earmarked \cup given, "retiring"),
                          new, "booting")
        /\ calls' = calls \cup Dispatch((stranded \cup earmarked \cup given) \cup new)
        /\ demand' = open
        /\ Cardinality(new) > 0 =>
              vcpuInUse(row, place) + (IF open.by = Nobody THEN 0 ELSE 1) + Cardinality(new) <= Cap
  BY <1>1
<1>3. open.hosts \subseteq Hosts
  BY DEF IInv, TypeOK
<1>4. /\ stranded \cup earmarked \cup given \in SUBSET Hosts
      /\ \A h \in stranded \cup earmarked \cup given :
            canRetire(h) /\ row[h].state # "retired"
      /\ failedNow \in SUBSET {h \in Hosts : row[h].state = "booting" /\ row[h].lessee = Nobody}
  BY <1>3
<1> HIDE DEF stranded, earmarked, failedNow
<1> QED
  BY <1>2, <1>4

\* What a pass of replenish writes, row by row.
LEMMA Replenished ==
    ASSUME IInv, runPoolReplenish
    PROVE  \E failedNow \in SUBSET {h \in Hosts : row[h].state = "booting"},
              retire \in SUBSET Hosts,
              new \in SUBSET {h \in Hosts : row[h].state = "none"} :
           /\ row' \in [Hosts -> HostRow]
           /\ \A h \in Hosts \ (retire \cup new \cup failedNow) : row'[h] = row[h]
           /\ \A h \in retire :
                 /\ h \notin new /\ canRetire(h) /\ row[h].state # "retired"
                 /\ row'[h].state = "retiring" /\ row'[h].job = row[h].job + 1
                 /\ row'[h].dispatch = "pending" /\ row'[h].inst = row[h].inst
                 /\ row'[h].lessee = row[h].lessee /\ row'[h].claim = row[h].claim
           /\ \A h \in new :
                 /\ row'[h].state = "booting" /\ row'[h].job = 1 /\ row'[h].dispatch = "pending"
                 /\ row'[h].inst = row[h].inst /\ row'[h].lessee = Nobody
                 /\ row'[h].claim = row[h].claim /\ row[h].lessee = Nobody
           /\ \A h \in failedNow \ retire :
                 /\ h \notin new /\ row[h].state = "booting" /\ row[h].lessee = Nobody
                 /\ row'[h].state = "failed" /\ row'[h].job = row[h].job
                 /\ row'[h].dispatch = row[h].dispatch /\ row'[h].inst = row[h].inst
                 /\ row'[h].lessee = Nobody /\ row'[h].claim = row[h].claim
           /\ calls' \subseteq Call
           /\ \A call \in calls' \ calls : call.host \in retire \cup new /\ call.res = "todo"
           /\ demand' \in {demand, [by |-> Nobody, hosts |-> {}]}
<1>1. PICK open \in {demand, [by |-> Nobody, hosts |-> {}]},
           failedNow \in SUBSET {h \in Hosts : row[h].state = "booting" /\ row[h].lessee = Nobody},
           retire \in SUBSET Hosts,
           new \in SUBSET {h \in Hosts : row[h].state = "none"} :
        /\ \A h \in retire : canRetire(h) /\ row[h].state # "retired"
        /\ row' = Prepare(Prepare([h \in Hosts |-> IF h \in failedNow
                                                   THEN [row[h] EXCEPT !.state = "failed"]
                                                   ELSE row[h]],
                                  retire, "retiring"), new, "booting")
        /\ calls' = calls \cup Dispatch(retire \cup new)
        /\ demand' = open
  BY PassWrites
<1> DEFINE marked == [h \in Hosts |-> IF h \in failedNow
                                      THEN [row[h] EXCEPT !.state = "failed"] ELSE row[h]]
           moved == Prepare(marked, retire, "retiring")
<1>3. row \in [Hosts -> HostRow]
  BY DEF IInv, TypeOK
<1>4. /\ \A h \in retire : row[h].dispatch = "settled" /\ row[h].lessee = Nobody
                           /\ row[h].job + 1 \in Jobs
      /\ \A h \in failedNow : row[h].state = "booting" /\ row[h].lessee = Nobody
      /\ \A h \in new : row[h].state = "none"
  <2>1. \A h \in retire : row[h].job \in Jobs \cup {0} /\ row[h].job < LastJob
    BY <1>1, <1>3 DEF canRetire, HostRow
  <2>2. \A h \in retire : row[h].job + 1 \in Jobs
    BY <2>1, BoundsAssumption DEF Jobs, LastJob
  <2> QED
    BY <1>1, <2>2 DEF canRetire
<1>5. \A h \in new : /\ row[h].job = 0 /\ row[h].dispatch = "none" /\ row[h].lessee = Nobody
                     /\ row[h].job + 1 \in Jobs /\ HostOK(h)
  <2> SUFFICES ASSUME NEW h \in new
               PROVE  /\ row[h].job = 0 /\ row[h].dispatch = "none" /\ row[h].lessee = Nobody
                      /\ row[h].job + 1 \in Jobs /\ HostOK(h)
    OBVIOUS
  <2>1. HostOK(h) /\ row[h].state = "none" /\ row[h].lessee = Nobody
    BY <1>4 DEF IInv, HostsOK, TypeOK
  <2>2. 1 \in Jobs
    BY BoundsAssumption DEF Jobs, LastJob
  <2> QED
    BY <2>1, <2>2 DEF HostOK
<1>6. /\ marked \in [Hosts -> HostRow]
      /\ \A h \in Hosts \ failedNow : marked[h] = row[h]
      /\ \A h \in Hosts : /\ marked[h].job = row[h].job /\ marked[h].inst = row[h].inst
                          /\ marked[h].lessee = row[h].lessee /\ marked[h].claim = row[h].claim
                          /\ marked[h].dispatch = row[h].dispatch
      /\ \A h \in failedNow : marked[h].state = "failed"
  <2>1. \A h \in Hosts : row[h] \in HostRow
    BY <1>3
  <2>2. \A h \in Hosts : [row[h] EXCEPT !.state = "failed"] \in HostRow
    BY <2>1 DEF HostRow
  <2>3. marked \in [Hosts -> HostRow]
    BY <2>1, <2>2
  <2> QED
    BY <2>1, <2>3 DEF HostRow
<1>7. /\ \A h \in retire : marked[h].job + 1 \in Jobs
      /\ \A h \in new : h \notin retire /\ h \notin failedNow /\ h \in Hosts
      /\ failedNow \subseteq Hosts
  BY <1>4, <1>5
<1>8. row' = Prepare(moved, new, "booting") /\ calls' = calls \cup Dispatch(retire \cup new)
  BY <1>1
<1> HIDE DEF marked
<1>9. /\ moved \in [Hosts -> HostRow]
      /\ \A h \in Hosts \ retire : moved[h] = marked[h]
      /\ \A h \in retire :
            /\ moved[h].state = "retiring" /\ moved[h].job = marked[h].job + 1
            /\ moved[h].dispatch = "pending" /\ moved[h].inst = marked[h].inst
            /\ moved[h].lessee = marked[h].lessee /\ moved[h].claim = marked[h].claim
  BY <1>6, <1>7, Prepared
<1>10. \A h \in new : moved[h] = row[h]
  BY <1>6, <1>7, <1>9
<1> HIDE DEF moved
<1>11. \A h \in new : moved[h].job + 1 \in Jobs
  BY <1>5, <1>10
<1>12. /\ row' \in [Hosts -> HostRow]
       /\ \A h \in Hosts \ new : row'[h] = moved[h]
       /\ \A h \in new :
             /\ row'[h].state = "booting" /\ row'[h].job = moved[h].job + 1
             /\ row'[h].dispatch = "pending" /\ row'[h].inst = moved[h].inst
             /\ row'[h].lessee = moved[h].lessee /\ row'[h].claim = moved[h].claim
  BY <1>8, <1>9, <1>11, Prepared
<1>13. \A h \in Hosts \ (retire \cup new \cup failedNow) : row'[h] = row[h]
  BY <1>6, <1>9, <1>12
<1>14. \A h \in retire :
          /\ h \notin new /\ canRetire(h) /\ row[h].state # "retired"
          /\ row'[h].state = "retiring" /\ row'[h].job = row[h].job + 1
          /\ row'[h].dispatch = "pending" /\ row'[h].inst = row[h].inst
          /\ row'[h].lessee = row[h].lessee /\ row'[h].claim = row[h].claim
  BY <1>1, <1>6, <1>7, <1>9, <1>12
<1>15. \A h \in new :
          /\ row'[h].state = "booting" /\ row'[h].job = 1 /\ row'[h].dispatch = "pending"
          /\ row'[h].inst = row[h].inst /\ row'[h].lessee = Nobody
          /\ row'[h].claim = row[h].claim /\ row[h].lessee = Nobody
  BY <1>5, <1>10, <1>12
<1>16. \A h \in failedNow \ retire :
          /\ h \notin new /\ row[h].state = "booting" /\ row[h].lessee = Nobody
          /\ row'[h].state = "failed" /\ row'[h].job = row[h].job
          /\ row'[h].dispatch = row[h].dispatch /\ row'[h].inst = row[h].inst
          /\ row'[h].lessee = Nobody /\ row'[h].claim = row[h].claim
  <2> SUFFICES ASSUME NEW h \in failedNow \ retire
               PROVE  /\ h \notin new /\ row[h].state = "booting" /\ row[h].lessee = Nobody
                      /\ row'[h].state = "failed" /\ row'[h].job = row[h].job
                      /\ row'[h].dispatch = row[h].dispatch /\ row'[h].inst = row[h].inst
                      /\ row'[h].lessee = Nobody /\ row'[h].claim = row[h].claim
    OBVIOUS
  <2>1. h \in Hosts /\ h \notin new /\ row[h].state = "booting" /\ row[h].lessee = Nobody
    BY <1>4, <1>7
  <2>2. row'[h] = marked[h]
    BY <1>9, <1>12, <2>1
  <2> QED
    BY <1>6, <2>1, <2>2
<1>17. /\ calls' \subseteq Call
       /\ \A call \in calls' \ calls : call.host \in retire \cup new /\ call.res = "todo"
  <2>1. retire \cup new \in SUBSET Hosts /\ \A h \in retire \cup new : row[h].job + 1 \in Jobs
    BY <1>4, <1>5, <1>7
  <2> QED
    BY <1>8, <2>1, Dispatched
<1>18. demand' \in {demand, [by |-> Nobody, hosts |-> {}]}
  BY <1>1
<1>19. failedNow \in SUBSET {h \in Hosts : row[h].state = "booting"}
  OBVIOUS
<1>20. new \in SUBSET {h \in Hosts : row[h].state = "none"} /\ retire \in SUBSET Hosts
  OBVIOUS
<1> WITNESS failedNow \in SUBSET {h \in Hosts : row[h].state = "booting"},
            retire \in SUBSET Hosts,
            new \in SUBSET {h \in Hosts : row[h].state = "none"}
<1> QED
  BY <1>12, <1>13, <1>14, <1>15, <1>16, <1>17, <1>18, <1>19

\* The minutely pass.
LEMMA RunPoolReplenishStep ==
    ASSUME IInv, runPoolReplenish
    PROVE  IInv'
<1>1. PICK failedNow \in SUBSET {h \in Hosts : row[h].state = "booting"},
           retire \in SUBSET Hosts,
           new \in SUBSET {h \in Hosts : row[h].state = "none"} :
           /\ row' \in [Hosts -> HostRow]
           /\ \A h \in Hosts \ (retire \cup new \cup failedNow) : row'[h] = row[h]
           /\ \A h \in retire :
                 /\ h \notin new /\ canRetire(h) /\ row[h].state # "retired"
                 /\ row'[h].state = "retiring" /\ row'[h].job = row[h].job + 1
                 /\ row'[h].dispatch = "pending" /\ row'[h].inst = row[h].inst
                 /\ row'[h].lessee = row[h].lessee /\ row'[h].claim = row[h].claim
           /\ \A h \in new :
                 /\ row'[h].state = "booting" /\ row'[h].job = 1 /\ row'[h].dispatch = "pending"
                 /\ row'[h].inst = row[h].inst /\ row'[h].lessee = Nobody
                 /\ row'[h].claim = row[h].claim /\ row[h].lessee = Nobody
           /\ \A h \in failedNow \ retire :
                 /\ h \notin new /\ row[h].state = "booting" /\ row[h].lessee = Nobody
                 /\ row'[h].state = "failed" /\ row'[h].job = row[h].job
                 /\ row'[h].dispatch = row[h].dispatch /\ row'[h].inst = row[h].inst
                 /\ row'[h].lessee = Nobody /\ row'[h].claim = row[h].claim
           /\ calls' \subseteq Call
           /\ \A call \in calls' \ calls : call.host \in retire \cup new /\ call.res = "todo"
           /\ demand' \in {demand, [by |-> Nobody, hosts |-> {}]}
  BY Replenished
<1> DEFINE S == retire \cup new \cup failedNow
<1>2. UNCHANGED <<place, deleted, exec, refusals, ec2, vol, faults>>
  BY DEF runPoolReplenish
<1>3. \A h \in Hosts : HostOK(h)
  BY DEF IInv, HostsOK
<1>4. \A h \in retire : /\ row[h].lessee = Nobody /\ row'[h].lessee = Nobody
                        /\ row'[h].state # "leased" /\ row'[h].job # 0 /\ HostOK(h)'
  BY <1>1, <1>2, NextRetire
<1>5. \A h \in new : /\ row[h].lessee = Nobody /\ row'[h].lessee = Nobody
                     /\ row'[h].state # "leased" /\ row'[h].job # 0 /\ HostOK(h)'
  <2> SUFFICES ASSUME NEW h \in new
               PROVE  /\ row[h].lessee = Nobody /\ row'[h].lessee = Nobody
                      /\ row'[h].state # "leased" /\ row'[h].job # 0 /\ HostOK(h)'
    OBVIOUS
  <2>1. /\ row'[h].state = "booting" /\ row'[h].job = 1 /\ row'[h].dispatch = "pending"
        /\ row'[h].inst = row[h].inst /\ row'[h].lessee = Nobody
        /\ row'[h].claim = row[h].claim /\ row[h].lessee = Nobody
    BY <1>1
  <2>2. h \in Hosts /\ HostOK(h) /\ row[h].state = "none"
    BY <1>3
  <2>3. exec[h][Provision] = "absent"
    BY <2>2 DEF HostOK
  <2>4. HostOK(h)'
    BY <1>2, <2>1, <2>2, <2>3 DEF HostOK, Provision
  <2> QED
    BY <2>1, <2>4
<1>6. \A h \in failedNow \ retire :
          /\ row[h].lessee = Nobody /\ row'[h].lessee = Nobody
          /\ row'[h].state # "leased" /\ row'[h].job # 0 /\ HostOK(h)'
  <2> SUFFICES ASSUME NEW h \in failedNow \ retire
               PROVE  /\ row[h].lessee = Nobody /\ row'[h].lessee = Nobody
                      /\ row'[h].state # "leased" /\ row'[h].job # 0 /\ HostOK(h)'
    OBVIOUS
  <2>1. /\ row[h].state = "booting" /\ row[h].lessee = Nobody
        /\ row'[h].state = "failed" /\ row'[h].job = row[h].job
        /\ row'[h].dispatch = row[h].dispatch /\ row'[h].inst = row[h].inst
        /\ row'[h].lessee = Nobody /\ row'[h].claim = row[h].claim
    BY <1>1
  <2>2. HostOK(h) /\ row[h] \in HostRow
    BY <1>3 DEF IInv, TypeOK
  <2>3. row[h].job # 0
    BY <2>1, <2>2 DEF HostOK
  <2>4. HostOK(h)'
    BY <1>2, <2>1, <2>2, <2>3 DEF HostOK
  <2> QED
    BY <2>1, <2>3, <2>4
<1>7. /\ S \in SUBSET Hosts
      /\ \A h \in Hosts \ S : row'[h] = row[h]
      /\ \A h \in S : /\ row[h].lessee = Nobody /\ row'[h].lessee = Nobody
                       /\ row'[h].state # "leased" /\ row'[h].job # 0 /\ HostOK(h)'
  BY <1>1, <1>4, <1>5, <1>6
<1>8. /\ calls' \subseteq Call
      /\ \A call \in calls' \ calls : call.host \in S /\ call.res = "todo"
  BY <1>1
<1>9. /\ demand' \in [by: Computers \cup {Nobody}, hosts: SUBSET Hosts]
      /\ \A h \in demand'.hosts : row[h].lessee = Nobody
  BY <1>1 DEF IInv, TypeOK, EarmarkedNotAdopted
<1>10. row' \in [Hosts -> HostRow]
  BY <1>1
<1> HIDE DEF S
<1> QED
  BY <1>2, <1>7, <1>8, <1>9, <1>10, RowsFrame

-----------------------------------------------------------------------------
(* The induction.                                                          *)

\* The empty fleet satisfies the invariant.
LEMMA InitIInv == Init => IInv
<1> SUFFICES ASSUME Init PROVE IInv
  OBVIOUS
<1>1. /\ Unborn \in HostRow /\ NewPlace \in Place /\ Provision \in Jobs
  <2>1. Unborn \in HostRow
    BY BoundsAssumption DEF Unborn, HostRow, Epochs, Nobody
  <2>2. NewPlace \in Place
    BY BoundsAssumption
       DEF NewPlace, Place, Epochs, NoHost, PlaceState, Operation, Progress
  <2>3. Provision \in Jobs
    BY BoundsAssumption DEF Provision, Jobs, LastJob
  <2> QED
    BY <2>1, <2>2, <2>3
<1>2. TypeOK
  <2>1. row \in [Hosts -> HostRow] /\ place \in [Computers -> Place]
    BY <1>1 DEF Init
  <2>2. \A h \in Hosts : row[h].lessee = Nobody
    BY DEF Init, Unborn
  <2>3. /\ exec \in [Hosts -> [Jobs -> Exec]] /\ faults \in 0..MaxFaults
        /\ vol \in [Computers -> 0..N]
        /\ ec2 \in [Hosts -> {"none", "pool", "claimed", "gone"}]
    BY BoundsAssumption DEF Init, Exec, NoHost
  <2>4. demand \in [by: Computers \cup {Nobody}, hosts: SUBSET Hosts]
    BY DEF Init
  <2> QED
    BY <2>1, <2>2, <2>3, <2>4 DEF Init, TypeOK
<1>3. HostsOK
  <2> SUFFICES ASSUME NEW h \in Hosts PROVE HostOK(h)
    BY DEF HostsOK
  <2>1. row[h] = Unborn /\ ec2[h] = "none" /\ \A j \in Jobs : exec[h][j] = "absent"
    BY DEF Init
  <2> QED
    BY <1>1, <2>1 DEF HostOK, Unborn, Provision, Nobody
<1>4. PlacesOK
  <2> SUFFICES ASSUME NEW c \in Computers PROVE PlaceOK(c)
    BY DEF PlacesOK
  <2>1. place[c] = NewPlace
    BY DEF Init
  <2> QED
    BY <2>1 DEF PlaceOK, NewPlace, NoHost
<1>5. CallsOK /\ AttachedHostIsBound /\ EarmarkedNotAdopted
  BY DEF Init, CallsOK, AttachedHostIsBound, EarmarkedNotAdopted
<1>6. ClaimsOK
  BY DEF Init, Unborn, ClaimsOK, ClaimOK
<1> QED
  BY <1>2, <1>3, <1>4, <1>5, <1>6 DEF IInv

\* A stuttering step preserves the invariant.
LEMMA StutterStep ==
    ASSUME IInv, UNCHANGED vars
    PROVE  IInv'
BY DEF vars, IInv, TypeOK, HostsOK, HostOK, CallsOK, CallOK, PlacesOK, PlaceOK, ClaimsOK,
       ClaimOK, AttachedHostIsBound, Disowned, EarmarkedNotAdopted

\* The dispatcher's steps preserve the invariant.
LEMMA DispatcherStep ==
    ASSUME IInv, Dispatcher
    PROVE  IInv'
<1>1. PICK call \in calls : startLifecycleJob(call) \/ outcome(call) \/ Crash(call)
  BY DEF Dispatcher
<1> QED
  BY <1>1, StartLifecycleJobStep, OutcomeStep, CrashStep

\* So do the steps of one host's row, executions and agent.
LEMMA HostStep ==
    ASSUME IInv, NEW h \in Hosts, reconcile(h) \/ HostJob(h) \/ Agent(h)
    PROVE  IInv'
<1>1. CASE reconcile(h)
  BY <1>1, ReconcileStep
<1>2. CASE HostJob(h)
  BY <1>2, ObservePoolStep, ActPoolStep, FailPoolStep DEF HostJob
<1>3. CASE Agent(h)
  BY <1>3, RecordPoolEnrollmentStep, RecordPoolReadyStep, HandlePoolSessionReadyStep DEF Agent
<1> QED
  BY <1>1, <1>2, <1>3

\* So do the owner's requests.
LEMMA OwnerStep ==
    ASSUME IInv, NEW c \in Computers, Owner(c)
    PROVE  IInv'
BY LeasePoolHostStep, OpenColdStep, ColdStopStep, ReservePoolDemandStep,
   CancelComputerDemandStep, StartStopStep, TerminateStep DEF Owner

\* So do the executions of a computer's jobs.
LEMMA JobStep ==
    ASSUME IInv, NEW c \in Computers, Job(c)
    PROVE  IInv'
BY StartJobStep, ObserveAdoptStep, ObserveReleaseStep, ObserveRetireStep, FailJobStep
   DEF Job, JobRuns

\* So do the receipts of a computer's jobs.
LEMMA ReceiptStep ==
    ASSUME IInv, NEW c \in Computers, Receipt(c)
    PROVE  IInv'
BY PublishPoolClaimStep, AdoptRunningStep, FailStalledPoolAdoptStep, RecoverRefusedAdoptStep,
   ReceiptFailedStep, RetirePoolLeaseStep, ReleaseStoppedStep DEF Receipt

\* So does the fleet pass.
LEMMA FleetStep ==
    ASSUME IInv, NEW c \in Computers, Fleet(c)
    PROVE  IInv'
BY ReconcileStalledPoolAdoptStep, ReplaceStalledPoolAdoptStep, StartRecoveryStep,
   RecoveryFailedStep, CompleteAdoptRecoveryStep, ReconcileDeletedAwsComputersStep,
   RetireDoneStep DEF Fleet

\* Every step preserves the invariant.
LEMMA NextStep ==
    ASSUME IInv, [Next]_vars
    PROVE  IInv'
<1>1. CASE runPoolReplenish
  BY <1>1, RunPoolReplenishStep
<1>2. CASE Dispatcher
  BY <1>2, DispatcherStep
<1>3. CASE \E h \in Hosts : reconcile(h) \/ HostJob(h) \/ Agent(h)
  BY <1>3, HostStep
<1>4. CASE \E c \in Computers : Owner(c) \/ Job(c) \/ Receipt(c) \/ Fleet(c)
  BY <1>4, OwnerStep, JobStep, ReceiptStep, FleetStep
<1>5. CASE UNCHANGED vars
  BY <1>5, StutterStep
<1> QED
  BY <1>1, <1>2, <1>3, <1>4, <1>5 DEF Next

\* The invariant holds in every reachable state, whatever the interleaving of
\* transactions, calls, executions and crashes, and although AWS may refuse a start
\* to one caller and accept it from another.
THEOREM Inductive == Spec => []IInv
<1>1. Init => IInv
  BY InitIInv
<1>2. IInv /\ [Next]_vars => IInv'
  BY NextStep
<1> QED
  BY <1>1, <1>2, PTL DEF Spec

\* Every variable keeps its type; only leased or given-up rows name a lessee.
THEOREM TypeCorrect == Spec => []TypeOK
<1>1. IInv => TypeOK
  BY DEF IInv
<1> QED
  BY <1>1, Inductive, PTL

\* A machine that is up has a row that counts it: settledAs, and outcome unless
\* another start of the same provision was accepted, write a row off only where its
\* launch never happens or its machine is gone.
THEOREM MachinesAreNotLeaked == Spec => []NoLeakedMachine
<1>1. IInv => NoLeakedMachine
  <2> SUFFICES ASSUME IInv, NEW h \in Hosts, ec2[h] \in {"pool", "claimed"}, ~Disowned(h)
               PROVE  row[h].state \notin {"none", "retired"}
    BY DEF NoLeakedMachine
  <2>1. HostOK(h)
    BY DEF IInv, HostsOK
  <2> QED
    BY <2>1 DEF HostOK, Disowned
<1> QED
  BY <1>1, Inductive, PTL

\* Stop, detach, terminate: no machine ends under a disk, and no row is freed under
\* one but a disowned host's, which outcome writes off whoever has leased it.
THEOREM DisksStayBound == Spec => []AttachedHostIsBound
<1>1. IInv => AttachedHostIsBound
  BY DEF IInv
<1> QED
  BY <1>1, Inductive, PTL

\* publishPoolClaim, the stall and every way to STOPPED keep the claim a host may
\* read that of its computer's current epoch.
THEOREM ClaimsAreCurrent == Spec => []ClaimIsCurrent
<1>1. IInv => ClaimIsCurrent
  BY DEF IInv, ClaimsOK, ClaimOK, ClaimIsCurrent
<1> QED
  BY <1>1, Inductive, PTL

\* usableReady keeps leasePoolHost off the hosts a demand gave up.
THEOREM EarmarksHold == Spec => []EarmarkedNotAdopted
<1>1. IInv => EarmarkedNotAdopted
  BY DEF IInv
<1> QED
  BY <1>1, Inductive, PTL

-----------------------------------------------------------------------------
(* What a step may do to a row.                                            *)

\* SingleUse of one host.
UsedOnce(h) ==
    /\ row[h].state \in {"leased", "retiring", "failed", "retired"} =>
          row'[h].state \notin {"none", "booting", "ready"}
    /\ row[h].state # "ready" => row'[h].lessee \in {row[h].lessee, Nobody}
    /\ row[h].state = "retired" =>
          row'[h].state = "retired" \/ (row'[h].state = "failed" /\ Disowned(h))

\* A step that writes no row.
LEMMA UsedOnceKept ==
    ASSUME UNCHANGED row
    PROVE  \A h \in Hosts : UsedOnce(h)
BY DEF UsedOnce

\* A step that writes one row, and moves it forward or leaves its state.
LEMMA UsedOnceByOne ==
    ASSUME IInv, NEW h \in Hosts, NEW r, row' = [row EXCEPT ![h] = r],
           \/ r.state \in {row[h].state, "failed", "retiring", "retired"}
           \/ row[h].state \in {"booting", "ready"} /\ r.state \in {"ready", "leased"},
           row[h].state = "retired" =>
              r.state = "retired" \/ (r.state = "failed" /\ Disowned(h)),
           row[h].state # "ready" => r.lessee \in {row[h].lessee, Nobody}
    PROVE  \A g \in Hosts : UsedOnce(g)
<1>1. row \in [Hosts -> HostRow]
  BY DEF IInv, TypeOK
<1>2. row'[h] = r /\ \A g \in Hosts \ {h} : row'[g] = row[g]
  BY <1>1
<1>3. UsedOnce(h)
  BY <1>2 DEF UsedOnce
<1> QED
  BY <1>2, <1>3 DEF UsedOnce

\* A refused start ends a row; a row written off stays so.
LEMMA DispatcherUsesOnce ==
    ASSUME IInv, Dispatcher
    PROVE  \A h \in Hosts : UsedOnce(h)
<1>1. PICK call \in calls : startLifecycleJob(call) \/ outcome(call) \/ Crash(call)
  BY DEF Dispatcher
<1>2. CASE UNCHANGED row
  BY <1>2, UsedOnceKept
<1>3. CASE /\ call.res = "refused"
           /\ row[call.host].job = call.job /\ row[call.host].dispatch = "pending"
           /\ row' = [row EXCEPT ![call.host].dispatch = "settled",
                                 ![call.host].state = refusedAs(call)]
  <2>1. PICK h \in Hosts : h = call.host
    BY DEF IInv, TypeOK, Call
  <2>2. HostOK(h) /\ row[h] \in HostRow
    BY DEF IInv, TypeOK, HostsOK
  <2> DEFINE r == [row[h] EXCEPT !.dispatch = "settled", !.state = refusedAs(call)]
  <2>3. /\ r.state = refusedAs(call) /\ r.lessee = row[h].lessee
        /\ refusedAs(call) \in {"retired", "failed"}
    BY <2>2 DEF HostRow, refusedAs
  <2>4. row' = [row EXCEPT ![h] = r]
    BY <1>3, <2>1
  <2>5. row[h].state = "retired" => refusedAs(call) = "retired"
    <3> SUFFICES ASSUME row[h].state = "retired" PROVE call.job = Provision
      BY DEF refusedAs
    <3>1. call.job = row[h].job /\ row[h].dispatch = "pending"
      BY <1>3, <2>1
    <3>2. row[h].job # 0 /\ ~(row[h].job > Provision)
      BY <2>2, <3>1 DEF HostOK
    <3> QED
      BY <2>2, <3>1, <3>2 DEF HostRow, Jobs, Provision
  <2> HIDE DEF r
  <2> QED
    BY <2>3, <2>4, <2>5, UsedOnceByOne
<1> QED
  BY <1>1, <1>2, <1>3 DEF startLifecycleJob, outcome, Crash

\* Settling a row never opens it again.
LEMMA ReconcileUsesOnce ==
    ASSUME IInv, NEW h \in Hosts, reconcile(h)
    PROVE  \A g \in Hosts : UsedOnce(g)
<1>1. /\ HostOK(h) /\ row[h] \in HostRow /\ row[h].job \in Jobs
      /\ row[h].dispatch = "pending" \/ <<h, row[h].job>> \in refusals
  BY DEF IInv, TypeOK, HostsOK, HostOK, HostRow, reconcile, ReadPending
<1>2. CASE UNCHANGED row
  BY <1>2, UsedOnceKept
<1>3. CASE row' = [row EXCEPT ![h].inst = TRUE, ![h].dispatch = "settled",
                     ![h].state = IF row[h].job = Provision THEN @ ELSE "retired"]
  <2> DEFINE r == [row[h] EXCEPT !.inst = TRUE, !.dispatch = "settled",
                     !.state = IF row[h].job = Provision THEN @ ELSE "retired"]
  <2>1. r.state \in {row[h].state, "retired"} /\ r.lessee = row[h].lessee
    BY <1>1 DEF HostRow
  <2>2. row' = [row EXCEPT ![h] = r]
    BY <1>3
  <2> HIDE DEF r
  <2> QED
    BY <2>1, <2>2, UsedOnceByOne
<1>4. CASE /\ unleased(h) /\ exec[h][row[h].job] \in {"clean", "failed"}
           /\ row' = [row EXCEPT ![h].dispatch = "settled", ![h].state = settledAs(h)]
  <2> DEFINE r == [row[h] EXCEPT !.dispatch = "settled", !.state = settledAs(h)]
  <2>1. r.state \in {"retired", "failed"} /\ r.lessee = row[h].lessee
    BY <1>1 DEF HostRow, settledAs
  <2>2. row' = [row EXCEPT ![h] = r]
    BY <1>4
  <2>3. row[h].state = "retired" => r.state = "retired" \/ (r.state = "failed" /\ Disowned(h))
    <3> SUFFICES ASSUME row[h].state = "retired" PROVE Disowned(h)
      BY <2>1
    <3>1. <<h, row[h].job>> \in refusals
      BY <1>1, <1>4 DEF HostOK, unleased
    <3>2. row[h].job = Provision
      BY <1>1, <1>4 DEF HostOK
    <3> QED
      BY <1>4, <3>1, <3>2 DEF Disowned
  <2> HIDE DEF r
  <2> QED
    BY <2>1, <2>2, <2>3, UsedOnceByOne
<1> QED
  BY <1>2, <1>3, <1>4 DEF reconcile

\* A host's reports make only a booting row ready.
LEMMA AgentUsesOnce ==
    ASSUME IInv, NEW h \in Hosts, Agent(h)
    PROVE  \A g \in Hosts : UsedOnce(g)
<1>1. row[h] \in HostRow
  BY DEF IInv, TypeOK
<1>2. CASE recordPoolEnrollment(h)
  <2> DEFINE r == [row[h] EXCEPT !.inst = TRUE, !.enrolled = TRUE]
  <2>1. r.state = row[h].state /\ r.lessee = row[h].lessee
    BY <1>1 DEF HostRow
  <2>2. row' = [row EXCEPT ![h] = r]
    BY <1>2 DEF recordPoolEnrollment
  <2> HIDE DEF r
  <2> QED
    BY <2>1, <2>2, UsedOnceByOne
<1>3. CASE recordPoolReady(h)
  <2> DEFINE r == [row[h] EXCEPT !.state = "ready"]
  <2>1. r.state = "ready" /\ r.lessee = row[h].lessee
    BY <1>1 DEF HostRow
  <2>2. row' = [row EXCEPT ![h] = r] /\ row[h].state \in {"booting", "ready"}
    BY <1>3 DEF recordPoolReady
  <2> HIDE DEF r
  <2> QED
    BY <2>1, <2>2, UsedOnceByOne
<1>4. CASE handlePoolSessionReady(h)
  <2> DEFINE r == [row[h] EXCEPT !.session = TRUE]
  <2>1. r.state = row[h].state /\ r.lessee = row[h].lessee
    BY <1>1 DEF HostRow
  <2>2. row' = [row EXCEPT ![h] = r]
    BY <1>4 DEF handlePoolSessionReady
  <2> HIDE DEF r
  <2> QED
    BY <2>1, <2>2, UsedOnceByOne
<1> QED
  BY <1>2, <1>3, <1>4 DEF Agent

\* The pass reuses no row that was in use.
LEMMA ReplenishUsesOnce ==
    ASSUME IInv, runPoolReplenish
    PROVE  \A h \in Hosts : UsedOnce(h)
<1>1. PICK failedNow \in SUBSET {h \in Hosts : row[h].state = "booting"},
           retire \in SUBSET Hosts,
           new \in SUBSET {h \in Hosts : row[h].state = "none"} :
           /\ row' \in [Hosts -> HostRow]
           /\ \A h \in Hosts \ (retire \cup new \cup failedNow) : row'[h] = row[h]
           /\ \A h \in retire :
                 /\ h \notin new /\ canRetire(h) /\ row[h].state # "retired"
                 /\ row'[h].state = "retiring" /\ row'[h].job = row[h].job + 1
                 /\ row'[h].dispatch = "pending" /\ row'[h].inst = row[h].inst
                 /\ row'[h].lessee = row[h].lessee /\ row'[h].claim = row[h].claim
           /\ \A h \in new :
                 /\ row'[h].state = "booting" /\ row'[h].job = 1 /\ row'[h].dispatch = "pending"
                 /\ row'[h].inst = row[h].inst /\ row'[h].lessee = Nobody
                 /\ row'[h].claim = row[h].claim /\ row[h].lessee = Nobody
           /\ \A h \in failedNow \ retire :
                 /\ h \notin new /\ row[h].state = "booting" /\ row[h].lessee = Nobody
                 /\ row'[h].state = "failed" /\ row'[h].job = row[h].job
                 /\ row'[h].dispatch = row[h].dispatch /\ row'[h].inst = row[h].inst
                 /\ row'[h].lessee = Nobody /\ row'[h].claim = row[h].claim
           /\ calls' \subseteq Call
           /\ \A call \in calls' \ calls : call.host \in retire \cup new /\ call.res = "todo"
           /\ demand' \in {demand, [by |-> Nobody, hosts |-> {}]}
  BY Replenished
<1> SUFFICES ASSUME NEW h \in Hosts PROVE UsedOnce(h)
  OBVIOUS
<1>2. CASE h \in retire
  BY <1>1, <1>2 DEF UsedOnce
<1>3. CASE h \in new
  BY <1>1, <1>3 DEF UsedOnce
<1>4. CASE h \in failedNow \ retire
  BY <1>1, <1>4 DEF UsedOnce
<1>5. CASE h \notin retire \cup new \cup failedNow
  BY <1>1, <1>5 DEF UsedOnce
<1> QED
  BY <1>2, <1>3, <1>4, <1>5

\* Only a ready row is leased; a demand retires idle rows.
LEMMA OwnerUsesOnce ==
    ASSUME IInv, NEW c \in Computers, Owner(c)
    PROVE  \A h \in Hosts : UsedOnce(h)
<1>1. CASE UNCHANGED row
  BY <1>1, UsedOnceKept
<1>2. ASSUME NEW h \in Hosts, leasePoolHost(c, h)
      PROVE  \A g \in Hosts : UsedOnce(g)
  <2> DEFINE r == [row[h] EXCEPT !.state = "leased", !.lessee = c]
  <2>1. row[h] \in HostRow
    BY DEF IInv, TypeOK
  <2>2. r.state = "leased" /\ r.lessee = c
    BY <2>1 DEF HostRow
  <2>3. row' = [row EXCEPT ![h] = r] /\ row[h].state = "ready"
    BY <1>2 DEF leasePoolHost, usableReady
  <2> HIDE DEF r
  <2> QED
    BY <2>2, <2>3, UsedOnceByOne
<1>3. CASE reservePoolDemand(c)
  <2>1. PICK picked \in SUBSET Reclaimable :
          row' = Prepare(row, {h \in picked : canRetire(h)}, "retiring")
    BY <1>3 DEF reservePoolDemand
  <2> DEFINE now == {h \in picked : canRetire(h)}
  <2>2. /\ now \in SUBSET Hosts /\ \A h \in now : canRetire(h)
        /\ \A h \in now : row[h].state \in {"ready", "booting"}
    BY DEF Reclaimable
  <2>3. row \in [Hosts -> HostRow] /\ \A h \in Hosts : row[h].job \in Jobs \cup {0}
    BY DEF IInv, TypeOK, HostRow
  <2>4. \A h \in now : row[h].job + 1 \in Jobs
    BY <2>2, <2>3, BoundsAssumption DEF canRetire, Jobs, LastJob
  <2>5. row' = Prepare(row, now, "retiring")
    BY <2>1
  <2> HIDE DEF now
  <2>6. /\ \A h \in Hosts \ now : row'[h] = row[h]
        /\ \A h \in now : row'[h].state = "retiring" /\ row'[h].lessee = row[h].lessee
    BY <2>2, <2>3, <2>4, <2>5, Prepared
  <2> QED
    BY <2>2, <2>6 DEF UsedOnce
<1> QED
  BY <1>1, <1>2, <1>3 DEF Owner, openCold, coldStop, cancelComputerDemand, startStop, terminate

\* What an adopt's receipts do to the leased row.
LEMMA ReceiptUsesOnce ==
    ASSUME IInv, NEW c \in Computers, Receipt(c)
    PROVE  \A h \in Hosts : UsedOnce(h)
<1>1. CASE UNCHANGED row
  BY <1>1, UsedOnceKept
<1>2. PlaceOK(c)
  BY DEF IInv, PlacesOK
<1>3. CASE publishPoolClaim(c) \/ failStalledPoolAdopt(c) \/ recoverRefusedAdopt(c)
             \/ retirePoolLease(c)
  <2>1. PICK h \in Hosts : h = place[c].host
    BY <1>2, <1>3 DEF publishPoolClaim, failStalledPoolAdopt, recoverRefusedAdopt,
                      retirePoolLease, Released, Adopted, PlaceOK
  <2>2. row[h] \in HostRow
    BY DEF IInv, TypeOK
  <2>3. CASE publishPoolClaim(c)
    <3> DEFINE r == [row[h] EXCEPT !.claim = place[c].epoch]
    <3>1. r.state = row[h].state /\ r.lessee = row[h].lessee
      BY <2>2 DEF HostRow
    <3>2. row' = [row EXCEPT ![h] = r]
      BY <2>1, <2>3 DEF publishPoolClaim
    <3> HIDE DEF r
    <3> QED
      BY <3>1, <3>2, UsedOnceByOne
  <2>4. CASE failStalledPoolAdopt(c)
    <3> DEFINE r == [row[h] EXCEPT !.state = "retiring"]
    <3>1. r.state = "retiring" /\ r.lessee = row[h].lessee
      BY <2>2 DEF HostRow
    <3>2. row' = [row EXCEPT ![h] = r] /\ row[h].state = "leased"
      BY <2>1, <2>4 DEF failStalledPoolAdopt
    <3> HIDE DEF r
    <3> QED
      BY <3>1, <3>2, UsedOnceByOne
  <2>5. CASE recoverRefusedAdopt(c)
    <3> DEFINE r == [row[h] EXCEPT !.state = "retiring", !.lessee = Nobody]
    <3>1. r.state = "retiring" /\ r.lessee = Nobody
      BY <2>2 DEF HostRow
    <3>2. row' = [row EXCEPT ![h] = r] /\ row[h].state = "leased"
      BY <2>1, <2>5 DEF recoverRefusedAdopt
    <3> HIDE DEF r
    <3> QED
      BY <3>1, <3>2, UsedOnceByOne
  <2>6. CASE retirePoolLease(c)
    <3> DEFINE r == [row[h] EXCEPT !.state = "retired"]
    <3>1. r.state = "retired" /\ r.lessee = row[h].lessee
      BY <2>2 DEF HostRow
    <3>2. row' = [row EXCEPT ![h] = r]
      BY <2>1, <2>6 DEF retirePoolLease
    <3> HIDE DEF r
    <3> QED
      BY <3>1, <3>2, UsedOnceByOne
  <2> QED
    BY <1>3, <2>3, <2>4, <2>5, <2>6
<1> QED
  BY <1>1, <1>3 DEF Receipt, adoptRunning, receiptFailed, releaseStopped

\* The fleet pass only writes rows off.
LEMMA FleetUsesOnce ==
    ASSUME IInv, NEW c \in Computers, Fleet(c)
    PROVE  \A h \in Hosts : UsedOnce(h)
<1>1. CASE UNCHANGED row
  BY <1>1, UsedOnceKept
<1>2. CASE row' = [row EXCEPT ![place[c].host].state = "retired"]
           /\ (reconcileStalledPoolAdopt(c) \/ completeAdoptRecovery(c))
  <2>1. PlaceOK(c)
    BY DEF IInv, PlacesOK
  <2>2. PICK h \in Hosts : h = place[c].host
    BY <1>2, <2>1 DEF reconcileStalledPoolAdopt, completeAdoptRecovery, PlaceOK
  <2>3. row[h] \in HostRow
    BY DEF IInv, TypeOK
  <2> DEFINE r == [row[h] EXCEPT !.state = "retired"]
  <2>4. r.state = "retired" /\ r.lessee = row[h].lessee
    BY <2>3 DEF HostRow
  <2>5. row' = [row EXCEPT ![h] = r]
    BY <1>2, <2>2
  <2> HIDE DEF r
  <2> QED
    BY <2>4, <2>5, UsedOnceByOne
<1> QED
  BY <1>1, <1>2 DEF Fleet, reconcileStalledPoolAdopt, replaceStalledPoolAdopt, startRecovery,
     recoveryFailed, completeAdoptRecovery, reconcileDeletedAwsComputers, retireDone

\* Every step moves every row forward.
LEMMA NextUsesOnce ==
    ASSUME IInv, [Next]_vars
    PROVE  \A h \in Hosts : UsedOnce(h)
<1>1. CASE runPoolReplenish
  BY <1>1, ReplenishUsesOnce
<1>2. CASE Dispatcher
  BY <1>2, DispatcherUsesOnce
<1>3. ASSUME NEW h \in Hosts, reconcile(h) \/ HostJob(h) \/ Agent(h)
      PROVE  \A g \in Hosts : UsedOnce(g)
  <2>1. CASE HostJob(h)
    BY <2>1, UsedOnceKept DEF HostJob, observePool, actPool, failPool
  <2> QED
    BY <1>3, <2>1, ReconcileUsesOnce, AgentUsesOnce
<1>4. ASSUME NEW c \in Computers, Owner(c) \/ Job(c) \/ Receipt(c) \/ Fleet(c)
      PROVE  \A g \in Hosts : UsedOnce(g)
  <2>1. CASE Job(c)
    <3>1. UNCHANGED row
      BY <2>1 DEF Job, JobRuns, startJob, observeAdopt, observeRelease, observeRetire, failJob,
                  Others
    <3> QED
      BY <3>1, UsedOnceKept
  <2> QED
    BY <1>4, <2>1, OwnerUsesOnce, ReceiptUsesOnce, FleetUsesOnce
<1>5. CASE UNCHANGED vars
  BY <1>5, UsedOnceKept DEF vars
<1> QED
  BY <1>1, <1>2, <1>3, <1>4, <1>5 DEF Next

\* A host serves one computer, once: no step of any party takes a row back to
\* the pool or leases it to a second computer.
THEOREM HostsServeOnce == Spec => SingleUse
<1>1. IInv /\ [Next]_vars =>
        [\A h \in Hosts :
          /\ row[h].state \in {"leased", "retiring", "failed", "retired"} =>
                row'[h].state \notin {"none", "booting", "ready"}
          /\ row[h].state # "ready" => row'[h].lessee \in {row[h].lessee, Nobody}
          /\ row[h].state = "retired" =>
                \/ row'[h].state = "retired"
                \/ row'[h].state = "failed" /\ Disowned(h)]_vars
  BY NextUsesOnce DEF UsedOnce
<1> QED
  BY <1>1, Inductive, PTL DEF Spec, SingleUse

-----------------------------------------------------------------------------
(* The room of the region.                                                 *)

\* The rows whose machine is up or may still be launched, and the computers on
\* machines of their own.  A row whose provision was refused to a caller is left out:
\* outcome may write it off whatever becomes of its launch.
Counted(R, F) ==
    {h \in Hosts : R[h].state \notin {"none", "retired"} /\ <<h, Provision>> \notin F}
Colds(P) == {c \in Computers : P[c].st = "COLD"}

\* vcpuInUse itself may exceed the cap (a deleted computer counts again while it
\* retires); what it counts of the rows and the cold machines does not.
RoomInv ==
    /\ Cardinality(Counted(row, refusals)) + Cardinality(Colds(place)) <= Cap
    /\ \A c \in Colds(place) : place[c].host = NoHost

\* Both sets are finite.
LEMMA RoomFinite ==
    ASSUME NEW R, NEW F, NEW P
    PROVE  /\ IsFiniteSet(Hosts) /\ IsFiniteSet(Counted(R, F)) /\ IsFiniteSet(Colds(P))
           /\ Cardinality(Counted(R, F)) \in Nat /\ Cardinality(Colds(P)) \in Nat
<1>1. IsFiniteSet(Hosts)
  BY FS_Interval, BoundsAssumption DEF Hosts
<1>2. Counted(R, F) \in SUBSET Hosts /\ Colds(P) \in SUBSET Computers
  BY DEF Counted, Colds
<1>3. IsFiniteSet(Counted(R, F)) /\ IsFiniteSet(Colds(P))
  BY <1>1, <1>2, FS_Subset, ComputersAssumption
<1> QED
  BY <1>1, <1>3, FS_CardinalityType

\* The cardinality of two disjoint parts.
LEMMA Parts ==
    ASSUME NEW A, NEW B, IsFiniteSet(A), IsFiniteSet(B), A \cap B = {}
    PROVE  /\ Cardinality(A \cup B) = Cardinality(A) + Cardinality(B)
           /\ Cardinality(A) \in Nat /\ Cardinality(B) \in Nat
<1>1. Cardinality(A) \in Nat /\ Cardinality(B) \in Nat
  BY FS_CardinalityType
<1>2. Cardinality(A \cup B) = Cardinality(A) + Cardinality(B) - Cardinality(A \cap B)
  BY FS_Union
<1>3. Cardinality(A \cap B) = 0
  BY FS_EmptySet
<1> QED
  BY <1>1, <1>2, <1>3

\* vcpuInUse counts every such row and every cold machine: a host that a live
\* placement names is counted with it, and no two hosts with one placement.
LEMMA UseCovers ==
    ASSUME NEW R, NEW F, NEW P, \A c \in Colds(P) : P[c].host = NoHost
    PROVE  /\ Cardinality(Counted(R, F)) + Cardinality(Colds(P)) <= vcpuInUse(R, P)
           /\ vcpuInUse(R, P) \in Nat
<1> DEFINE unnamed == {h \in Hosts : /\ R[h].state \notin {"none", "retired"}
                                     /\ \A c \in Live(P) : ~(P[c].host = h /\ R[h].inst)}
           free == Counted(R, F) \cap unnamed
           named == Counted(R, F) \ free
           users == {c \in Live(P) : P[c].host \in named}
           host == [c \in users |-> P[c].host]
<1>1. /\ vcpuInUse(R, P) = Cardinality(Live(P)) + Cardinality(unnamed)
      /\ Cardinality(free) <= Cardinality(unnamed) /\ Cardinality(unnamed) \in Nat
  <2>1. IsFiniteSet(unnamed) /\ free \in SUBSET unnamed
    BY RoomFinite, FS_Subset
  <2>2. Cardinality(free) <= Cardinality(unnamed) /\ Cardinality(unnamed) \in Nat
    BY <2>1, FS_Subset, FS_CardinalityType
  <2> QED
    BY <2>2 DEF vcpuInUse
<1>2. free \in SUBSET Counted(R, F) /\ named \in SUBSET Counted(R, F)
      /\ free \cup named = Counted(R, F) /\ free \cap named = {}
  BY DEF Counted
<1>3. Live(P) \in SUBSET Computers /\ users \in SUBSET Live(P) /\ Colds(P) \in SUBSET Live(P)
  BY DEF Live, Colds
<1>4. users \cap Colds(P) = {}
  <2>1. NoHost \notin named
    BY BoundsAssumption DEF NoHost, Counted, Hosts
  <2> QED
    BY <2>1
<1>5. \A h \in named : \E c \in users : P[c].host = h
  BY DEF Counted
<1>6. host \in Surjection(users, named)
  <2>1. host \in [users -> named] /\ \A h \in named : \E c \in users : host[c] = h
    BY <1>5
  <2> HIDE DEF host, users, named
  <2> QED
    BY <2>1 DEF Surjection
<1> HIDE DEF host, users, named, free, unnamed
<1>7. IsFiniteSet(Counted(R, F)) /\ IsFiniteSet(Colds(P)) /\ IsFiniteSet(Live(P))
  BY <1>3, RoomFinite, ComputersAssumption, FS_Subset
<1>8. IsFiniteSet(free) /\ IsFiniteSet(named) /\ IsFiniteSet(users)
  BY <1>2, <1>3, <1>7, FS_Subset
<1>9. Cardinality(named) <= Cardinality(users)
  BY <1>6, <1>8, FS_Surjection
<1>10. /\ Cardinality(Counted(R, F)) = Cardinality(free) + Cardinality(named)
       /\ Cardinality(free) \in Nat /\ Cardinality(named) \in Nat
  BY <1>2, <1>8, Parts
<1>11. /\ Cardinality(users \cup Colds(P)) = Cardinality(users) + Cardinality(Colds(P))
       /\ Cardinality(users) \in Nat /\ Cardinality(Colds(P)) \in Nat
  BY <1>4, <1>7, <1>8, Parts
<1>12. Cardinality(users \cup Colds(P)) <= Cardinality(Live(P))
  <2>1. users \cup Colds(P) \in SUBSET Live(P)
    BY <1>3
  <2> QED
    BY <2>1, <1>7, FS_Subset
<1>13. Cardinality(Live(P)) \in Nat
  BY <1>7, FS_CardinalityType
<1> QED
  BY <1>1, <1>9, <1>10, <1>11, <1>12, <1>13

\* A step that counts no new row and opens no cold machine.
LEMMA RoomKept ==
    ASSUME RoomInv, Counted(row', refusals') \subseteq Counted(row, refusals), Colds(place') \subseteq Colds(place),
           \A c \in Colds(place') : place'[c].host = place[c].host
    PROVE  RoomInv'
<1>1. Cardinality(Counted(row', refusals')) <= Cardinality(Counted(row, refusals))
  BY RoomFinite, FS_Subset
<1>2. Cardinality(Colds(place')) <= Cardinality(Colds(place))
  BY RoomFinite, FS_Subset
<1>3. /\ Cardinality(Counted(row, refusals)) \in Nat /\ Cardinality(Counted(row', refusals')) \in Nat
      /\ Cardinality(Colds(place)) \in Nat /\ Cardinality(Colds(place')) \in Nat
  BY RoomFinite
<1>4. Cardinality(Counted(row', refusals')) + Cardinality(Colds(place')) <= Cap
  BY <1>1, <1>2, <1>3, BoundsAssumption DEF RoomInv
<1>5. \A c \in Colds(place') : place'[c].host = NoHost
  BY DEF RoomInv
<1> QED
  BY <1>4, <1>5 DEF RoomInv, Counted, Colds

\* Only the pass inserts rows.
Uninserted(h) == row[h].state = "none" => row'[h].state = "none"

\* A row that does not exist yet has nothing another party's guard asks for.
LEMMA UninsertedHas ==
    ASSUME IInv, NEW h \in Hosts, row[h].state = "none"
    PROVE  row[h].lessee = Nobody /\ row[h].dispatch = "none" /\ row[h].job = 0
BY DEF IInv, TypeOK, HostsOK, HostOK

\* A step that writes the row of one host, which exists.
LEMMA UninsertedByOne ==
    ASSUME IInv, NEW h \in Hosts, row[h].state # "none", NEW r, row' = [row EXCEPT ![h] = r]
    PROVE  \A g \in Hosts : Uninserted(g)
<1>1. row \in [Hosts -> HostRow]
  BY DEF IInv, TypeOK
<1> QED
  BY <1>1 DEF Uninserted

\* The dispatcher, and the settling of a row, write only rows that have a job.
LEMMA PendingUninserted ==
    ASSUME IInv, Dispatcher \/ \E h \in Hosts : reconcile(h)
    PROVE  \A g \in Hosts : Uninserted(g)
<1>1. CASE UNCHANGED row
  BY <1>1 DEF Uninserted
<1>2. ASSUME NEW h \in Hosts, row[h].dispatch = "pending", NEW r, row' = [row EXCEPT ![h] = r]
      PROVE  \A g \in Hosts : Uninserted(g)
  BY <1>2, UninsertedHas, UninsertedByOne
<1>3. CASE Dispatcher
  <2>1. PICK call \in calls : startLifecycleJob(call) \/ outcome(call) \/ Crash(call)
    BY <1>3 DEF Dispatcher
  <2>2. call.host \in Hosts
    BY DEF IInv, TypeOK, Call
  <2>3. CASE startLifecycleJob(call) \/ Crash(call)
    BY <1>1, <2>3 DEF startLifecycleJob, Crash
  <2>4. CASE outcome(call)
    BY <1>1, <1>2, <2>2, <2>4 DEF outcome
  <2> QED
    BY <2>1, <2>3, <2>4
<1>4. ASSUME NEW h \in Hosts, reconcile(h) PROVE \A g \in Hosts : Uninserted(g)
  <2>1. row[h].dispatch = "pending" \/ row[h].job # 0
    <3>1. refusals \subseteq Hosts \X Jobs /\ 0 \notin Jobs
      BY BoundsAssumption DEF IInv, TypeOK, Jobs, LastJob
    <3>2. <<h, row[h].job>> \in refusals => row[h].job \in Jobs
      BY <3>1
    <3> QED
      BY <1>4, <3>1, <3>2 DEF reconcile, ReadPending
  <2>2. \/ UNCHANGED row
        \/ row' = [row EXCEPT ![h].inst = TRUE, ![h].dispatch = "settled",
                              ![h].state = IF row[h].job = Provision THEN @ ELSE "retired"]
        \/ row' = [row EXCEPT ![h].dispatch = "settled", ![h].state = settledAs(h)]
    BY <1>4 DEF reconcile
  <2>3. row[h].state # "none" /\ row \in [Hosts -> HostRow]
    BY <2>1, UninsertedHas DEF IInv, TypeOK
  <2>4. \A g \in Hosts \ {h} : row'[g] = row[g]
    BY <2>2, <2>3
  <2> QED
    BY <2>3, <2>4 DEF Uninserted
<1> QED
  BY <1>3, <1>4

\* A host reports for a row that waits for it or is leased.
LEMMA AgentUninserted ==
    ASSUME IInv, NEW h \in Hosts, Agent(h)
    PROVE  \A g \in Hosts : Uninserted(g)
<1>1. row[h].state # "none"
  BY DEF Agent, recordPoolEnrollment, recordPoolReady, handlePoolSessionReady
<1>2. \E r : row' = [row EXCEPT ![h] = r]
  BY DEF Agent, recordPoolEnrollment, recordPoolReady, handlePoolSessionReady
<1> QED
  BY <1>1, <1>2, UninsertedByOne

\* A computer's steps write the row that is ready for it or names it, and a
\* demand retires rows that are idle.
LEMMA ComputerUninserted ==
    ASSUME IInv, NEW c \in Computers, Owner(c) \/ Receipt(c) \/ Fleet(c)
    PROVE  \A g \in Hosts : Uninserted(g)
<1>1. CASE UNCHANGED row
  BY <1>1 DEF Uninserted
<1>2. ASSUME NEW h \in Hosts, leasePoolHost(c, h)
      PROVE  \A g \in Hosts : Uninserted(g)
  <2>1. row[h].state # "none" /\ \E r : row' = [row EXCEPT ![h] = r]
    BY <1>2 DEF leasePoolHost, usableReady
  <2> QED
    BY <2>1, UninsertedByOne
<1>3. CASE reservePoolDemand(c)
  <2>1. PICK picked \in SUBSET Reclaimable :
          row' = Prepare(row, {h \in picked : canRetire(h)}, "retiring")
    BY <1>3 DEF reservePoolDemand
  <2>2. \A h \in picked : row[h].state # "none"
    BY DEF Reclaimable
  <2>3. \A g \in Hosts : row[g].state = "none" => row'[g] = row[g]
    BY <2>1, <2>2 DEF Prepare
  <2> QED
    BY <2>3 DEF Uninserted
<1>4. ASSUME place[c].host \in Hosts, row[place[c].host].lessee = c,
             NEW r, row' = [row EXCEPT ![place[c].host] = r]
      PROVE  \A g \in Hosts : Uninserted(g)
  <2>1. row[place[c].host].lessee # Nobody
    BY <1>4, ComputersAssumption DEF Nobody
  <2> QED
    BY <1>4, <2>1, UninsertedHas, UninsertedByOne
<1>5. PlaceOK(c)
  BY DEF IInv, PlacesOK
<1>6. CASE Owner(c)
  BY <1>1, <1>2, <1>3, <1>6
     DEF Owner, openCold, coldStop, cancelComputerDemand, startStop, terminate
<1>7. CASE Receipt(c)
  <2>1. CASE UNCHANGED row
    BY <1>1, <2>1
  <2>2. CASE publishPoolClaim(c) \/ failStalledPoolAdopt(c) \/ recoverRefusedAdopt(c)
             \/ retirePoolLease(c)
    <3>1. place[c].host \in Hosts /\ row[place[c].host].lessee = c
      BY <1>5, <2>2 DEF publishPoolClaim, failStalledPoolAdopt, recoverRefusedAdopt,
                        retirePoolLease, Released, Adopted, PlaceOK
    <3>2. \E r : row' = [row EXCEPT ![place[c].host] = r]
      BY <2>2 DEF publishPoolClaim, failStalledPoolAdopt, recoverRefusedAdopt, retirePoolLease
    <3> QED
      BY <1>4, <3>1, <3>2
  <2> QED
    BY <1>7, <2>1, <2>2 DEF Receipt, adoptRunning, receiptFailed, releaseStopped
<1>8. CASE Fleet(c)
  <2>1. CASE UNCHANGED row
    BY <1>1, <2>1
  <2>2. CASE /\ reconcileStalledPoolAdopt(c) \/ completeAdoptRecovery(c)
             /\ \E r : row' = [row EXCEPT ![place[c].host] = r]
    <3>1. place[c].host \in Hosts /\ row[place[c].host].lessee = c
      BY <1>5, <2>2 DEF reconcileStalledPoolAdopt, completeAdoptRecovery, PlaceOK
    <3> QED
      BY <1>4, <2>2, <3>1
  <2> QED
    BY <1>8, <2>1, <2>2
       DEF Fleet, reconcileStalledPoolAdopt, replaceStalledPoolAdopt, startRecovery,
           recoveryFailed, completeAdoptRecovery, reconcileDeletedAwsComputers, retireDone
<1> QED
  BY <1>6, <1>7, <1>8

\* What AWS has refused to a caller is not forgotten.
LEMMA RefusalsStay ==
    ASSUME [Next]_vars
    PROVE  refusals \subseteq refusals'
<1>1. CASE runPoolReplenish
  <2>1. UNCHANGED refusals
    BY <1>1 DEF runPoolReplenish
  <2> QED
    BY <2>1
<1>2. CASE Dispatcher
  BY <1>2 DEF Dispatcher, startLifecycleJob, outcome, Crash
<1>3. ASSUME NEW h \in Hosts, reconcile(h) \/ HostJob(h) \/ Agent(h)
      PROVE  UNCHANGED refusals
  BY <1>3 DEF reconcile, HostJob, observePool, actPool, failPool, Agent,
              recordPoolEnrollment, recordPoolReady, handlePoolSessionReady
<1>4. ASSUME NEW c \in Computers, Owner(c)
      PROVE  UNCHANGED refusals
  BY <1>4 DEF Owner, leasePoolHost, openCold, coldStop, reservePoolDemand,
              cancelComputerDemand, startStop, terminate
<1>5. ASSUME NEW c \in Computers, Job(c)
      PROVE  UNCHANGED refusals
  BY <1>5 DEF Job, JobRuns, startJob, observeAdopt, observeRelease, observeRetire, failJob,
              Others
<1>6. ASSUME NEW c \in Computers, Receipt(c)
      PROVE  UNCHANGED refusals
  BY <1>6 DEF Receipt, publishPoolClaim, adoptRunning, failStalledPoolAdopt,
              recoverRefusedAdopt, receiptFailed, retirePoolLease, releaseStopped
<1>7. ASSUME NEW c \in Computers, Fleet(c)
      PROVE  UNCHANGED refusals
  BY <1>7 DEF Fleet, reconcileStalledPoolAdopt, replaceStalledPoolAdopt, startRecovery,
              recoveryFailed, completeAdoptRecovery, reconcileDeletedAwsComputers, retireDone
<1>8. CASE UNCHANGED vars
  BY <1>8 DEF vars
<1> QED
  BY <1>1, <1>2, <1>3, <1>4, <1>5, <1>6, <1>7, <1>8 DEF Next

\* No step but the pass counts a row that was not counted.
LEMMA CountedStays ==
    ASSUME IInv, [Next]_vars, ~runPoolReplenish
    PROVE  Counted(row', refusals') \subseteq Counted(row, refusals)
<1>1. \A g \in Hosts : Uninserted(g)
  <2>1. CASE UNCHANGED row
    BY <2>1 DEF Uninserted
  <2>2. ASSUME NEW h \in Hosts, HostJob(h)
        PROVE  UNCHANGED row
    BY <2>2 DEF HostJob, observePool, actPool, failPool
  <2>3. ASSUME NEW c \in Computers, Job(c)
        PROVE  UNCHANGED row
    BY <2>3 DEF Job, JobRuns, startJob, observeAdopt, observeRelease, observeRetire, failJob,
                Others
  <2> QED
    BY <2>1, <2>2, <2>3, PendingUninserted, AgentUninserted, ComputerUninserted DEF Next, vars
<1>2. \A g \in Hosts : UsedOnce(g)
  BY NextUsesOnce
<1>3. refusals \subseteq refusals'
  BY RefusalsStay
<1> QED
  BY <1>1, <1>2, <1>3 DEF Uninserted, UsedOnce, Counted, Disowned

\* The pass inserts rows only where what is in use leaves room for them.
LEMMA ReplenishRoom ==
    ASSUME IInv, RoomInv, runPoolReplenish
    PROVE  RoomInv'
<1>1. PICK open \in {demand, [by |-> Nobody, hosts |-> {}]},
           failedNow \in SUBSET {h \in Hosts : row[h].state = "booting" /\ row[h].lessee = Nobody},
           retire \in SUBSET Hosts,
           new \in SUBSET {h \in Hosts : row[h].state = "none"} :
        /\ \A h \in retire : canRetire(h) /\ row[h].state # "retired"
        /\ row' = Prepare(Prepare([h \in Hosts |-> IF h \in failedNow
                                                   THEN [row[h] EXCEPT !.state = "failed"]
                                                   ELSE row[h]],
                                  retire, "retiring"), new, "booting")
        /\ calls' = calls \cup Dispatch(retire \cup new)
        /\ demand' = open
        /\ Cardinality(new) > 0 =>
              vcpuInUse(row, place) + (IF open.by = Nobody THEN 0 ELSE 1) + Cardinality(new) <= Cap
  BY PassWrites
<1>2. \A h \in retire : row[h].state \notin {"none", "retired"}
  BY <1>1, UninsertedHas DEF canRetire
<1>4. UNCHANGED <<place, refusals>>
  BY DEF runPoolReplenish
<1>3. Counted(row', refusals') \subseteq Counted(row, refusals) \cup new
  <2> SUFFICES ASSUME NEW h \in Counted(row', refusals'), h \notin new, h \notin Counted(row, refusals) PROVE FALSE
    OBVIOUS
  <2>1. h \in Hosts /\ h \notin retire /\ h \notin failedNow
    BY <1>1, <1>2, <1>4 DEF Counted
  <2>2. row'[h] = row[h]
    BY <1>1, <2>1 DEF Prepare
  <2> QED
    BY <1>4, <2>1, <2>2 DEF Counted
<1>5. CASE new = {}
  <2>1. Counted(row', refusals') \subseteq Counted(row, refusals) /\ Colds(place') = Colds(place)
    BY <1>3, <1>4, <1>5
  <2> QED
    BY <1>4, <2>1, RoomKept
<1>6. CASE new # {}
  <2>1. IsFiniteSet(new) /\ Cardinality(new) \in Nat /\ Cardinality(new) > 0
    <3>1. new \in SUBSET Hosts
      OBVIOUS
    <3>2. IsFiniteSet(new)
      BY <3>1, RoomFinite, FS_Subset
    <3> QED
      BY <1>6, <3>2, FS_EmptySet, FS_CardinalityType
  <2>2. Counted(row, refusals) \cap new = {}
    BY DEF Counted
  <2>3. Cardinality(Counted(row, refusals) \cup new) = Cardinality(Counted(row, refusals)) + Cardinality(new)
    BY <2>1, <2>2, RoomFinite, Parts
  <2>4. Cardinality(Counted(row', refusals')) <= Cardinality(Counted(row, refusals)) + Cardinality(new)
    <3>1. IsFiniteSet(Counted(row, refusals) \cup new)
      BY <2>1, RoomFinite, FS_Union
    <3> QED
      BY <1>3, <2>3, <3>1, FS_Subset
  <2>5. /\ Cardinality(Counted(row, refusals)) + Cardinality(Colds(place)) <= vcpuInUse(row, place)
        /\ vcpuInUse(row, place) \in Nat
    BY UseCovers DEF RoomInv
  <2>6. /\ Cardinality(Counted(row, refusals)) \in Nat /\ Cardinality(Counted(row', refusals')) \in Nat
        /\ Cardinality(Colds(place)) \in Nat
    BY RoomFinite
  <2>7. vcpuInUse(row, place) + Cardinality(new) <= Cap
    <3> DEFINE promised == IF open.by = Nobody THEN 0 ELSE 1
    <3>1. promised \in Nat
      OBVIOUS
    <3>2. vcpuInUse(row, place) + promised + Cardinality(new) <= Cap
      BY <1>1, <2>1
    <3> HIDE DEF promised
    <3> QED
      BY <2>1, <2>5, <3>1, <3>2, BoundsAssumption
  <2>8. Cardinality(Counted(row', refusals')) + Cardinality(Colds(place)) <= Cap
    BY <2>1, <2>4, <2>5, <2>6, <2>7, BoundsAssumption
  <2>9. Colds(place') = Colds(place) /\ \A c \in Colds(place') : place'[c].host = NoHost
    BY <1>4 DEF RoomInv, Colds
  <2> QED
    BY <2>8, <2>9 DEF RoomInv, Counted, Colds
<1> QED
  BY <1>5, <1>6

\* No step but an open opens a cold machine or moves one to a pool host.
LEMMA ColdsStay ==
    ASSUME IInv, [Next]_vars,
           \A c \in Computers : ~openCold(c) /\ ~replaceStalledPoolAdopt(c)
    PROVE  /\ Colds(place') \subseteq Colds(place)
           /\ \A c \in Colds(place') : place'[c].host = place[c].host
<1> DEFINE Same(d) == place'[d].st = "COLD" =>
                         place[d].st = "COLD" /\ place'[d].host = place[d].host
<1> SUFFICES \A d \in Computers : Same(d)
  BY DEF Colds
<1>1. place \in [Computers -> Place]
  BY DEF IInv, TypeOK
<1>2. CASE UNCHANGED place
  BY <1>2
<1>3. ASSUME NEW c \in Computers, NEW p, place' = [place EXCEPT ![c] = p],
             p.st # "COLD" \/ (p.st = place[c].st /\ p.host = place[c].host)
      PROVE  \A d \in Computers : Same(d)
  BY <1>1, <1>3
<1>4. ASSUME NEW c \in Computers, NEW st \in PlaceState \ {"COLD"}, NEW job, NEW x,
             Move(c, st, job, x)
      PROVE  \A d \in Computers : Same(d)
  BY <1>1, <1>4 DEF Move, Place
<1>5. ASSUME NEW c \in Computers, NEW x, X(c, x)
      PROVE  \A d \in Computers : Same(d)
  BY <1>1, <1>5 DEF X, Place
<1>6. ASSUME NEW c \in Computers, NEW st \in PlaceState \ {"COLD"},
             place' = [place EXCEPT ![c].st = st]
      PROVE  \A d \in Computers : Same(d)
  BY <1>1, <1>6 DEF Place
<1> HIDE DEF Same
<1>7. CASE runPoolReplenish \/ Dispatcher
  <2>1. CASE runPoolReplenish
    <3>1. UNCHANGED place
      BY <2>1 DEF runPoolReplenish
    <3> QED
      BY <1>2, <3>1
  <2>2. CASE Dispatcher
    BY <1>2, <2>2 DEF Dispatcher, startLifecycleJob, outcome, Crash
  <2> QED
    BY <1>7, <2>1, <2>2
<1>8. ASSUME NEW h \in Hosts, reconcile(h) \/ HostJob(h) \/ Agent(h)
      PROVE  \A d \in Computers : Same(d)
  BY <1>2, <1>8 DEF reconcile, HostJob, observePool, actPool, failPool, Agent,
                    recordPoolEnrollment, recordPoolReady, handlePoolSessionReady
<1>9. ASSUME NEW c \in Computers, Owner(c)
      PROVE  \A d \in Computers : Same(d)
  <2>1. ASSUME NEW h \in Hosts, leasePoolHost(c, h)
        PROVE  \A d \in Computers : Same(d)
    <3>1. place' = Open(c, "ADOPTING", h)
      BY <2>1 DEF leasePoolHost
    <3> QED
      BY <1>3, <3>1 DEF Open
  <2>2. CASE coldStop(c)
    BY <1>6, <2>2 DEF coldStop, PlaceState
  <2>3. CASE startStop(c)
    BY <1>4, <2>3 DEF startStop, PlaceState
  <2>4. CASE terminate(c)
    BY <1>2, <1>4, <2>4 DEF terminate, Retire, PlaceState
  <2>5. CASE reservePoolDemand(c) \/ cancelComputerDemand(c)
    BY <1>2, <2>5 DEF reservePoolDemand, cancelComputerDemand
  <2> QED
    BY <1>9, <2>1, <2>2, <2>3, <2>4, <2>5 DEF Owner
<1>10. ASSUME NEW c \in Computers, Job(c)
       PROVE  \A d \in Computers : Same(d)
  <2>1. CASE startJob(c)
    BY <1>5, <1>6, <2>1 DEF startJob, PlaceState
  <2>2. CASE observeAdopt(c)
    BY <1>5, <2>2 DEF observeAdopt
  <2>3. CASE observeRelease(c)
    BY <1>5, <2>3 DEF observeRelease
  <2>4. CASE observeRetire(c)
    BY <1>5, <2>4 DEF observeRetire
  <2>5. CASE failJob(c)
    BY <1>5, <2>5 DEF failJob
  <2> QED
    BY <1>10, <2>1, <2>2, <2>3, <2>4, <2>5 DEF Job, JobRuns
<1>11. ASSUME NEW c \in Computers, Receipt(c)
       PROVE  \A d \in Computers : Same(d)
  <2>1. CASE publishPoolClaim(c) \/ retirePoolLease(c)
    BY <1>2, <2>1 DEF publishPoolClaim, retirePoolLease
  <2>2. CASE adoptRunning(c)
    BY <1>4, <2>2 DEF adoptRunning, PlaceState
  <2>3. CASE failStalledPoolAdopt(c)
    BY <1>6, <2>3 DEF failStalledPoolAdopt, PlaceState
  <2>4. CASE recoverRefusedAdopt(c)
    <3> DEFINE p == [NewPlace EXCEPT !.epoch = place[c].epoch]
    <3>1. place' = [place EXCEPT ![c] = p] /\ p.st = "STOPPED"
      BY <2>4 DEF recoverRefusedAdopt, NewPlace
    <3> HIDE DEF p
    <3> QED
      BY <1>3, <3>1
  <2>5. CASE receiptFailed(c)
    BY <1>6, <2>5 DEF receiptFailed, PlaceState
  <2>6. CASE releaseStopped(c)
    BY <1>4, <2>6 DEF releaseStopped, PlaceState
  <2> QED
    BY <1>11, <2>1, <2>2, <2>3, <2>4, <2>5, <2>6 DEF Receipt
<1>12. ASSUME NEW c \in Computers, Fleet(c)
       PROVE  \A d \in Computers : Same(d)
  <2>1. CASE reconcileStalledPoolAdopt(c)
    BY <1>4, <2>1 DEF reconcileStalledPoolAdopt, PlaceState
  <2>2. CASE startRecovery(c)
    <3> DEFINE p == [place[c] EXCEPT !.st = "RECOVERING", !.job = "release",
                                     !.x = "none", !.tried = TRUE]
    <3>1. place' = [place EXCEPT ![c] = p] /\ p.st = "RECOVERING"
      BY <1>1, <2>2 DEF startRecovery, Place
    <3> HIDE DEF p
    <3> QED
      BY <1>3, <3>1
  <2>3. CASE recoveryFailed(c)
    BY <1>6, <2>3 DEF recoveryFailed, PlaceState
  <2>4. CASE completeAdoptRecovery(c)
    BY <1>4, <2>4 DEF completeAdoptRecovery, PlaceState
  <2>5. CASE reconcileDeletedAwsComputers(c)
    BY <1>4, <2>5 DEF reconcileDeletedAwsComputers, Retire, PlaceState
  <2>6. CASE retireDone(c)
    BY <1>4, <2>6 DEF retireDone, PlaceState
  <2> QED
    BY <1>12, <2>1, <2>2, <2>3, <2>4, <2>5, <2>6 DEF Fleet
<1> QED
  BY <1>2, <1>7, <1>8, <1>9, <1>10, <1>11, <1>12 DEF Next, vars

\* An open on a machine of its own fits beside all that is in use.
LEMMA ColdRoom ==
    ASSUME IInv, RoomInv, NEW c \in Computers, openCold(c) \/ replaceStalledPoolAdopt(c)
    PROVE  RoomInv'
<1>1. place \in [Computers -> Place] /\ PlaceOK(c)
  BY DEF IInv, TypeOK, PlacesOK
<1>2. /\ place' = Open(c, "COLD", NoHost) /\ validateCapacity(c, row, place')
      /\ UNCHANGED <<row, refusals>>
  BY DEF openCold, replaceStalledPoolAdopt
<1>3. place'[c].host = NoHost /\ \A d \in Computers \ {c} : place'[d] = place[d]
  BY <1>1, <1>2 DEF Open
<1>4. \A d \in Colds(place') : place'[d].host = NoHost
  BY <1>3 DEF Colds, RoomInv
<1>5. /\ Cardinality(Counted(row, refusals)) + Cardinality(Colds(place')) <= vcpuInUse(row, place')
      /\ vcpuInUse(row, place') \in Nat
  BY <1>4, UseCovers
<1>6. vcpuInUse(row, place') <= Cap
  <2> DEFINE promised == IF demand.by = c THEN 0 ELSE demandVcpu
  <2>1. promised \in Nat
    BY DEF demandVcpu
  <2>2. vcpuInUse(row, place') + promised <= Cap
    BY <1>2 DEF validateCapacity
  <2> HIDE DEF promised
  <2> QED
    BY <1>5, <2>1, <2>2, BoundsAssumption
<1>7. Cardinality(Counted(row, refusals)) \in Nat /\ Cardinality(Colds(place')) \in Nat
  BY RoomFinite
<1>8. Cardinality(Counted(row, refusals)) + Cardinality(Colds(place')) <= Cap
  BY <1>5, <1>6, <1>7, BoundsAssumption
<1>9. Counted(row', refusals') = Counted(row, refusals)
  BY <1>2
<1> QED
  BY <1>4, <1>8, <1>9 DEF RoomInv, Counted, Colds

\* The counted rows and the cold machines fit the region, whatever the order of
\* transactions, calls, executions and crashes.  A row that outcome may write off
\* before its launch is not counted, as the code does not count it afterwards.
THEOREM RoomInductive == Spec => []RoomInv
<1>1. Init => RoomInv
  <2> SUFFICES ASSUME Init PROVE RoomInv
    OBVIOUS
  <2>1. Counted(row, refusals) = {} /\ Colds(place) = {}
    BY DEF Init, Counted, Colds, Unborn, NewPlace
  <2>2. Cardinality(Counted(row, refusals)) = 0 /\ Cardinality(Colds(place)) = 0
    BY <2>1, FS_EmptySet
  <2> QED
    BY <2>1, <2>2, BoundsAssumption DEF RoomInv
<1>2. IInv /\ RoomInv /\ [Next]_vars => RoomInv'
  <2> SUFFICES ASSUME IInv, RoomInv, [Next]_vars PROVE RoomInv'
    OBVIOUS
  <2>1. CASE runPoolReplenish
    BY <2>1, ReplenishRoom
  <2>2. CASE \E c \in Computers : openCold(c) \/ replaceStalledPoolAdopt(c)
    BY <2>2, ColdRoom
  <2>3. CASE ~runPoolReplenish
             /\ \A c \in Computers : ~openCold(c) /\ ~replaceStalledPoolAdopt(c)
    BY <2>3, CountedStays, ColdsStay, RoomKept
  <2> QED
    BY <2>1, <2>2, <2>3
<1> QED
  BY <1>1, <1>2, Inductive, PTL DEF Spec

\* Spares, adopted hosts and cold machines never exceed regionVcpuCap: every
\* machine that is up and not disowned has a row the transactions count.
THEOREM RegionHolds == Spec => []WithinCap
<1>1. IInv /\ RoomInv => WithinCap
  <2> SUFFICES ASSUME IInv, RoomInv PROVE WithinCap
    OBVIOUS
  <2> DEFINE up == {h \in Hosts : ec2[h] \in {"pool", "claimed"} /\ ~Disowned(h)}
  <2>1. up \in SUBSET Counted(row, refusals)
    <3> SUFFICES ASSUME NEW h \in Hosts, ec2[h] \in {"pool", "claimed"}, ~Disowned(h)
                 PROVE  row[h].state \notin {"none", "retired"} /\ <<h, Provision>> \notin refusals
      BY DEF Counted
    <3>1. HostOK(h)
      BY DEF IInv, HostsOK
    <3> QED
      BY <3>1 DEF HostOK, Disowned
  <2>2. IsFiniteSet(up) /\ Cardinality(up) <= Cardinality(Counted(row, refusals))
    BY <2>1, RoomFinite, FS_Subset
  <2>3. /\ Cardinality(up) \in Nat /\ Cardinality(Counted(row, refusals)) \in Nat
        /\ Cardinality(Colds(place)) \in Nat
    BY <2>2, RoomFinite, FS_CardinalityType
  <2>4. Colds(place) = {c \in Computers : place[c].st = "COLD"}
    BY DEF Colds
  <2>5. Cardinality(up) + Cardinality(Colds(place)) <= Cap
    BY <2>2, <2>3, BoundsAssumption DEF RoomInv
  <2> QED
    BY <2>4, <2>5 DEF WithinCap
<1> QED
  BY <1>1, Inductive, RoomInductive, PTL
=============================================================================
