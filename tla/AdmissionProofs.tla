--------------------------- MODULE AdmissionProofs ---------------------------
(***************************************************************************)
(* One AWS computer or reservation per user, demands that fit their unique *)
(* indexes, and a fleet and regions within their budgets, for any fleet,   *)
(* any caps and any number of transactions.                                *)
(*                                                                         *)
(* None is inductive alone.  AloneOK is what the count of the user's other *)
(* computers still means when the transaction writes, statements later;    *)
(* DeadOK is why ignoring the demands that were late when the transaction  *)
(* began is safe: none of them is live again.  CountOK and AdmittedOK are  *)
(* the same for the sums of vCPU.                                          *)
(***************************************************************************)
EXTENDS Admission, FiniteSetTheorems, TLAPS

Free == {"none", "PURGE_ELIGIBLE"}

\* The user of q has no other placement and no other demand q has to count.
Alone(q) ==
    \A c \in Computers \ {q.c} :
        Owner[c] = Owner[q.c] =>
            row[c].state \in Free /\ (Unclosed(c) => c \in q.dead)

AloneOK ==
    /\ tx.pc = "decide" /\ count.others = 0 => Alone(tx.q)
    /\ tx.pc = "write" => Alone(tx.q)

DeadOK ==
    /\ \A q \in waiting : \A c \in q.dead : ~Live(c)
    /\ tx.pc # "free" => \A c \in tx.q.dead : ~Live(c)

IInv == TypeOK /\ AloneOK /\ DeadOK /\ OnePerOwner /\ DemandsFitIndexes

-----------------------------------------------------------------------------
\* A placement that moves held its user's slot before.
LEMMA EdgesLeaveHeldRows ==
    ASSUME NEW s \in State, s # "none", NEW to \in Edges[s]
    PROVE  s \notin Free /\ to \in State
BY DEF Edges, State, Free

\* The user's count is 0 only when both sets it counts are empty.
LEMMA NobodyElse ==
    ASSUME NEW q, Cardinality(OtherPlacements(q)) +
             Cardinality({c \in Promised(q) : Owner[c] = Owner[q.c]}) = 0
    PROVE  Alone(q)
<1> DEFINE D == {c \in Promised(q) : Owner[c] = Owner[q.c]}
<1>1. IsFiniteSet(OtherPlacements(q)) /\ IsFiniteSet(D)
  BY FS_Subset, FleetAssumption DEF OtherPlacements, Promised
<1>2. Cardinality(OtherPlacements(q)) \in Nat /\ Cardinality(D) \in Nat
  BY <1>1, FS_CardinalityType
<1>3. Cardinality(OtherPlacements(q)) = 0 /\ Cardinality(D) = 0
  BY <1>2
<1>4. OtherPlacements(q) = {} /\ D = {}
  BY <1>1, <1>3, FS_EmptySet
<1> QED BY <1>4 DEF Alone, OtherPlacements, Promised, Counted, Free

\* A step that gives nobody a slot and opens no demand preserves the rest.
LEMMA NothingTaken ==
    ASSUME OnePerOwner, DemandsFitIndexes,
           \A c \in Computers : Holds(c)' => Holds(c),
           \A c \in Computers : Unclosed(c)' =>
               Unclosed(c) /\ demand'[c].region = demand[c].region
    PROVE  OnePerOwner' /\ DemandsFitIndexes'
<1>1. OnePerOwner'
  BY DEF OnePerOwner
<1>2. DemandsFitIndexes'
  BY DEF DemandsFitIndexes
<1> QED BY <1>1, <1>2

-----------------------------------------------------------------------------
(* The writers that do not take the lock.                                  *)

\* A placement that moves keeps its slot, or gives it back.
LEMMA LifecyclePreserves ==
    ASSUME IInv, NEW c \in Computers, NEW to \in State, transition(c, to)
    PROVE  IInv'
<1> USE DEF IInv
<1>0. row[c] \in Row /\ row[c].state # "none"
  BY DEF transition, TypeOK
<1>1. row[c].state \in State /\ row[c].state # "none" /\ to \in Edges[row[c].state]
  BY <1>0 DEF transition, Row, NoRow
<1>2. row[c].state \notin Free
  BY <1>1, EdgesLeaveHeldRows
<1>3. TypeOK'
  <2> DEFINE new == [row[c] EXCEPT !.state = to,
                       !.held = @ /\ to \in RUNNING_CLASS_STATES]
  <2>1. row[c] \in [state: State \ {"none"}, type: Types, region: Regions,
                    epoch: Nat, held: BOOLEAN]
    BY <1>0 DEF Row, NoRow
  <2>2. to \in State \ {"none"}
    BY <1>1 DEF Edges, State
  <2>3. new \in Row
    BY <2>1, <2>2 DEF Row
  <2>4. row' = [row EXCEPT ![c] = new]
    BY DEF transition
  <2> HIDE DEF new
  <2> QED BY <2>3, <2>4 DEF transition, TypeOK
<1>4. \A x \in Computers : row'[x].state # row[x].state => x = c
  BY DEF transition, TypeOK
<1>5. AloneOK'
  <2>1. ASSUME Alone(tx.q) PROVE Alone(tx.q)'
    BY <1>2, <1>4, <2>1 DEF transition, Alone, Unclosed
  <2> QED BY <2>1 DEF AloneOK, transition
<1>6. DeadOK'
  BY DEF DeadOK, Live, transition
<1>7. OnePerOwner' /\ DemandsFitIndexes'
  <2>1. \A x \in Computers : Holds(x)' => Holds(x)
    BY <1>2, <1>4 DEF transition, Holds, Live, Free
  <2>2. \A x \in Computers : Unclosed(x)' =>
            Unclosed(x) /\ demand'[x].region = demand[x].region
    BY DEF transition, Unclosed
  <2> QED BY <2>1, <2>2, NothingTaken
<1> QED BY <1>3, <1>5, <1>6, <1>7

\* A soft-delete moves no placement and no demand.
LEMMA DeletePreserves ==
    ASSUME IInv, NEW c \in Computers, softDelete(c)
    PROVE  IInv'
<1> USE DEF IInv
<1>1. TypeOK'
  BY DEF softDelete, TypeOK
<1>2. AloneOK' /\ DeadOK'
  BY DEF softDelete, AloneOK, DeadOK, Alone, Live, Unclosed
<1>3. OnePerOwner' /\ DemandsFitIndexes'
  BY NothingTaken DEF softDelete, Holds, Live, Unclosed
<1> QED BY <1>1, <1>2, <1>3

\* A deadline that passes makes a demand late, which stays unclosed.
LEMMA DeadlinePreserves ==
    ASSUME IInv, NEW c \in Computers, DeadlinePasses(c)
    PROVE  IInv'
<1> USE DEF IInv
<1>1. TypeOK'
  <2> DEFINE new == [demand[c] EXCEPT !.st = "late"]
  <2>1. demand[c] \in [st: {"active", "late"}, type: Types, region: Regions, src: Nat]
    BY DEF DeadlinePasses, TypeOK, Demand, NoDemand, Live
  <2>2. new \in Demand
    BY <2>1 DEF Demand
  <2>3. demand' = [demand EXCEPT ![c] = new]
    BY DEF DeadlinePasses
  <2> HIDE DEF new
  <2> QED BY <2>2, <2>3 DEF DeadlinePasses, TypeOK
<1>2. \A x \in Computers :
          /\ Unclosed(x)' <=> Unclosed(x)
          /\ Live(x)' => Live(x)
          /\ demand'[x].region = demand[x].region
  BY DEF DeadlinePasses, TypeOK, Demand, Unclosed, Live
<1>3. AloneOK'
  BY <1>2 DEF DeadlinePasses, AloneOK, Alone
<1>4. DeadOK'
  <2>1. \A q \in Request : q.dead \subseteq Computers
    BY DEF Request
  <2> QED BY <1>2, <2>1 DEF DeadlinePasses, DeadOK, TypeOK, Tx, NoTx
<1>5. OnePerOwner' /\ DemandsFitIndexes'
  BY <1>2, NothingTaken DEF DeadlinePasses, Holds
<1> QED BY <1>1, <1>3, <1>4, <1>5

-----------------------------------------------------------------------------
(* Transactions that begin or wait.                                        *)

\* A transaction that begins with the demands that are late now.
LEMMA BeginPreserves ==
    ASSUME IInv, NEW q \in Request, q.dead = Past, Begin(q),
           UNCHANGED <<row, demand, deleted>>,
           UNCHANGED tx \/ tx' = NoTx, UNCHANGED count \/ tx' = NoTx
    PROVE  IInv'
<1> USE DEF IInv
<1>1. TypeOK'
  BY DEF Begin, TypeOK
<1>2. AloneOK'
  BY DEF AloneOK, Alone, Unclosed, NoTx
<1>3. DeadOK'
  BY DEF Begin, DeadOK, Past, Live, NoTx
<1>4. OnePerOwner' /\ DemandsFitIndexes'
  BY NothingTaken DEF Holds, Live, Unclosed
<1> QED BY <1>1, <1>2, <1>3, <1>4

\* An open begins its transaction with the demands that are late now.
LEMMA OpenPreserves ==
    ASSUME IInv, NEW c \in Computers,
           \/ \E type \in Offered[c] : openCreate(c, type)
           \/ \E type \in Offered[c] \cup {"keep"} : openLease(c, type)
    PROVE  IInv'
<1>1. Offered[c] \subseteq Types
  BY FleetAssumption DEF Users
<1>2. Past \subseteq Computers
  BY DEF Past
<1>3. CASE \E type \in Offered[c] : openCreate(c, type)
  <2>1. PICK type \in Offered[c] : openCreate(c, type)
    BY <1>3
  <2> DEFINE q == [kind |-> "create", c |-> c, type |-> type, region |-> "none",
                   src |-> 0, dead |-> Past]
  <2>2. q \in Request
    BY <1>1, <1>2 DEF Request
  <2>3. Begin(q) /\ UNCHANGED <<row, demand, deleted, tx, count>>
    BY <2>1 DEF openCreate
  <2>4. q.dead = Past
    OBVIOUS
  <2> QED BY <2>2, <2>3, <2>4, BeginPreserves
<1>4. CASE \E type \in Offered[c] \cup {"keep"} : openLease(c, type)
  <2>1. PICK type \in Offered[c] \cup {"keep"} : openLease(c, type)
    BY <1>4
  <2> DEFINE q == [kind |-> "lease", c |-> c, type |-> type, region |-> "none",
                   src |-> row[c].epoch, dead |-> Past]
  <2>2. row[c].epoch \in Nat
    BY DEF IInv, TypeOK, Row, NoRow
  <2>3. q \in Request
    BY <1>1, <1>2, <2>2 DEF Request
  <2>4. Begin(q) /\ UNCHANGED <<row, demand, deleted, tx, count>>
    BY <2>1 DEF openLease
  <2>5. q.dead = Past
    OBVIOUS
  <2> QED BY <2>3, <2>4, <2>5, BeginPreserves
<1> QED BY <1>3, <1>4

\* A transaction gets the lock with what it knows of the deadlines.
LEMMA LockPreserves ==
    ASSUME IInv, NEW q \in waiting, NEW dead \in SUBSET (q.dead \cup Past),
           withAdmission(q, dead)
    PROVE  IInv'
<1> USE DEF IInv
<1> DEFINE t == [pc |-> "running", q |-> [q EXCEPT !.dead = dead],
                 type |-> "none", region |-> "none"]
<1>1. q \in Request /\ dead \subseteq Computers
  BY DEF TypeOK, Request, Past
<1>2. [q EXCEPT !.dead = dead] \in Request /\ t.q.dead = dead
  BY <1>1 DEF Request
<1>3. tx = NoTx /\ tx' \in {t, NoTx} /\ waiting' = waiting \ {q}
      /\ UNCHANGED <<row, demand, deleted>>
  BY DEF withAdmission
<1>4. t.pc = "running" /\ NoTx.pc = "free" /\ t \in Tx
  BY <1>2 DEF NoTx, Tx
<1> HIDE DEF t
<1>5. TypeOK'
  BY <1>3, <1>4 DEF TypeOK
<1>6. AloneOK'
  BY <1>3, <1>4 DEF AloneOK
<1>7. \A c \in dead : ~Live(c)
  BY DEF DeadOK, Past, Live
<1>8. DeadOK'
  BY <1>2, <1>3, <1>4, <1>7 DEF DeadOK, Live
<1>9. OnePerOwner' /\ DemandsFitIndexes'
  BY <1>3, NothingTaken DEF Holds, Live, Unclosed
<1> QED BY <1>5, <1>6, <1>8, <1>9

-----------------------------------------------------------------------------
(* The statements of the lock holder.                                      *)

\* A statement that only reads: the transaction moves on with the same request.
LEMMA ReadPreserves ==
    ASSUME IInv, tx \in Tx, tx.pc # "write", NEW pc \in {"regions", "user", "decide"},
           tx' = [tx EXCEPT !.pc = pc], pc = "decide" /\ count'.others = 0 => Alone(tx.q),
           UNCHANGED <<row, demand, deleted, waiting>>
    PROVE  IInv'
<1> USE DEF IInv
<1>1. tx' \in Tx /\ tx'.q = tx.q /\ tx'.pc = pc /\ tx.pc # "free"
  BY DEF Tx
<1>2. TypeOK'
  BY <1>1 DEF TypeOK
<1>3. AloneOK'
  BY <1>1 DEF AloneOK, Alone, Unclosed
<1>4. DeadOK'
  BY <1>1 DEF DeadOK, Live
<1>5. OnePerOwner' /\ DemandsFitIndexes'
  BY NothingTaken DEF Holds, Live, Unclosed
<1> QED BY <1>2, <1>3, <1>4, <1>5

\* The transaction is over and changed nothing.
LEMMA RefusePreserves ==
    ASSUME IInv, Refuse, UNCHANGED <<row, demand, deleted, waiting>>
    PROVE  IInv'
<1> USE DEF IInv, Refuse
<1>1. TypeOK'
  BY DEF TypeOK
<1>2. AloneOK' /\ DeadOK'
  BY DEF AloneOK, DeadOK, NoTx, Live
<1>3. OnePerOwner' /\ DemandsFitIndexes'
  BY NothingTaken DEF Holds, Live, Unclosed
<1> QED BY <1>1, <1>2, <1>3

\* The three statements that count.
LEMMA CountPreserves ==
    ASSUME IInv, countRunning \/ countRegions \/ countUserAndDemands
    PROVE  IInv'
<1>1. tx \in Tx /\ tx.pc # "write"
  BY DEF IInv, TypeOK, NoTx, countRunning, countRegions, countUserAndDemands
<1>2. CASE countRunning
  BY <1>1, <1>2, ReadPreserves DEF countRunning
<1>3. CASE countRegions
  BY <1>1, <1>3, ReadPreserves DEF countRegions
<1>4. CASE countUserAndDemands
  <2>1. count'.others = Cardinality(OtherPlacements(tx.q)) +
          Cardinality({c \in Promised(tx.q) : Owner[c] = Owner[tx.q.c]})
    BY <1>4 DEF countUserAndDemands
  <2>2. count'.others = 0 => Alone(tx.q)
    BY <2>1, NobodyElse
  <2> QED BY <1>1, <1>4, <2>2, ReadPreserves DEF countUserAndDemands
<1> QED BY <1>2, <1>3, <1>4

\* The decision refuses, or admits a user who counted no other computer.
LEMMA DecidePreserves ==
    ASSUME IInv, decide
    PROVE  IInv'
<1> USE DEF IInv
<1>1. CASE Refuse
  BY <1>1, RefusePreserves DEF decide
<1>2. CASE \E region \in Regions : Admit(region)
  <2>1. PICK region \in Regions : Admit(region)
    BY <1>2
  <2>2. tx \in Tx /\ tx.pc = "decide"
    BY DEF decide, TypeOK, NoTx
  <2>3. tx.q \in Request /\ row[tx.q.c] \in Row
    BY <2>2 DEF TypeOK, Tx, Request
  <2>4. instanceType(tx.q) \in Types
    <3>1. CASE tx.q.type # "keep"
      BY <2>3, <3>1 DEF instanceType, Request
    <3>2. CASE tx.q.type = "keep"
      <4>1. tx.q.kind = "lease"
        BY <2>3, <3>2, FleetAssumption DEF Request
      <4>2. row[tx.q.c].region \in Regions
        BY <2>1, <4>1 DEF Admit, decideAdmission, regionFor
      <4>3. row[tx.q.c].type \in Types
        BY <2>3, <4>2, FleetAssumption DEF Row, NoRow
      <4> QED BY <3>2, <4>3 DEF instanceType
    <3> QED BY <3>1, <3>2
  <2>5. tx' = [tx EXCEPT !.pc = "write", !.type = instanceType(tx.q), !.region = region]
    BY <2>1 DEF Admit
  <2>6. tx' \in Tx /\ tx'.q = tx.q /\ tx'.pc = "write"
    BY <2>2, <2>4, <2>5 DEF Tx
  <2>7. releaseOwnSlot(tx.q).others = count.others
    BY DEF releaseOwnSlot
  <2>8. count.others = 0
    BY <2>1, <2>7 DEF Admit, decideAdmission
  <2>9. Alone(tx.q)
    BY <2>2, <2>8 DEF AloneOK
  <2>10. TypeOK'
    BY <2>6 DEF decide, TypeOK
  <2>11. AloneOK'
    BY <2>6, <2>9 DEF AloneOK, Alone, Unclosed, decide
  <2>12. DeadOK'
    BY <2>2, <2>6 DEF DeadOK, Live, decide
  <2>13. OnePerOwner' /\ DemandsFitIndexes'
    BY NothingTaken DEF Holds, Live, Unclosed, decide
  <2> QED BY <2>10, <2>11, <2>12, <2>13
<1> QED BY <1>1, <1>2 DEF decide

-----------------------------------------------------------------------------
(* Commits.                                                                *)

\* createAwsPlacement and leasePlacement: the booted computer is its user's only
\* one, by AloneOK, and the demands the count ignored are not live, by DeadOK.
LEMMA BootPreserves ==
    ASSUME IInv, boot
    PROVE  IInv'
<1> USE DEF IInv
<1> DEFINE q == tx.q
<1>1. tx \in Tx /\ tx.pc = "write" /\ q \in Request /\ q.c \in Computers
  BY DEF boot, TypeOK, NoTx, Tx, Request
<1>2. Booted \in Row
  BY <1>1 DEF Booted, Row, State, Tx, Request
<1>3. /\ row' = [row EXCEPT ![q.c] = Booted]
      /\ demand' = [demand EXCEPT ![q.c] = NoDemand] \/ demand' = demand
      /\ tx' = NoTx /\ UNCHANGED <<deleted, waiting>>
  BY DEF boot, Refuse
<1>4. NoDemand \in Demand /\ NoDemand.st = "none"
  BY DEF NoDemand, Demand
<1>5. \A c \in Computers :
          /\ Unclosed(c)' => Unclosed(c) /\ demand'[c] = demand[c]
          /\ Live(c)' => Live(c)
          /\ c # q.c => row'[c] = row[c]
  BY <1>1, <1>3, <1>4 DEF TypeOK, Unclosed, Live
<1>6. TypeOK'
  BY <1>1, <1>2, <1>3, <1>4 DEF TypeOK
<1>7. AloneOK'
  BY <1>3 DEF AloneOK, NoTx
<1>8. DeadOK'
  BY <1>3, <1>5 DEF DeadOK, NoTx, TypeOK, Request
<1>9. OnePerOwner'
  <2>1. Alone(q) /\ \A c \in q.dead : ~Live(c)
    BY <1>1 DEF AloneOK, DeadOK
  <2>2. \A c \in Computers \ {q.c} : Owner[c] = Owner[q.c] => ~Holds(c)'
    BY <1>5, <2>1 DEF Alone, Holds, Live, Unclosed, Free
  <2>3. \A c \in Computers \ {q.c} : Holds(c)' => Holds(c)
    BY <1>5 DEF Holds
  <2> QED BY <2>2, <2>3 DEF OnePerOwner
<1>10. DemandsFitIndexes'
  BY <1>5 DEF DemandsFitIndexes
<1> QED BY <1>6, <1>7, <1>8, <1>9, <1>10

\* A boot without room rolls back and begins a reservation.
LEMMA PressurePreserves ==
    ASSUME IInv, poolPressure
    PROVE  IInv'
<1> DEFINE q == [kind |-> "reserve", c |-> tx.q.c, type |-> tx.type,
                 region |-> tx.region, src |-> tx.q.src, dead |-> Past]
<1>1. tx \in Tx /\ tx.q \in Request /\ tx.pc = "write"
  BY DEF IInv, poolPressure, TypeOK, NoTx, Tx
<1>2. q \in Request
  BY <1>1 DEF Tx, Request, Past
<1>3. Begin(q) /\ tx' = NoTx /\ UNCHANGED <<row, demand, deleted>>
  BY DEF poolPressure, Refuse
<1>4. q.dead = Past
  OBVIOUS
<1> QED BY <1>2, <1>3, <1>4, BeginPreserves

\* A step that only closes demands, outside any other transaction.
LEMMA ClosePreserves ==
    ASSUME IInv, NEW C,
           demand' = [c \in Computers |-> IF c \in C THEN NoDemand ELSE demand[c]],
           tx' = NoTx, UNCHANGED <<row, deleted, waiting>>
    PROVE  IInv'
<1> USE DEF IInv
<1>1. NoDemand \in Demand /\ NoDemand.st = "none"
  BY DEF NoDemand, Demand
<1>2. \A c \in Computers :
          /\ Unclosed(c)' => Unclosed(c) /\ demand'[c] = demand[c]
          /\ Live(c)' => Live(c)
  BY <1>1 DEF TypeOK, Unclosed, Live
<1>3. TypeOK'
  BY <1>1 DEF TypeOK
<1>4. AloneOK'
  BY DEF AloneOK, NoTx
<1>5. DeadOK'
  BY <1>2 DEF DeadOK, NoTx, TypeOK, Request
<1>6. OnePerOwner' /\ DemandsFitIndexes'
  BY <1>2, NothingTaken DEF Holds
<1> QED BY <1>3, <1>4, <1>5, <1>6

\* reservePoolDemand: nobody else of the user holds a slot, no demand that is
\* left after the expired ones are closed is in the region or of the user.
LEMMA ReservePreserves ==
    ASSUME IInv, reservePoolDemand
    PROVE  IInv'
<1> USE DEF IInv
<1> DEFINE q == tx.q
           d == closeExpiredDemands(q.dead)
           new == [st |-> "active", type |-> q.type, region |-> q.region, src |-> q.src]
           C == {c \in Computers : c \in q.dead /\ Unclosed(c)}
<1>1. tx \in Tx /\ tx.pc = "write" /\ q \in Request /\ q.c \in Computers
      /\ q.kind = "reserve"
  BY DEF reservePoolDemand, TypeOK, NoTx, Tx, Request
<1>2. d = [c \in Computers |-> IF c \in C THEN NoDemand ELSE demand[c]]
  BY DEF closeExpiredDemands
<1>3. tx' = NoTx /\ UNCHANGED <<row, deleted>>
  BY DEF reservePoolDemand, Refuse
<1>4. CASE demand' = d /\ UNCHANGED waiting
  <2> HIDE DEF d, C, IInv
  <2> QED BY <1>2, <1>3, <1>4, ClosePreserves
<1>5. CASE /\ Reservable(q, d)
           /\ demand' = [d EXCEPT ![q.c] = new]
           /\ waiting' = {[w EXCEPT !.dead = @ \ {q.c}] : w \in waiting}
  <2>1. new \in Demand /\ new.st = "active" /\ new.region = q.region
    BY <1>1 DEF Demand, Request
  <2>2. NoDemand \in Demand /\ NoDemand.st = "none"
    BY DEF NoDemand, Demand
  <2>3. \A c \in Computers : c # q.c =>
            /\ demand'[c] = d[c]
            /\ Unclosed(c)' => /\ Unclosed(c) /\ demand'[c] = demand[c]
                               /\ c \notin q.dead
            /\ Live(c)' => Live(c)
    BY <1>1, <1>2, <1>5, <2>2 DEF Unclosed, Live
  <2>4. demand'[q.c] = new /\ demand' \in [Computers -> Demand]
    <3> HIDE DEF new, C
    <3> QED BY <1>1, <1>2, <1>5, <2>1, <2>2 DEF TypeOK
  <2>5. \A w \in waiting : /\ [w EXCEPT !.dead = @ \ {q.c}] \in Request
                           /\ [w EXCEPT !.dead = @ \ {q.c}].dead = w.dead \ {q.c}
    BY DEF TypeOK, Request
  <2> HIDE DEF new, d, C
  <2>6. TypeOK'
    BY <1>3, <1>5, <2>4, <2>5 DEF TypeOK
  <2>7. AloneOK'
    BY <1>3 DEF AloneOK, NoTx
  <2>8. DeadOK'
    <3>1. \A w \in waiting : w.dead \subseteq Computers
      BY DEF TypeOK, Request
    <3>2. \A w \in waiting' : \A c \in w.dead : ~Live(c)'
      <4> SUFFICES ASSUME NEW w \in waiting', NEW c \in w.dead PROVE ~Live(c)'
        OBVIOUS
      <4>1. PICK v \in waiting : w = [v EXCEPT !.dead = @ \ {q.c}]
        BY <1>5
      <4>2. c \in v.dead /\ c # q.c
        BY <2>5, <4>1
      <4>3. c \in Computers /\ ~Live(c)
        BY <3>1, <4>2 DEF DeadOK
      <4> QED BY <2>3, <4>2, <4>3
    <3> QED BY <1>3, <3>2 DEF DeadOK, NoTx
  <2>9. Alone(q)
    BY <1>1 DEF AloneOK
  <2>10. OnePerOwner'
    <3>1. \A c \in Computers \ {q.c} : Owner[c] = Owner[q.c] => ~Holds(c)'
      BY <1>3, <2>3, <2>9 DEF Alone, Holds, Live, Unclosed, Free
    <3>2. \A c \in Computers \ {q.c} : Holds(c)' => Holds(c)
      BY <1>3, <2>3 DEF Holds
    <3> QED BY <3>1, <3>2 DEF OnePerOwner
  <2>11. DemandsFitIndexes'
    <3>1. \A c \in Computers : d[c].st # "none" => d[c].region # q.region
      BY <1>5 DEF Reservable
    <3>2. \A c \in Computers \ {q.c} : Unclosed(c)' => demand'[c].region # q.region
      BY <2>3, <3>1 DEF Unclosed
    <3>3. \A c \in Computers \ {q.c} : Unclosed(c)' => Owner[c] # Owner[q.c]
      BY <2>3, <2>9 DEF Alone
    <3> QED BY <2>1, <2>3, <2>4, <3>2, <3>3 DEF DemandsFitIndexes
  <2> QED BY <2>6, <2>7, <2>8, <2>10, <2>11
<1> QED BY <1>4, <1>5 DEF reservePoolDemand

\* A cancel or the replenish pass only closes demands.
LEMMA CancelPreserves ==
    ASSUME IInv,
           \/ \E c \in Computers : cancelComputerDemand(c)
           \/ \E dead \in SUBSET Past : closeOrphanedDemands(dead)
    PROVE  IInv'
<1>1. CASE \E c \in Computers : cancelComputerDemand(c)
  <2>1. PICK c \in Computers : cancelComputerDemand(c)
    BY <1>1
  <2>2. demand' = [x \in Computers |-> IF x \in {c} THEN NoDemand ELSE demand[x]]
    BY <2>1 DEF cancelComputerDemand, IInv, TypeOK
  <2> QED BY <2>1, <2>2, ClosePreserves DEF cancelComputerDemand
<1>2. CASE \E dead \in SUBSET Past : closeOrphanedDemands(dead)
  <2>1. PICK dead \in SUBSET Past : closeOrphanedDemands(dead)
    BY <1>2
  <2> QED BY <2>1, ClosePreserves DEF closeOrphanedDemands
<1> QED BY <1>1, <1>2

-----------------------------------------------------------------------------
\* Nothing is placed, demanded or waiting at first, and every step of a handler,
\* of the lock holder, of the lifecycle and of the clock preserves IInv.
THEOREM Inductive == Spec => []IInv
<1>1. Init => IInv
  <2> SUFFICES ASSUME Init PROVE IInv
    OBVIOUS
  <2>1. NoRow \in Row /\ NoDemand \in Demand /\ NoTx.pc = "free"
    BY DEF Row, Demand, NoTx
  <2>2. \A c \in Computers : ~Holds(c) /\ ~Unclosed(c)
    BY DEF Init, Holds, Live, Unclosed, NoRow, NoDemand
  <2>3. TypeOK
    BY <2>1 DEF Init, TypeOK
  <2>4. AloneOK /\ DeadOK
    BY <2>1 DEF Init, AloneOK, DeadOK
  <2>5. OnePerOwner /\ DemandsFitIndexes
    BY <2>2 DEF OnePerOwner, DemandsFitIndexes
  <2> QED BY <2>3, <2>4, <2>5 DEF IInv
<1>2. IInv /\ [Next]_vars => IInv'
  <2> SUFFICES ASSUME IInv, [Next]_vars PROVE IInv'
    OBVIOUS
  <2>1. CASE \E c \in Computers, to \in State : transition(c, to)
    BY <2>1, LifecyclePreserves
  <2>2. CASE \E c \in Computers : softDelete(c) \/ DeadlinePasses(c)
    BY <2>2, DeletePreserves, DeadlinePreserves
  <2>3. CASE \/ \E c \in Computers : cancelComputerDemand(c)
             \/ \E dead \in SUBSET Past : closeOrphanedDemands(dead)
    BY <2>3, CancelPreserves
  <2>4. CASE \E c \in Computers :
               \/ \E type \in Offered[c] : openCreate(c, type)
               \/ \E type \in Offered[c] \cup {"keep"} : openLease(c, type)
    BY <2>4, OpenPreserves
  <2>5. CASE \E q \in waiting : \E dead \in SUBSET (q.dead \cup Past) :
               withAdmission(q, dead)
    BY <2>5, LockPreserves
  <2>6. CASE countRunning \/ countRegions \/ countUserAndDemands
    BY <2>6, CountPreserves
  <2>7. CASE decide
    BY <2>7, DecidePreserves
  <2>8. CASE boot
    BY <2>8, BootPreserves
  <2>9. CASE poolPressure
    BY <2>9, PressurePreserves
  <2>10. CASE rollback
    BY <2>10, RefusePreserves DEF rollback
  <2>11. CASE reservePoolDemand
    BY <2>11, ReservePreserves
  <2>12. CASE UNCHANGED vars
    BY <2>12 DEF vars, IInv, TypeOK, AloneOK, Alone, DeadOK, OnePerOwner, Holds,
       DemandsFitIndexes, Live, Unclosed
  <2> QED BY <2>1, <2>2, <2>3, <2>4, <2>5, <2>6, <2>7, <2>8, <2>9, <2>10,
             <2>11, <2>12 DEF Next, Transaction
<1> QED BY <1>1, <1>2, PTL DEF Spec

\* Rows, demands and transactions keep their types, whatever the fleet.
THEOREM TypeCorrect == Spec => []TypeOK
<1>1. IInv => TypeOK
  BY DEF IInv
<1> QED BY <1>1, Inductive, PTL

\* A user never has two AWS computers, or one and a reservation for another:
\* the count read in one statement still holds when a later one commits.
THEOREM OneComputerPerOwner == Spec => []OnePerOwner
<1>1. IInv => OnePerOwner
  BY DEF IInv
<1> QED BY <1>1, Inductive, PTL

\* insertDemand never meets the unique indexes on region and on owner.
THEOREM DemandsNeverCollide == Spec => []DemandsFitIndexes
<1>1. IInv => DemandsFitIndexes
  BY DEF IInv
<1> QED BY <1>1, Inductive, PTL
-----------------------------------------------------------------------------
(* The budgets.  An admission counts what is held and promised statement   *)
(* by statement; what others hold or are promised can only shrink until it *)
(* writes, so each counter stays an upper bound of it.                     *)

HeldIn(R) == {c \in Computers : row[c].held /\ row[c].region \in R}
LiveIn(R) == {c \in Computers : Live(c) /\ demand[c].region \in R}
\* What the other computers may take of the budget of some regions.
Others(c, R) == RowSlots(HeldIn(R) \ {c}) \cup DemandSlots(LiveIn(R) \ {c})

\* Only a running-class computer is held, and what a replacement gives back was.
HeldOK ==
    \A c \in Computers :
        /\ row[c].held => row[c].state \in RUNNING_CLASS_STATES
        /\ row[c].state \in {"RUNNING", "FAILED"} => row[c].held

\* The counters bound what they have counted, the transaction's own computer
\* included, but for its promise.
Counts(n, R) == RowVcpu(HeldIn(R)) + DemandVcpu(LiveIn(R) \ {tx.q.c}) <= n
CountOK ==
    /\ count \in [vcpu: Nat, region: [Regions -> Nat], others: Nat]
    /\ tx.pc \in {"regions", "user"} => RowVcpu(HeldIn(Regions)) <= count.vcpu
    /\ tx.pc = "user" => \A r \in Regions : RowVcpu(HeldIn({r})) <= count.region[r]
    /\ tx.pc = "decide" => /\ Counts(count.vcpu, Regions)
                           /\ \A r \in Regions : Counts(count.region[r], {r})

\* What was admitted fits beside the others until it is written.
AdmittedOK ==
    tx.pc = "write" =>
        /\ Cardinality(Others(tx.q.c, Regions)) + Vcpu[tx.type] <= Cap
        /\ Cardinality(Others(tx.q.c, {tx.region})) + Vcpu[tx.type] <= RegionCap[tx.region]
        /\ tx.q.kind = "reserve" => tx.q.type = tx.type /\ tx.q.region = tx.region

CapInv == HeldOK /\ CountOK /\ AdmittedOK /\ WithinCaps

\* One computer's slots are as many as its vCPU.
LEMMA OwnSlots ==
    ASSUME NEW c, NEW n \in Nat
    PROVE  IsFiniteSet({c} \X (1..n)) /\ Cardinality({c} \X (1..n)) = n
<1>1. IsFiniteSet({c}) /\ Cardinality({c}) = 1
  BY FS_Singleton
<1>2. IsFiniteSet(1..n) /\ Cardinality(1..n) = n
  BY FS_Interval
<1> PICK A, B : A = {c} /\ B = 1..n
  OBVIOUS
<1>3. IsFiniteSet(A \X B) /\ Cardinality(A \X B) = Cardinality(A) * Cardinality(B)
  BY <1>1, <1>2, FS_Product
<1>4. Cardinality(A) * Cardinality(B) = n
  BY <1>1, <1>2
<1> QED BY <1>3, <1>4

\* The slots of some computers are finitely many.
LEMMA FiniteSlots ==
    ASSUME NEW S \in SUBSET Computers, NEW f, \A c \in S : f[c] \in Nat,
           NEW U, \A u \in U : \E c \in S : u \in {c} \X (1..f[c])
    PROVE  IsFiniteSet(U)
<1> DEFINE g == [c \in S |-> {c} \X (1..f[c])]
           T == {{c} \X (1..f[c]) : c \in S}
<1>1. IsFiniteSet(S)
  BY FleetAssumption, FS_Subset
<1>2. g \in [S -> T] /\ \A t \in T : \E c \in S : g[c] = t
  OBVIOUS
<1>3. g \in Surjection(S, T)
  BY <1>2 DEF Surjection
<1>4. ASSUME NEW c \in S
      PROVE  IsFiniteSet({c} \X (1..f[c]))
  BY OwnSlots
<1>5. \A t \in T : IsFiniteSet(t)
  BY <1>4
<1>6. U \subseteq UNION T
  OBVIOUS
<1> HIDE DEF g, T
<1>7. IsFiniteSet(T)
  BY <1>1, <1>3, FS_Surjection
<1>8. IsFiniteSet(UNION T)
  BY <1>7, <1>5, FS_UNION
<1> QED BY <1>8, <1>6, FS_Subset

\* What is placed and what is promised has a size.
LEMMA SlotTypes ==
    ASSUME TypeOK, NEW c \in Computers
    PROVE  /\ row[c].state # "none" \/ row[c].held =>
                row[c].type \in Types /\ row[c].region \in Regions
           /\ Unclosed(c) => demand[c].type \in Types /\ demand[c].region \in Regions
           /\ Live(c) => Unclosed(c)
<1>1. row[c] \in Row /\ demand[c] \in Demand
  BY DEF TypeOK
<1>2. row[c].state # "none" \/ row[c].held => row[c].type \in Types /\ row[c].region \in Regions
  BY <1>1 DEF Row, NoRow
<1>3. Unclosed(c) => demand[c].type \in Types /\ demand[c].region \in Regions
  BY <1>1 DEF Demand, NoDemand, Unclosed
<1> QED BY <1>2, <1>3 DEF Live, Unclosed

\* So the sums of admission are numbers.
LEMMA SlotsAre ==
    ASSUME TypeOK, NEW S \in SUBSET Computers
    PROVE  /\ (\A c \in S : row[c].state # "none" \/ row[c].held) =>
                IsFiniteSet(RowSlots(S)) /\ RowVcpu(S) \in Nat
           /\ (\A c \in S : Unclosed(c)) => IsFiniteSet(DemandSlots(S)) /\ DemandVcpu(S) \in Nat
<1>1. ASSUME \A c \in S : row[c].state # "none" \/ row[c].held
      PROVE  IsFiniteSet(RowSlots(S))
  <2> DEFINE f == [c \in S |-> Vcpu[row[c].type]]
  <2>1. \A c \in S : f[c] = Vcpu[row[c].type] /\ f[c] \in Nat
    BY <1>1, SlotTypes, CapsAssumption
  <2> HIDE DEF f
  <2>2. \A u \in RowSlots(S) : \E c \in S : u \in {c} \X (1..f[c])
    BY <2>1 DEF RowSlots
  <2> QED BY <2>1, <2>2, FiniteSlots
<1>2. ASSUME \A c \in S : Unclosed(c)
      PROVE  IsFiniteSet(DemandSlots(S))
  <2> DEFINE f == [c \in S |-> Vcpu[demand[c].type]]
  <2>1. \A c \in S : f[c] = Vcpu[demand[c].type] /\ f[c] \in Nat
    BY <1>2, SlotTypes, CapsAssumption
  <2> HIDE DEF f
  <2>2. \A u \in DemandSlots(S) : \E c \in S : u \in {c} \X (1..f[c])
    BY <2>1 DEF DemandSlots
  <2> QED BY <2>1, <2>2, FiniteSlots
<1> QED BY <1>1, <1>2, FS_CardinalityType DEF RowVcpu, DemandVcpu

\* More computers take more slots.
LEMMA SlotsGrow ==
    ASSUME TypeOK, NEW S, NEW T \in SUBSET Computers, S \subseteq T
    PROVE  /\ (\A c \in T : row[c].state # "none" \/ row[c].held) => RowVcpu(S) <= RowVcpu(T)
           /\ (\A c \in T : Unclosed(c)) => DemandVcpu(S) <= DemandVcpu(T)
<1>1. RowSlots(S) \subseteq RowSlots(T) /\ DemandSlots(S) \subseteq DemandSlots(T)
  BY DEF RowSlots, DemandSlots
<1> QED BY <1>1, SlotsAre, FS_Subset DEF RowVcpu, DemandVcpu

\* What is held and promised in some regions.
LEMMA Liables ==
    ASSUME TypeOK, NEW R, NEW c
    PROVE  /\ IsFiniteSet(RowSlots(HeldIn(R))) /\ RowVcpu(HeldIn(R)) \in Nat
           /\ IsFiniteSet(RowSlots(HeldIn(R) \ {c})) /\ RowVcpu(HeldIn(R) \ {c}) \in Nat
           /\ IsFiniteSet(DemandSlots(LiveIn(R))) /\ DemandVcpu(LiveIn(R)) \in Nat
           /\ IsFiniteSet(DemandSlots(LiveIn(R) \ {c})) /\ DemandVcpu(LiveIn(R) \ {c}) \in Nat
           /\ Liable(R) = RowSlots(HeldIn(R)) \cup DemandSlots(LiveIn(R))
           /\ IsFiniteSet(Liable(R)) /\ Cardinality(Liable(R)) \in Nat
           /\ IsFiniteSet(Others(c, R)) /\ Cardinality(Others(c, R)) \in Nat
           /\ Cardinality(Others(c, R)) <=
                RowVcpu(HeldIn(R) \ {c}) + DemandVcpu(LiveIn(R) \ {c})
<1>1. /\ HeldIn(R) \in SUBSET Computers /\ HeldIn(R) \ {c} \in SUBSET Computers
      /\ \A x \in HeldIn(R) : row[x].held
  BY DEF HeldIn
<1>2. /\ LiveIn(R) \in SUBSET Computers /\ LiveIn(R) \ {c} \in SUBSET Computers
      /\ \A x \in LiveIn(R) : Unclosed(x)
  BY SlotTypes DEF LiveIn
<1>3. /\ IsFiniteSet(RowSlots(HeldIn(R))) /\ RowVcpu(HeldIn(R)) \in Nat
      /\ IsFiniteSet(RowSlots(HeldIn(R) \ {c})) /\ RowVcpu(HeldIn(R) \ {c}) \in Nat
  BY <1>1, SlotsAre
<1>4. /\ IsFiniteSet(DemandSlots(LiveIn(R))) /\ DemandVcpu(LiveIn(R)) \in Nat
      /\ IsFiniteSet(DemandSlots(LiveIn(R) \ {c})) /\ DemandVcpu(LiveIn(R) \ {c}) \in Nat
  BY <1>2, SlotsAre
<1>5. Liable(R) = RowSlots(HeldIn(R)) \cup DemandSlots(LiveIn(R))
  BY DEF Liable, HeldIn, LiveIn
<1>6. IsFiniteSet(Liable(R)) /\ Cardinality(Liable(R)) \in Nat
  BY <1>3, <1>4, <1>5, FS_Union, FS_CardinalityType
<1>7. /\ IsFiniteSet(Others(c, R)) /\ Cardinality(Others(c, R)) \in Nat
      /\ Cardinality(Others(c, R)) <= RowVcpu(HeldIn(R) \ {c}) + DemandVcpu(LiveIn(R) \ {c})
  <2> DEFINE A == RowSlots(HeldIn(R) \ {c})
             B == DemandSlots(LiveIn(R) \ {c})
  <2>1. IsFiniteSet(A) /\ IsFiniteSet(B) /\ Others(c, R) = A \cup B
    BY <1>3, <1>4 DEF Others
  <2> HIDE DEF A, B
  <2>2. IsFiniteSet(A \cup B) /\ Cardinality(A \cup B) \in Nat /\ Cardinality(A \cap B) \in Nat
    BY <2>1, FS_Union, FS_Intersection, FS_CardinalityType
  <2>3. Cardinality(A \cup B) = Cardinality(A) + Cardinality(B) - Cardinality(A \cap B)
    BY <2>1, FS_Union
  <2>4. Cardinality(A) \in Nat /\ Cardinality(B) \in Nat
    BY <2>1, FS_CardinalityType
  <2>5. Cardinality(A \cup B) <= Cardinality(A) + Cardinality(B)
    BY <2>2, <2>3, <2>4
  <2> QED BY <2>1, <2>2, <2>5 DEF RowVcpu, DemandVcpu, A, B
<1> QED BY <1>3, <1>4, <1>5, <1>6, <1>7

\* Nobody is admitted or promised anything.
Shrinks ==
    \A c \in Computers :
        /\ row'[c].held => /\ row[c].held
                           /\ row'[c].type = row[c].type /\ row'[c].region = row[c].region
        /\ Live(c)' => /\ Live(c)
                       /\ demand'[c].type = demand[c].type
                       /\ demand'[c].region = demand[c].region

\* Then no slot is taken.
LEMMA SlotsShrink ==
    ASSUME TypeOK, Shrinks, NEW R, NEW c
    PROVE  /\ RowVcpu(HeldIn(R))' <= RowVcpu(HeldIn(R))
           /\ DemandVcpu(LiveIn(R) \ {c})' <= DemandVcpu(LiveIn(R) \ {c})
           /\ Cardinality(Liable(R)') <= Cardinality(Liable(R))
           /\ Cardinality(Others(c, R)') <= Cardinality(Others(c, R))
           /\ RowVcpu(HeldIn(R))' \in Nat /\ DemandVcpu(LiveIn(R) \ {c})' \in Nat
           /\ Cardinality(Liable(R)') \in Nat /\ Cardinality(Others(c, R)') \in Nat
<1>1. /\ HeldIn(R)' \subseteq HeldIn(R) /\ LiveIn(R)' \subseteq LiveIn(R)
      /\ \A x \in HeldIn(R)' : row'[x].type = row[x].type
      /\ \A x \in LiveIn(R)' : demand'[x].type = demand[x].type
  BY DEF Shrinks, HeldIn, LiveIn
<1>2. /\ RowSlots(HeldIn(R))' \subseteq RowSlots(HeldIn(R))
      /\ RowSlots(HeldIn(R) \ {c})' \subseteq RowSlots(HeldIn(R) \ {c})
  BY <1>1 DEF RowSlots
<1>3. /\ DemandSlots(LiveIn(R))' \subseteq DemandSlots(LiveIn(R))
      /\ DemandSlots(LiveIn(R) \ {c})' \subseteq DemandSlots(LiveIn(R) \ {c})
  BY <1>1 DEF DemandSlots
<1>4. Liable(R)' \subseteq Liable(R) /\ Others(c, R)' \subseteq Others(c, R)
  <2>1. Liable(R)' = RowSlots(HeldIn(R))' \cup DemandSlots(LiveIn(R))'
    BY DEF Liable, HeldIn, LiveIn
  <2> QED BY <1>2, <1>3, <2>1, Liables DEF Others
<1>5. \A A, B : IsFiniteSet(B) /\ A \subseteq B => Cardinality(A) <= Cardinality(B)
                                                   /\ Cardinality(A) \in Nat
  BY FS_Subset, FS_CardinalityType
<1>6. RowVcpu(HeldIn(R))' <= RowVcpu(HeldIn(R)) /\ RowVcpu(HeldIn(R))' \in Nat
  BY <1>2, <1>5, Liables DEF RowVcpu
<1>7. /\ DemandVcpu(LiveIn(R) \ {c})' <= DemandVcpu(LiveIn(R) \ {c})
      /\ DemandVcpu(LiveIn(R) \ {c})' \in Nat
  BY <1>3, <1>5, Liables DEF DemandVcpu
<1>8. /\ Cardinality(Liable(R)') <= Cardinality(Liable(R))
      /\ Cardinality(Others(c, R)') <= Cardinality(Others(c, R))
      /\ Cardinality(Liable(R)') \in Nat /\ Cardinality(Others(c, R)') \in Nat
  BY <1>4, <1>5, Liables
<1> QED BY <1>6, <1>7, <1>8

\* A step that admits and promises nothing keeps all counts and budgets.
LEMMA ShrinkingKeepsCaps ==
    ASSUME IInv, CapInv, Shrinks, HeldOK',
           \/ UNCHANGED <<tx, count>>
           \/ tx'.pc \in {"free", "running"} /\ count' \in {count, NoCount}
    PROVE  CapInv'
<1> USE DEF CapInv, IInv
<1>1. RegionCap \in [Regions -> Nat] /\ Cap \in Nat
  BY CapsAssumption
<1>2. WithinCaps'
  <2>1. ASSUME NEW R, NEW K \in Nat, Cardinality(Liable(R)) <= K
        PROVE  Cardinality(Liable(R)') <= K
    <3> PICK c : c = R
      OBVIOUS
    <3>1. /\ Cardinality(Liable(R)') <= Cardinality(Liable(R))
          /\ Cardinality(Liable(R)') \in Nat /\ Cardinality(Liable(R)) \in Nat
      BY Liables, SlotsShrink
    <3> QED BY <2>1, <3>1
  <2>2. Cardinality(Liable(Regions)') <= Cap
    BY <1>1, <2>1 DEF WithinCaps
  <2>3. \A r \in Regions : Cardinality(Liable({r})') <= RegionCap[r]
    BY <1>1, <2>1 DEF WithinCaps
  <2> QED BY <2>2, <2>3 DEF WithinCaps
<1>3. /\ count' \in [vcpu: Nat, region: [Regions -> Nat], others: Nat]
      /\ count'.vcpu \in Nat /\ count'.region \in [Regions -> Nat]
  BY DEF CountOK, NoCount
<1>4. CASE tx'.pc \in {"free", "running"}
  BY <1>2, <1>3, <1>4 DEF CountOK, AdmittedOK
<1>5. CASE UNCHANGED <<tx, count>>
  <2>1. CountOK'
    <3>1. ASSUME NEW R, NEW n \in Nat, RowVcpu(HeldIn(R)) <= n
          PROVE  RowVcpu(HeldIn(R))' <= n
      <4> PICK c : c = R
        OBVIOUS
      <4>1. /\ RowVcpu(HeldIn(R))' <= RowVcpu(HeldIn(R))
            /\ RowVcpu(HeldIn(R))' \in Nat /\ RowVcpu(HeldIn(R)) \in Nat
        BY Liables, SlotsShrink
      <4> QED BY <3>1, <4>1
    <3>2. ASSUME NEW R, NEW n \in Nat, Counts(n, R)
          PROVE  RowVcpu(HeldIn(R))' + DemandVcpu(LiveIn(R) \ {tx.q.c})' <= n
      <4> PICK c : c = tx.q.c
        OBVIOUS
      <4>1. RowVcpu(HeldIn(R)) + DemandVcpu(LiveIn(R) \ {c}) <= n
        BY <3>2 DEF Counts
      <4>2. /\ RowVcpu(HeldIn(R)) \in Nat /\ DemandVcpu(LiveIn(R) \ {c}) \in Nat
            /\ RowVcpu(HeldIn(R))' \in Nat /\ DemandVcpu(LiveIn(R) \ {c})' \in Nat
            /\ RowVcpu(HeldIn(R))' <= RowVcpu(HeldIn(R))
            /\ DemandVcpu(LiveIn(R) \ {c})' <= DemandVcpu(LiveIn(R) \ {c})
        BY Liables, SlotsShrink
      <4>3. RowVcpu(HeldIn(R))' + DemandVcpu(LiveIn(R) \ {c})' <= n
        BY <4>1, <4>2
      <4> QED BY <1>5, <4>3
    <3>3. tx.pc \in {"regions", "user"} => RowVcpu(HeldIn(Regions))' <= count.vcpu
      BY <1>3, <1>5, <3>1 DEF CountOK
    <3>4. tx.pc = "user" => \A r \in Regions : RowVcpu(HeldIn({r}))' <= count.region[r]
      BY <1>3, <1>5, <3>1 DEF CountOK
    <3>5. tx.pc = "decide" => /\ Counts(count.vcpu, Regions)'
                              /\ \A r \in Regions : Counts(count.region[r], {r})'
      BY <1>3, <1>5, <3>2 DEF CountOK, Counts
    <3> QED BY <1>3, <1>5, <3>3, <3>4, <3>5 DEF CountOK
  <2>2. AdmittedOK'
    <3>1. ASSUME tx.pc = "write"
          PROVE  /\ Cardinality(Others(tx.q.c, Regions))' + Vcpu[tx.type] <= Cap
                 /\ Cardinality(Others(tx.q.c, {tx.region}))' + Vcpu[tx.type]
                      <= RegionCap[tx.region]
      <4> PICK c, r, n : c = tx.q.c /\ r = tx.region /\ n = Vcpu[tx.type]
        OBVIOUS
      <4>1. n \in Nat /\ r \in Regions
        BY <3>1, CapsAssumption DEF TypeOK, Tx, NoTx
      <4>2. /\ Cardinality(Others(c, Regions)) + n <= Cap
            /\ Cardinality(Others(c, {r})) + n <= RegionCap[r]
        BY <3>1 DEF AdmittedOK
      <4>3. ASSUME NEW R
            PROVE  /\ Cardinality(Others(c, R)') <= Cardinality(Others(c, R))
                   /\ Cardinality(Others(c, R)') \in Nat /\ Cardinality(Others(c, R)) \in Nat
        BY Liables, SlotsShrink
      <4>4. /\ Cardinality(Others(c, Regions)') + n <= Cap
            /\ Cardinality(Others(c, {r})') + n <= RegionCap[r]
        BY <1>1, <4>1, <4>2, <4>3
      <4> QED BY <1>5, <4>4
    <3> QED BY <1>5, <3>1 DEF AdmittedOK
  <2> QED BY <1>2, <2>1, <2>2
<1> QED BY <1>4, <1>5

\* The lifecycle holds nothing that was not admitted.
LEMMA LifecycleCaps ==
    ASSUME IInv, CapInv, NEW c \in Computers, NEW to \in State, transition(c, to)
    PROVE  CapInv'
<1> DEFINE new == [row[c] EXCEPT !.state = to, !.held = @ /\ to \in RUNNING_CLASS_STATES]
<1>1. row' = [row EXCEPT ![c] = new] /\ UNCHANGED <<demand, tx, count>>
  BY DEF transition
<1>2. row[c] \in [state: State \ {"none"}, type: Types, region: Regions, epoch: Nat,
                  held: BOOLEAN]
  BY DEF transition, IInv, TypeOK, Row, NoRow
<1>3. /\ new.state = to /\ new.type = row[c].type /\ new.region = row[c].region
      /\ new.held <=> (row[c].held /\ to \in RUNNING_CLASS_STATES)
  BY <1>2
<1>4. to \in {"RUNNING", "FAILED"} => row[c].held
  BY DEF transition
<1> HIDE DEF new
<1>5. row'[c] = new /\ \A x \in Computers \ {c} : row'[x] = row[x]
  BY <1>1 DEF IInv, TypeOK
<1>6. Shrinks
  BY <1>1, <1>3, <1>5 DEF Shrinks, Live
<1>7. HeldOK'
  BY <1>3, <1>4, <1>5 DEF HeldOK, CapInv, RUNNING_CLASS_STATES
<1> QED BY <1>1, <1>6, <1>7, ShrinkingKeepsCaps

\* A step that leaves the rows and opens no demand.
LEMMA ClosingCaps ==
    ASSUME IInv, CapInv, UNCHANGED row,
           \A c \in Computers : Live(c)' => /\ Live(c) /\ demand'[c].type = demand[c].type
                                            /\ demand'[c].region = demand[c].region,
           \/ UNCHANGED <<tx, count>>
           \/ tx'.pc \in {"free", "running"} /\ count' \in {count, NoCount}
    PROVE  CapInv'
BY ShrinkingKeepsCaps DEF Shrinks, HeldOK, CapInv

\* The deadlines, deletes and opens, and the lock.
LEMMA HandlerCaps ==
    ASSUME IInv, CapInv, NEW c \in Computers, NEW type,
           softDelete(c) \/ DeadlinePasses(c) \/ openCreate(c, type) \/ openLease(c, type)
    PROVE  CapInv'
<1>1. CASE softDelete(c) \/ openCreate(c, type) \/ openLease(c, type)
  BY <1>1, ClosingCaps DEF softDelete, openCreate, openLease, Live
<1>2. CASE DeadlinePasses(c)
  <2>1. \A x \in Computers : Live(x)' => /\ Live(x) /\ demand'[x].type = demand[x].type
                                         /\ demand'[x].region = demand[x].region
    BY <1>2 DEF DeadlinePasses, IInv, TypeOK, Demand, Live
  <2> QED BY <1>2, <2>1, ClosingCaps DEF DeadlinePasses
<1> QED BY <1>1, <1>2

\* A transaction that gets the lock has counted nothing.
LEMMA LockCaps ==
    ASSUME IInv, CapInv, NEW q \in waiting, NEW dead, withAdmission(q, dead)
    PROVE  CapInv'
<1>1. tx'.pc \in {"free", "running"} /\ count' = NoCount /\ UNCHANGED <<row, demand>>
  BY DEF withAdmission, NoTx
<1> QED BY <1>1, ClosingCaps DEF Live

\* A transaction that is refused, rolled back or out of room.
LEMMA RefusedCaps ==
    ASSUME IInv, CapInv, Refuse, UNCHANGED <<row, demand>>
    PROVE  CapInv'
BY ClosingCaps DEF Refuse, NoTx, Live

\* Demands that are closed.
LEMMA ClosedCaps ==
    ASSUME IInv, CapInv, NEW C, UNCHANGED row,
           demand' = [c \in Computers |-> IF c \in C THEN NoDemand ELSE demand[c]],
           UNCHANGED <<tx, count>> \/ Refuse
    PROVE  CapInv'
<1>1. \A c \in Computers : Live(c)' => Live(c) /\ demand'[c] = demand[c]
  BY DEF Live, NoDemand
<1>2. \/ UNCHANGED <<tx, count>>
      \/ tx'.pc \in {"free", "running"} /\ count' \in {count, NoCount}
  BY DEF Refuse, NoTx
<1> QED BY <1>1, <1>2, ClosingCaps

-----------------------------------------------------------------------------
(* What a transaction counts and admits.                                   *)

\* The three counts.
LEMMA CountCaps ==
    ASSUME IInv, CapInv, countRunning \/ countRegions \/ countUserAndDemands
    PROVE  CapInv'
<1> USE DEF IInv, CapInv
<1>1. HeldOK' /\ WithinCaps'
  <2>1. UNCHANGED <<row, demand>>
    BY DEF countRunning, countRegions, countUserAndDemands
  <2>2. \A R : Liable(R)' = Liable(R)
    BY <2>1 DEF Liable, RowSlots, DemandSlots, Live
  <2> QED BY <2>1, <2>2 DEF HeldOK, WithinCaps
<1>2. tx \in Tx /\ tx'.pc \in {"regions", "user", "decide"} /\ tx'.q = tx.q
  BY DEF countRunning, countRegions, countUserAndDemands, TypeOK, Tx, NoTx
<1>3. AdmittedOK'
  BY <1>2 DEF AdmittedOK
<1>4. UNCHANGED <<row, demand>>
  BY DEF countRunning, countRegions, countUserAndDemands
<1>5. \A R : RowVcpu(HeldIn(R))' = RowVcpu(HeldIn(R))
  BY <1>4 DEF RowVcpu, RowSlots, HeldIn
<1>6. \A x \in Computers : row[x].held => row[x].state \in RUNNING_CLASS_STATES
  BY DEF HeldOK
<1>7. \A x \in Running : row[x].state # "none"
  BY DEF Running, RUNNING_CLASS_STATES
<1>8. CASE countRunning
  <2>1. HeldIn(Regions) \subseteq Running /\ Running \in SUBSET Computers
    BY <1>6 DEF HeldIn, Running
  <2>2. RowVcpu(HeldIn(Regions)) <= RowVcpu(Running) /\ RowVcpu(Running) \in Nat
    BY <1>7, <2>1, SlotsGrow, SlotsAre
  <2>3. count' = [count EXCEPT !.vcpu = RowVcpu(Running)] /\ tx'.pc = "regions"
    BY <1>2, <1>8 DEF countRunning, Tx
  <2>4. count'.vcpu = RowVcpu(Running) /\ count'.region = count.region
    BY <2>3 DEF CountOK
  <2>5. CountOK'
    BY <1>5, <2>2, <2>3, <2>4 DEF CountOK
  <2> QED BY <1>1, <1>3, <2>5
<1>9. CASE countRegions
  <2> DEFINE In(r) == {c \in Running : row[c].region = r}
             regions == [r \in Regions |-> RowVcpu(In(r))]
  <2>1. \A r : HeldIn({r}) \subseteq In(r) /\ In(r) \in SUBSET Computers /\ In(r) \subseteq Running
    BY <1>6 DEF HeldIn, Running
  <2>2. ASSUME NEW r \in Regions
        PROVE  RowVcpu(HeldIn({r})) <= RowVcpu(In(r)) /\ RowVcpu(In(r)) \in Nat
    <3> PICK S, T : S = HeldIn({r}) /\ T = In(r)
      OBVIOUS
    <3>1. S \subseteq T /\ T \in SUBSET Computers /\ \A x \in T : row[x].state # "none"
      BY <1>7, <2>1
    <3>2. RowVcpu(S) <= RowVcpu(T) /\ RowVcpu(T) \in Nat
      BY <3>1, SlotsGrow, SlotsAre
    <3> QED BY <3>2
  <2>3. count' = [count EXCEPT !.region = regions] /\ tx'.pc = "user" /\ tx.pc = "regions"
    BY <1>2, <1>9 DEF countRegions, Tx
  <2>4. regions \in [Regions -> Nat] /\ \A r \in Regions : regions[r] = RowVcpu(In(r))
    BY <2>2
  <2> HIDE DEF regions, In
  <2>5. count'.vcpu = count.vcpu /\ count'.region = regions
        /\ count' \in [vcpu: Nat, region: [Regions -> Nat], others: Nat]
    BY <2>3, <2>4 DEF CountOK
  <2>6. RowVcpu(HeldIn(Regions))' <= count'.vcpu
    BY <1>5, <2>3, <2>5 DEF CountOK
  <2>7. \A r \in Regions : RowVcpu(HeldIn({r}))' <= count'.region[r]
    BY <1>5, <2>2, <2>4, <2>5
  <2>8. CountOK'
    BY <2>3, <2>5, <2>6, <2>7 DEF CountOK
  <2> QED BY <1>1, <1>3, <2>8
<1>10. CASE countUserAndDemands
  <2> DEFINE D == Promised(tx.q)
             In(R) == {c \in D : demand[c].region \in R}
             others == Cardinality(OtherPlacements(tx.q)) +
                         Cardinality({c \in D : Owner[c] = Owner[tx.q.c]})
             regions == [r \in Regions |-> count.region[r] +
                           DemandVcpu({c \in D : demand[c].region = r})]
  <2>1. D \in SUBSET Computers /\ (\A x \in D : Unclosed(x) /\ demand[x].region \in Regions)
    BY SlotTypes DEF Promised, Counted
  <2>2. tx.pc = "user" /\ tx'.pc = "decide"
        /\ count' = [vcpu |-> count.vcpu + DemandVcpu(D), region |-> regions, others |-> others]
    BY <1>2, <1>10 DEF countUserAndDemands, Tx
  <2>3. others \in Nat
    <3>1. IsFiniteSet(OtherPlacements(tx.q)) /\ IsFiniteSet({c \in D : Owner[c] = Owner[tx.q.c]})
      BY <2>1, FS_Subset, FleetAssumption DEF OtherPlacements
    <3> QED BY <3>1, FS_CardinalityType
  <2>4. \A R : LiveIn(R) \ {tx.q.c} \subseteq In(R)
    BY <2>2, SlotTypes DEF LiveIn, Promised, Counted, DeadOK
  <2>5. In(Regions) = D /\ \A r : In({r}) = {c \in D : demand[c].region = r}
    BY <2>1
  <2>6. ASSUME NEW R
        PROVE  DemandVcpu(LiveIn(R) \ {tx.q.c}) <= DemandVcpu(In(R)) /\ DemandVcpu(In(R)) \in Nat
    <3> PICK S, T : S = LiveIn(R) \ {tx.q.c} /\ T = In(R)
      OBVIOUS
    <3>1. S \subseteq T /\ T \in SUBSET Computers /\ \A x \in T : Unclosed(x)
      BY <2>1, <2>4
    <3>2. DemandVcpu(S) <= DemandVcpu(T) /\ DemandVcpu(T) \in Nat
      BY <3>1, SlotsGrow, SlotsAre
    <3> QED BY <3>2
  <2>7. ASSUME NEW R, NEW n \in Nat, RowVcpu(HeldIn(R)) <= n
        PROVE  RowVcpu(HeldIn(R))' + DemandVcpu(LiveIn(R) \ {tx.q.c})' <= n + DemandVcpu(In(R))
    <3>1. DemandVcpu(LiveIn(R) \ {tx.q.c})' = DemandVcpu(LiveIn(R) \ {tx.q.c})
      BY <1>2, <1>4 DEF DemandVcpu, DemandSlots, LiveIn, Live
    <3> PICK c, a, b, d : /\ c = tx.q.c /\ a = RowVcpu(HeldIn(R)) /\ d = DemandVcpu(In(R))
                          /\ b = DemandVcpu(LiveIn(R) \ {c})
      OBVIOUS
    <3>2. a \in Nat /\ b \in Nat
      BY Liables
    <3>3. d \in Nat /\ b <= d /\ a <= n
      BY <2>6, <2>7
    <3>4. a + b <= n + d
      BY <3>2, <3>3
    <3> QED BY <1>5, <3>1, <3>4
  <2>8. ASSUME NEW r \in Regions
         PROVE  regions[r] = count.region[r] + DemandVcpu(In({r})) /\ regions[r] \in Nat
    <3> PICK S : S = In({r})
      OBVIOUS
    <3>1. regions[r] = count.region[r] + DemandVcpu(S)
      BY <2>5
    <3>2. DemandVcpu(S) \in Nat /\ count.region[r] \in Nat
      BY <2>6 DEF CountOK
    <3> QED BY <3>1, <3>2
  <2>9. regions \in [Regions -> Nat] /\ \A r \in Regions :
          regions[r] = count.region[r] + DemandVcpu(In({r}))
    BY <2>8
  <2>10. DemandVcpu(In(Regions)) = DemandVcpu(D) /\ DemandVcpu(D) \in Nat
    BY <2>5, <2>6
  <2> HIDE DEF D, In, regions, others
  <2>11. /\ count' \in [vcpu: Nat, region: [Regions -> Nat], others: Nat]
         /\ count'.vcpu = count.vcpu + DemandVcpu(In(Regions)) /\ count'.region = regions
    BY <2>2, <2>3, <2>9, <2>10 DEF CountOK
  <2>12. Counts(count.vcpu, Regions)'
    BY <2>2, <2>7, <2>11 DEF CountOK, Counts
  <2>13. ASSUME NEW r \in Regions
         PROVE  Counts(count.region[r], {r})'
    <3>1. RowVcpu(HeldIn({r})) <= count.region[r] /\ count.region[r] \in Nat
      BY <2>2 DEF CountOK
    <3>2. count'.region[r] = count.region[r] + DemandVcpu(In({r}))
      BY <2>9, <2>11
    <3> QED BY <2>7, <3>1, <3>2 DEF Counts
  <2>14. CountOK'
    BY <2>2, <2>11, <2>12, <2>13 DEF CountOK
  <2> QED BY <1>1, <1>3, <2>14
<1> QED BY <1>8, <1>9, <1>10

\* What is counted without the own slots that are given back still bounds what
\* the others take: a replacement's own slots were held when they were counted.
LEMMA ReleasedCounts ==
    ASSUME IInv, CapInv, tx.pc = "decide", NEW R, NEW n \in Nat, Counts(n, R),
           NEW c, c = tx.q.c
    PROVE  /\ Cardinality(Others(c, R)) <= n
           /\ c \in HeldIn(R) =>
                Cardinality(Others(c, R)) <=
                  (IF n > Vcpu[row[c].type] THEN n - Vcpu[row[c].type] ELSE 0)
<1> USE DEF IInv
<1> PICK a, b, d, o : /\ a = RowVcpu(HeldIn(R)) /\ b = RowVcpu(HeldIn(R) \ {c})
                      /\ d = DemandVcpu(LiveIn(R) \ {c}) /\ o = Cardinality(Others(c, R))
  OBVIOUS
<1>1. a \in Nat /\ b \in Nat /\ d \in Nat /\ o \in Nat /\ o <= b + d
  BY Liables
<1>2. a + d <= n
  BY DEF Counts
<1>3. b <= a
  <2>1. RowSlots(HeldIn(R) \ {c}) \subseteq RowSlots(HeldIn(R))
    BY DEF RowSlots
  <2> QED BY <2>1, Liables, FS_Subset DEF RowVcpu
<1>4. ASSUME c \in HeldIn(R)
      PROVE  Vcpu[row[c].type] \in Nat /\ a = b + Vcpu[row[c].type]
  <2> DEFINE v == Vcpu[row[c].type]
             A == RowSlots(HeldIn(R) \ {c})
             B == {c} \X (1..v)
  <2>1. v \in Nat
    BY <1>4, SlotTypes, CapsAssumption DEF HeldIn
  <2>2. RowSlots(HeldIn(R)) = A \cup B /\ A \cap B = {}
    BY <1>4 DEF RowSlots
  <2>3. IsFiniteSet(A) /\ Cardinality(A) = b
    BY Liables DEF RowVcpu
  <2>4. IsFiniteSet(B) /\ Cardinality(B) = v
    BY <2>1, OwnSlots
  <2>5. a = Cardinality(A \cup B)
    BY <2>2 DEF RowVcpu
  <2> HIDE DEF A, B, v
  <2>6. Cardinality(A \cup B) = Cardinality(A) + Cardinality(B) - Cardinality(A \cap B)
    BY <2>3, <2>4, FS_Union
  <2>7. Cardinality(A \cap B) = 0
    BY <2>2, FS_EmptySet
  <2>8. a = b + v
    BY <1>1, <2>1, <2>3, <2>4, <2>5, <2>6, <2>7
  <2> QED BY <2>1, <2>8 DEF v
<1>5. o <= n
  BY <1>1, <1>2, <1>3
<1>6. ASSUME c \in HeldIn(R)
      PROVE  o <= (IF n > Vcpu[row[c].type] THEN n - Vcpu[row[c].type] ELSE 0)
  BY <1>1, <1>2, <1>4, <1>6
<1> QED BY <1>5, <1>6

\* What the decision compares with the budgets bounds what the others take.
LEMMA OthersFit ==
    ASSUME IInv, CapInv, tx.pc = "decide", NEW c, c = tx.q.c, NEW n, n = releaseOwnSlot(tx.q)
    PROVE  /\ Cardinality(Others(c, Regions)) <= n.vcpu /\ n.vcpu \in Nat
           /\ \A r \in Regions : Cardinality(Others(c, {r})) <= n.region[r] /\ n.region[r] \in Nat
<1> USE DEF IInv, CapInv
<1>1. /\ count.vcpu \in Nat /\ count.region \in [Regions -> Nat] /\ Counts(count.vcpu, Regions)
      /\ \A r \in Regions : Counts(count.region[r], {r})
  BY DEF CountOK
<1>2. CASE tx.q.kind # "lease" \/ ~replaces(tx.q)
  <2>1. n = count
    BY <1>2 DEF releaseOwnSlot
  <2> QED BY <1>1, <2>1, ReleasedCounts
<1>3. CASE tx.q.kind = "lease" /\ replaces(tx.q)
  <2> DEFINE less(k) == IF k > Vcpu[row[c].type] THEN k - Vcpu[row[c].type] ELSE 0
  <2>1. /\ n.vcpu = less(count.vcpu)
        /\ n.region = [count.region EXCEPT ![row[c].region] = less(@)]
    BY <1>3 DEF releaseOwnSlot
  <2>2. c \in Computers
    BY DEF TypeOK, Tx, NoTx, Request
  <2>3. row[c].held /\ row[c].region \in Regions /\ Vcpu[row[c].type] \in Nat
    BY <1>3, <2>2, SlotTypes, CapsAssumption DEF replaces, HeldOK
  <2>4. c \in HeldIn(Regions) /\ c \in HeldIn({row[c].region})
    BY <2>2, <2>3 DEF HeldIn
  <2>5. \A k \in Nat : less(k) \in Nat
    BY <2>3
  <2>6. Cardinality(Others(c, Regions)) <= less(count.vcpu)
    BY <1>1, <2>4, ReleasedCounts
  <2>7. ASSUME NEW r \in Regions
        PROVE  Cardinality(Others(c, {r})) <= n.region[r] /\ n.region[r] \in Nat
    <3>1. CASE r = row[c].region
      <4>1. n.region[r] = less(count.region[r])
        BY <1>1, <2>1, <3>1
      <4>2. Cardinality(Others(c, {r})) <= less(count.region[r])
        BY <1>1, <2>4, <3>1, ReleasedCounts
      <4> QED BY <1>1, <2>5, <4>1, <4>2
    <3>2. CASE r # row[c].region
      <4>1. n.region[r] = count.region[r]
        BY <1>1, <2>1, <3>2
      <4> QED BY <1>1, <4>1, ReleasedCounts
    <3> QED BY <3>1, <3>2
  <2> QED BY <1>1, <2>1, <2>5, <2>6, <2>7
<1> QED BY <1>2, <1>3

\* The decision refuses, or admits what fits beside the others.
LEMMA DecideCaps ==
    ASSUME IInv, CapInv, IInv', decide
    PROVE  CapInv'
<1> USE DEF IInv, CapInv
<1>1. UNCHANGED <<row, demand>> /\ tx.pc = "decide"
  BY DEF decide
<1>2. CASE Refuse
  BY <1>1, <1>2, RefusedCaps
<1>3. ASSUME NEW region \in Regions, Admit(region)
      PROVE  CapInv'
  <2> PICK q, c, n : q = tx.q /\ c = q.c /\ n = releaseOwnSlot(q)
    OBVIOUS
  <2> DEFINE need == Vcpu[instanceType(q)]
  <2>1. /\ n.vcpu + need <= Cap /\ region \in regionFor(q, n, need)
        /\ q.kind = "reserve" => region = q.region
        /\ tx' = [tx EXCEPT !.pc = "write", !.type = instanceType(q), !.region = region]
        /\ count' = NoCount
    BY <1>3 DEF Admit, decideAdmission
  <2>2. tx \in Tx /\ q \in Request
    BY <1>1 DEF TypeOK, Tx, NoTx
  <2>3. tx'.pc = "write" /\ tx'.q = q /\ tx'.type = instanceType(q) /\ tx'.region = region
    BY <2>1, <2>2 DEF Tx
  <2>4. need \in Nat
    <3>1. tx' \in Tx
      BY <2>3 DEF TypeOK, NoTx
    <3> QED BY <2>3, <3>1, CapsAssumption DEF Tx
  <2>5. n.region[region] + need <= RegionCap[region]
    BY <2>1 DEF regionFor, Room
  <2>6. /\ Cardinality(Others(c, Regions)) <= n.vcpu /\ n.vcpu \in Nat
        /\ Cardinality(Others(c, {region})) <= n.region[region] /\ n.region[region] \in Nat
    BY <1>1, OthersFit
  <2>7. /\ Cardinality(Others(c, Regions)) \in Nat /\ Cardinality(Others(c, {region})) \in Nat
        /\ Cap \in Nat /\ RegionCap[region] \in Nat
    BY Liables, CapsAssumption
  <2> HIDE DEF need
  <2>8. /\ Cardinality(Others(c, Regions)) + need <= Cap
        /\ Cardinality(Others(c, {region})) + need <= RegionCap[region]
    BY <2>1, <2>4, <2>5, <2>6, <2>7
  <2>9. \A R : Others(c, R)' = Others(c, R) /\ Liable(R)' = Liable(R)
    BY <1>1 DEF Others, HeldIn, LiveIn, Liable, RowSlots, DemandSlots, Live
  <2>10. q.kind = "reserve" => q.type = instanceType(q) /\ q.region = region
    BY <2>1, <2>2, FleetAssumption DEF instanceType, Request
  <2>11. AdmittedOK'
    BY <2>3, <2>8, <2>9, <2>10 DEF AdmittedOK, need
  <2>12. CountOK'
    BY <2>1, <2>3 DEF CountOK, NoCount
  <2>13. HeldOK' /\ WithinCaps'
    BY <1>1, <2>9 DEF HeldOK, WithinCaps
  <2> QED BY <2>11, <2>12, <2>13
<1> QED BY <1>2, <1>3 DEF decide

-----------------------------------------------------------------------------
(* What it writes.                                                         *)

\* A computer takes its old slots or its new ones, whichever are more.
LEMMA OwnOverlap ==
    ASSUME IInv, NEW R, NEW c \in Computers, NEW n \in Nat, NEW K \in Nat,
           NEW L, L \subseteq Liable(R) \cup ({c} \X (1..n)),
           Cardinality(Liable(R)) <= K, Cardinality(Others(c, R)) + n <= K
    PROVE  Cardinality(L) <= K
<1> USE DEF IInv
<1> DEFINE a == IF c \in HeldIn(R) THEN Vcpu[row[c].type] ELSE 0
           b == IF c \in LiveIn(R) THEN Vcpu[demand[c].type] ELSE 0
           m == IF a <= b THEN b ELSE a
           O == Others(c, R)
           M == {c} \X (1..m)
           N == {c} \X (1..n)
<1>1. a \in Nat /\ b \in Nat
  <2>1. c \in HeldIn(R) => a \in Nat
    BY SlotTypes, CapsAssumption DEF HeldIn
  <2>2. c \in LiveIn(R) => b \in Nat
    BY SlotTypes, CapsAssumption DEF LiveIn
  <2> QED BY <2>1, <2>2
<1>2. RowSlots(HeldIn(R)) = RowSlots(HeldIn(R) \ {c}) \cup ({c} \X (1..a))
  BY DEF RowSlots
<1>3. DemandSlots(LiveIn(R)) = DemandSlots(LiveIn(R) \ {c}) \cup ({c} \X (1..b))
  BY DEF DemandSlots
<1>4. Liable(R) = O \cup ({c} \X (1..a)) \cup ({c} \X (1..b))
  BY <1>2, <1>3, Liables DEF Others
<1> HIDE DEF a, b
<1>5. Liable(R) = O \cup M /\ m \in Nat
  <2>1. ({c} \X (1..a)) \cup ({c} \X (1..b)) = M
    BY <1>1
  <2> QED BY <1>1, <1>4, <2>1
<1>6. /\ IsFiniteSet(O) /\ Cardinality(O) \in Nat
      /\ IsFiniteSet(N) /\ Cardinality(N) = n
  BY Liables, OwnSlots
<1>7. CASE n <= m
  <2>1. L \subseteq Liable(R)
    BY <1>5, <1>7
  <2>2. IsFiniteSet(Liable(R)) /\ Cardinality(Liable(R)) \in Nat
    BY Liables
  <2>3. Cardinality(L) <= Cardinality(Liable(R)) /\ Cardinality(L) \in Nat
    BY <2>1, <2>2, FS_Subset, FS_CardinalityType
  <2> QED BY <2>2, <2>3
<1>8. CASE m < n
  <2>1. L \subseteq O \cup N
    BY <1>5, <1>8
  <2> HIDE DEF O, N
  <2>2. IsFiniteSet(O \cup N) /\ Cardinality(O \cap N) \in Nat /\ Cardinality(O \cup N) \in Nat
    BY <1>6, FS_Union, FS_Intersection, FS_CardinalityType
  <2>3. Cardinality(O \cup N) = Cardinality(O) + Cardinality(N) - Cardinality(O \cap N)
    BY <1>6, FS_Union
  <2>4. Cardinality(L) <= Cardinality(O \cup N) /\ Cardinality(L) \in Nat
    BY <2>1, <2>2, FS_Subset, FS_CardinalityType
  <2> QED BY <1>6, <2>2, <2>3, <2>4 DEF O
<1> HIDE DEF m
<1> QED BY <1>5, <1>7, <1>8

\* What was admitted, and nothing else, is taken: of the fleet's budget, and of
\* the budget of the region it was admitted to.
LEMMA AdmittedCaps ==
    ASSUME IInv, CapInv, tx.pc = "write", tx' = NoTx, count' = NoCount, HeldOK',
           NEW c, c = tx.q.c, NEW n, n = Vcpu[tx.type], NEW region, region = tx.region,
           \A R : Liable(R)' \subseteq Liable(R) \cup
                                        (IF region \in R THEN {c} \X (1..n) ELSE {})
    PROVE  CapInv'
<1> USE DEF IInv, CapInv
<1>1. c \in Computers /\ n \in Nat /\ region \in Regions
  BY CapsAssumption DEF TypeOK, Tx, NoTx, Request
<1>2. RegionCap \in [Regions -> Nat] /\ Cap \in Nat
  BY CapsAssumption
<1>3. /\ Cardinality(Others(c, Regions)) + n <= Cap
      /\ Cardinality(Others(c, {region})) + n <= RegionCap[region]
  BY DEF AdmittedOK
<1>4. Cardinality(Liable(Regions)') <= Cap
  <2> PICK L : L = Liable(Regions)'
    OBVIOUS
  <2>1. L \subseteq Liable(Regions) \cup ({c} \X (1..n))
    BY <1>1
  <2>2. Cardinality(L) <= Cap
    BY <1>1, <1>2, <1>3, <2>1, OwnOverlap DEF WithinCaps
  <2> QED BY <2>2
<1>5. ASSUME NEW r \in Regions
      PROVE  Cardinality(Liable({r})') <= RegionCap[r]
  <2> PICK L : L = Liable({r})'
    OBVIOUS
  <2>1. Cardinality(Liable({r})) <= RegionCap[r] /\ RegionCap[r] \in Nat
    BY <1>2 DEF WithinCaps
  <2>2. CASE r = region
    <3>1. L \subseteq Liable({r}) \cup ({c} \X (1..n))
      BY <2>2
    <3>2. Cardinality(Others(c, {r})) + n <= RegionCap[r]
      BY <1>3, <2>2
    <3>3. Cardinality(L) <= RegionCap[r]
      BY <1>1, <2>1, <3>1, <3>2, OwnOverlap
    <3> QED BY <3>3
  <2>3. CASE r # region
    <3>1. L \subseteq Liable({r})
      BY <2>3
    <3>2. IsFiniteSet(Liable({r})) /\ Cardinality(Liable({r})) \in Nat
      BY Liables
    <3>3. Cardinality(L) <= Cardinality(Liable({r})) /\ Cardinality(L) \in Nat
      BY <3>1, <3>2, FS_Subset, FS_CardinalityType
    <3>4. Cardinality(L) <= RegionCap[r]
      BY <2>1, <3>2, <3>3
    <3> QED BY <3>4
  <2> QED BY <2>2, <2>3
<1>6. CountOK' /\ AdmittedOK'
  BY DEF CountOK, AdmittedOK, NoCount, NoTx
<1> QED BY <1>4, <1>5, <1>6 DEF WithinCaps

\* The boot takes what was admitted.
LEMMA BootCaps ==
    ASSUME IInv, CapInv, boot
    PROVE  CapInv'
<1> USE DEF IInv, CapInv
<1> PICK c, n, region : c = tx.q.c /\ n = Vcpu[tx.type] /\ region = tx.region
  OBVIOUS
<1>1. c \in Computers /\ tx.pc = "write" /\ tx' = NoTx /\ count' = NoCount
  BY DEF boot, Refuse, TypeOK, Tx, NoTx, Request
<1>2. row' = [row EXCEPT ![c] = Booted]
  BY DEF boot
<1>3. /\ row'[c] = Booted /\ \A x \in Computers \ {c} : row'[x] = row[x]
      /\ \A x \in Computers : Live(x)' => Live(x) /\ demand'[x] = demand[x]
  BY <1>1, <1>2 DEF boot, TypeOK, Live, NoDemand
<1>4. Booted.held = TRUE /\ Booted.state = "BUSY" /\ Booted.type = tx.type
      /\ Booted.region = region
  BY DEF Booted
<1>5. HeldOK'
  BY <1>3, <1>4 DEF HeldOK, RUNNING_CLASS_STATES
<1>6. ASSUME NEW R
      PROVE  Liable(R)' \subseteq Liable(R) \cup (IF region \in R THEN {c} \X (1..n) ELSE {})
  <2>1. \A x \in HeldIn(R)' : \/ x \in HeldIn(R) /\ row'[x].type = row[x].type
                              \/ x = c /\ region \in R /\ row'[x].type = tx.type
    BY <1>3, <1>4 DEF HeldIn
  <2>2. RowSlots(HeldIn(R))' \subseteq
          RowSlots(HeldIn(R)) \cup (IF region \in R THEN {c} \X (1..n) ELSE {})
    BY <2>1 DEF RowSlots
  <2>3. DemandSlots(LiveIn(R))' \subseteq DemandSlots(LiveIn(R))
    BY <1>3 DEF DemandSlots, LiveIn
  <2>4. Liable(R)' = RowSlots(HeldIn(R))' \cup DemandSlots(LiveIn(R))'
    BY DEF Liable, HeldIn, LiveIn
  <2> QED BY <2>2, <2>3, <2>4, Liables
<1> QED BY <1>1, <1>5, <1>6, AdmittedCaps

\* The reservation promises what was admitted.
LEMMA ReserveCaps ==
    ASSUME IInv, CapInv, reservePoolDemand
    PROVE  CapInv'
<1> USE DEF IInv, CapInv
<1> PICK q, c, n, region : q = tx.q /\ c = q.c /\ n = Vcpu[tx.type] /\ region = tx.region
  OBVIOUS
<1> DEFINE d == closeExpiredDemands(q.dead)
           new == [st |-> "active", type |-> q.type, region |-> q.region, src |-> q.src]
<1>1. /\ c \in Computers /\ tx.pc = "write" /\ q.kind = "reserve" /\ UNCHANGED row
      /\ tx' = NoTx /\ count' = NoCount
  BY DEF reservePoolDemand, Refuse, TypeOK, Tx, NoTx, Request
<1>2. demand' = d \/ demand' = [d EXCEPT ![c] = new]
  BY DEF reservePoolDemand
<1>3. /\ d = [x \in Computers |-> IF x \in q.dead /\ Unclosed(x) THEN NoDemand ELSE demand[x]]
      /\ q.type = tx.type /\ q.region = region
  BY <1>1 DEF closeExpiredDemands, AdmittedOK
<1>4. \A x \in Computers : Live(x)' =>
        \/ Live(x) /\ demand'[x] = demand[x]
        \/ x = c /\ demand'[x].type = tx.type /\ demand'[x].region = region
  BY <1>1, <1>2, <1>3 DEF Live, NoDemand
<1>5. HeldOK'
  BY <1>1 DEF HeldOK
<1> HIDE DEF d, new
<1>6. ASSUME NEW R
      PROVE  Liable(R)' \subseteq Liable(R) \cup (IF region \in R THEN {c} \X (1..n) ELSE {})
  <2>1. \A x \in LiveIn(R)' : \/ x \in LiveIn(R) /\ demand'[x].type = demand[x].type
                              \/ x = c /\ region \in R /\ demand'[x].type = tx.type
    BY <1>4 DEF LiveIn
  <2>2. DemandSlots(LiveIn(R))' \subseteq
          DemandSlots(LiveIn(R)) \cup (IF region \in R THEN {c} \X (1..n) ELSE {})
    BY <2>1 DEF DemandSlots
  <2>3. RowSlots(HeldIn(R))' = RowSlots(HeldIn(R))
    BY <1>1 DEF RowSlots, HeldIn
  <2>4. Liable(R)' = RowSlots(HeldIn(R))' \cup DemandSlots(LiveIn(R))'
    BY DEF Liable, HeldIn, LiveIn
  <2>5. Liable(R) = RowSlots(HeldIn(R)) \cup DemandSlots(LiveIn(R))
    BY Liables
  <2> QED BY <2>2, <2>3, <2>4, <2>5
<1> QED BY <1>1, <1>5, <1>6, AdmittedCaps

-----------------------------------------------------------------------------
\* Every step keeps the counts and the budgets.
LEMMA NextCaps ==
    ASSUME IInv, CapInv, IInv', [Next]_vars
    PROVE  CapInv'
<1>1. CASE \E c \in Computers, to \in State : transition(c, to)
  BY <1>1, LifecycleCaps
<1>2. CASE \E c \in Computers : softDelete(c) \/ DeadlinePasses(c)
  BY <1>2, HandlerCaps
<1>3. CASE \E c \in Computers :
             \/ \E type \in Offered[c] : openCreate(c, type)
             \/ \E type \in Offered[c] \cup {"keep"} : openLease(c, type)
  BY <1>3, HandlerCaps
<1>4. ASSUME NEW c \in Computers, cancelComputerDemand(c)
      PROVE  CapInv'
  <2>1. demand' = [x \in Computers |-> IF x \in {c} THEN NoDemand ELSE demand[x]]
    BY <1>4 DEF cancelComputerDemand, IInv, TypeOK
  <2> QED BY <1>4, <2>1, ClosedCaps DEF cancelComputerDemand
<1>5. CASE \E dead \in SUBSET Past : closeOrphanedDemands(dead)
  BY <1>5, ClosedCaps DEF closeOrphanedDemands
<1>6. CASE \E q \in waiting : \E dead \in SUBSET (q.dead \cup Past) : withAdmission(q, dead)
  BY <1>6, LockCaps
<1>7. CASE countRunning \/ countRegions \/ countUserAndDemands
  BY <1>7, CountCaps
<1>8. CASE decide
  BY <1>8, DecideCaps
<1>9. CASE boot
  BY <1>9, BootCaps
<1>10. CASE poolPressure
  BY <1>10, RefusedCaps DEF poolPressure
<1>11. CASE rollback
  BY <1>11, RefusedCaps DEF rollback
<1>12. CASE reservePoolDemand
  BY <1>12, ReserveCaps
<1>13. CASE UNCHANGED vars
  BY <1>13, ClosingCaps DEF vars, Live
<1> QED BY <1>1, <1>2, <1>3, <1>4, <1>5, <1>6, <1>7, <1>8, <1>9, <1>10, <1>11, <1>12,
           <1>13 DEF Next, Transaction

\* The counters of the transaction under the lock, what it has admitted and what
\* the fleet and each region hold agree, however the lifecycle, deletes and
\* deadlines interleave with its statements.
THEOREM CapsInductive == Spec => []CapInv
<1>1. Init => CapInv
  <2> SUFFICES ASSUME Init PROVE CapInv
    OBVIOUS
  <2>1. /\ \A c \in Computers : ~row[c].held /\ row[c].state = "none" /\ ~Live(c)
        /\ tx.pc = "free" /\ count = NoCount
    BY DEF Init, NoRow, NoDemand, NoTx, Live
  <2>2. HeldOK /\ CountOK /\ AdmittedOK
    BY <2>1 DEF HeldOK, CountOK, AdmittedOK, NoCount
  <2>3. \A R : Liable(R) = {}
    BY <2>1 DEF Liable, RowSlots, DemandSlots
  <2>4. WithinCaps
    BY <2>3, FS_EmptySet, CapsAssumption DEF WithinCaps
  <2> QED BY <2>2, <2>4 DEF CapInv
<1>2. IInv /\ CapInv /\ IInv' /\ [Next]_vars => CapInv'
  BY NextCaps
<1> QED BY <1>1, <1>2, Inductive, PTL DEF Spec

\* The fleet and every region stay within their vCPU budgets, promises to
\* waiting opens included, although the counters are read by separate
\* statements and the lifecycle never takes the admission lock.
THEOREM BudgetsHold == Spec => []WithinCaps
<1>1. CapInv => WithinCaps
  BY DEF CapInv
<1> QED BY <1>1, CapsInductive, PTL
=============================================================================
