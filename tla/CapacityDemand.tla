--------------------------- MODULE CapacityDemand ---------------------------
(***************************************************************************)
(* The capacity attempts of one computer: what an open that only idle      *)
(* spares keep out reserves, what expires, and what releases an expired    *)
(* attempt.  Every transaction runs alone under the admission lock, but it *)
(* dates what it writes with the time it began, before it had the lock:    *)
(* rows are not dated in the order in which they are written.              *)
(***************************************************************************)
EXTENDS Naturals, Sequences, FiniteSets

CONSTANTS
    MaxTime,    \* bound: transactions begun and deadlines passed
    MaxEpoch,   \* bound: leases
    MaxBegun    \* bound: handlers under way

ASSUME BoundsAssumption == MaxTime \in Nat /\ MaxEpoch \in Nat /\ MaxBegun \in Nat

VARIABLES
    clock,    \* Postgres' clock
    demands,  \* the computer's rows, in the order they were inserted
    place,    \* its placement
    deleted,  \* it is soft-deleted
    begun,    \* handlers whose transaction waits for the lock
    known     \* expired attempts the client was told of

vars == <<clock, demands, place, deleted, begun, known>>

Times == 0..MaxTime
Sources == 0..MaxEpoch  \* the lease epoch a wake starts from, 0 for a create

\* passed: when its deadline passed, 0 before.  owner: history, by which act the
\* owner was told that this expired attempt is released.
Row == [st: {"active", "consumed", "cancelled", "expired"}, src: Sources,
        created: Times, passed: Times, closed: Times, marker: BOOLEAN,
        owner: {"none", "stop", "retry"}]
Place == [state: {"none", "BUSY", "STOPPED"}, epoch: Sources]
\* at: when its transaction began, 0 before.  id: the attempt a Retry names.
Handler == [kind: {"open", "reserve", "stop", "retry", "sweep"}, at: Times,
            src: Sources, id: Nat]

TypeOK ==
    /\ clock \in Times /\ demands \in Seq(Row) /\ place \in Place
    /\ deleted \in BOOLEAN /\ begun \subseteq Handler
    /\ known \subseteq DOMAIN demands

Init ==
    /\ clock = 0 /\ demands = <<>> /\ begun = {} /\ known = {}
    /\ place = [state |-> "none", epoch |-> 0] /\ deleted = FALSE

-----------------------------------------------------------------------------
Ids == DOMAIN demands
Active == {i \in Ids : demands[i].st = "active"}
Expired == {i \in Ids : demands[i].st = "expired"}

\* The source a handler finds: no placement, or the stopped one at its epoch.
Source(src) ==
    IF src = 0 THEN place.state = "none"
    ELSE place.state = "STOPPED" /\ place.epoch = src

Tick == clock < MaxTime /\ clock' = clock + 1
Begin(h) ==
    /\ Tick /\ Cardinality(begun) < MaxBegun
    /\ begun' = begun \cup {[h EXCEPT !.at = clock']}
    /\ UNCHANGED <<demands, place, deleted, known>>

Of(kind) == [kind |-> kind, at |-> 0, src |-> 0, id |-> 0]
open(src) == ~deleted /\ Source(src) /\ Begin([Of("open") EXCEPT !.src = src])
stop == ~deleted /\ Begin(Of("stop"))
retry(i) == i \in known /\ Begin([Of("retry") EXCEPT !.id = i])
sweep == Begin(Of("sweep"))

\* An open that pool pressure rolled back begins its second transaction.
beginReserve(h) ==
    /\ h \in begun /\ h.at = 0 /\ Tick
    /\ begun' = (begun \ {h}) \cup {[h EXCEPT !.at = clock']}
    /\ UNCHANGED <<demands, place, deleted, known>>

\* The fixed deadline lies DEMAND_TTL_SECONDS after the reservation began: no
\* transaction waits for the lock that long.
DeadlinePasses ==
    /\ Tick
    /\ \E i \in Active :
          /\ demands[i].passed = 0
          /\ \A h \in begun : h.at = 0 \/ h.at > demands[i].created
          /\ demands' = [demands EXCEPT ![i].passed = clock']
    /\ UNCHANGED <<place, deleted, begun, known>>

settleStop ==
    /\ place.state = "BUSY"
    /\ place' = [place EXCEPT !.state = "STOPPED"]
    /\ UNCHANGED <<clock, demands, deleted, begun, known>>

softDelete ==
    /\ ~deleted /\ deleted' = TRUE
    /\ UNCHANGED <<clock, demands, place, begun, known>>

-----------------------------------------------------------------------------
(* Each transaction in turn.                                               *)

Takes(h, kind) ==
    /\ h \in begun /\ h.kind = kind /\ h.at # 0
    /\ UNCHANGED <<clock, deleted>>
Done(h) == begun' = begun \ {h}

Past(i, now) == demands[i].passed # 0 /\ demands[i].passed <= now
Close(i, st, now) == [demands EXCEPT ![i].st = st, ![i].closed = now]

closeExpiredDemands(now) ==
    [i \in Ids |-> IF i \in Active /\ Past(i, now)
                   THEN [demands[i] EXCEPT !.st = "expired", !.closed = now]
                   ELSE demands[i]]
\* Cancels what is left of a deleted computer.
closeOrphanedDemands(rows, now) ==
    [i \in DOMAIN rows |-> IF deleted /\ rows[i].st = "active"
                           THEN [rows[i] EXCEPT !.st = "cancelled", !.closed = now]
                           ELSE rows[i]]

\* Mutant: a demand names the epoch it will boot.
NamesNextEpoch(rows, src, now) ==
    Append(rows, [st |-> "active", src |-> src + 1, created |-> now, passed |-> 0,
                  closed |-> 0, marker |-> FALSE, owner |-> "none"])
insertDemand(rows, src, now) ==
    Append(rows, [st |-> "active", src |-> src, created |-> now, passed |-> 0,
                  closed |-> 0, marker |-> FALSE, owner |-> "none"])
Marker(src, now) ==
    [st |-> "cancelled", src |-> src, created |-> now, passed |-> 0, closed |-> now,
     marker |-> TRUE, owner |-> "none"]

\* Mutant: any cancellation releases, whenever it was.
CancelledEver(rows, i) == \E k \in DOMAIN rows : rows[k].st = "cancelled"

Released(rows, i) ==
    \E k \in DOMAIN rows : rows[k].st = "cancelled" /\ rows[k].closed >= rows[i].closed
Newest(rows, S) == CHOOSE i \in S : \A k \in S : rows[k].closed <= rows[i].closed

terminalExpiredAttempt(rows, src) ==
    {i \in DOMAIN rows : /\ rows[i].st = "expired" /\ rows[i].src = src
                         /\ ~Released(rows, i)}

\* The admission lets the open boot: its own live demand is consumed.
claimDemand(h) ==
    LET own == {i \in Active : ~Past(i, h.at) /\ demands[i].src = h.src} IN
    IF own = {} THEN demands ELSE Close(CHOOSE i \in own : TRUE, "consumed", h.at)
admitBoot(h) ==
    /\ Takes(h, "open") /\ ~deleted /\ Source(h.src) /\ h.src < MaxEpoch
    /\ place' = [state |-> "BUSY", epoch |-> h.src + 1]
    /\ demands' = claimDemand(h)
    /\ Done(h) /\ UNCHANGED known

\* Or it is refused, or rolled back because only idle spares are in the way.
refuse(h) ==
    /\ Takes(h, "open") \/ Takes(h, "reserve")
    /\ Done(h) /\ UNCHANGED <<demands, place, known>>
PoolCapacityPressure(h) ==
    /\ Takes(h, "open")
    /\ begun' = (begun \ {h}) \cup {[h EXCEPT !.kind = "reserve", !.at = 0]}
    /\ UNCHANGED <<demands, place, known>>

\* A repeat waits on the row it has; an expired attempt is answered with its id.
reservePoolDemand(h) ==
    LET rows == closeExpiredDemands(h.at)
        waiting == {i \in Ids : rows[i].st = "active"}
        terminal == terminalExpiredAttempt(rows, h.src)
    IN /\ Takes(h, "reserve") /\ ~deleted /\ Source(h.src)
       /\ \/ /\ waiting = {} /\ terminal # {}
             /\ demands' = rows /\ known' = known \cup {Newest(rows, terminal)}
          \/ demands' = rows /\ UNCHANGED known
          \/ /\ waiting = {} /\ terminal = {}
             /\ demands' = insertDemand(rows, h.src, h.at) /\ UNCHANGED known
       /\ Done(h) /\ UNCHANGED place

\* The replenish pass.
runPoolReplenish(h) ==
    /\ Takes(h, "sweep")
    /\ demands' = closeOrphanedDemands(closeExpiredDemands(h.at), h.at)
    /\ Done(h) /\ UNCHANGED <<place, known>>

\* A stop cancels what waits; with no placement, it releases an expired attempt.
cancelExpiredAttempt(h) ==
    LET unreleased == {i \in Expired : ~Released(demands, i)}
        i == Newest(demands, unreleased)
    IN IF unreleased = {} THEN demands
       ELSE Append([demands EXCEPT ![i].owner = "stop"], Marker(demands[i].src, h.at))
cancelComputerDemand(h) ==
    /\ Takes(h, "stop")
    /\ demands' = IF Active # {} THEN Close(CHOOSE i \in Active : TRUE, "cancelled", h.at)
                  ELSE IF place.state # "none" THEN demands
                  ELSE cancelExpiredAttempt(h)
    /\ Done(h) /\ UNCHANGED <<place, known>>

\* A Retry names one attempt: the newest, unreleased, its source unmoved.
Resettable(i) ==
    /\ ~deleted /\ i \in Expired /\ ~Released(demands, i) /\ Active = {}
    /\ i = Newest(demands, Expired) /\ Source(demands[i].src)

\* Mutant: a Retry dates its marker with the attempt's deadline.
RetryDatesBack(i, now) ==
    IF Resettable(i)
    THEN Append([demands EXCEPT ![i].owner = "retry"],
                Marker(demands[i].src, demands[i].passed))
    ELSE demands

\* Otherwise it is already_reset, superseded or not_found: nothing is written.
resetExpiredAttempt(i, now) ==
    IF Resettable(i)
    THEN Append([demands EXCEPT ![i].owner = "retry"], Marker(demands[i].src, now))
    ELSE demands
resetCapacityAttempt(h) ==
    /\ Takes(h, "retry")
    /\ demands' = resetExpiredAttempt(h.id, h.at)
    /\ Done(h) /\ UNCHANGED <<place, known>>

Next ==
    \/ \E src \in Sources : open(src)
    \/ stop \/ sweep \/ \E i \in Ids : retry(i)
    \/ DeadlinePasses \/ settleStop \/ softDelete
    \/ \E h \in begun :
          \/ beginReserve(h) \/ admitBoot(h) \/ refuse(h) \/ PoolCapacityPressure(h)
          \/ reservePoolDemand(h) \/ runPoolReplenish(h)
          \/ cancelComputerDemand(h) \/ resetCapacityAttempt(h)

Spec == Init /\ [][Next]_vars

-----------------------------------------------------------------------------
\* Polling never restarts a fixed deadline: a source is reserved for again only
\* when the owner acted on its expired attempt, in whatever order transactions
\* that began at other times got the lock.
NoSilentRestart ==
    \A i, k \in Ids :
        /\ demands[i].st = "expired" /\ i < k
        /\ ~demands[k].marker /\ demands[k].src = demands[i].src
        => demands[i].owner # "none"

\* A Retry that was answered "reset" released its attempt: the reopen begins a
\* fresh one.
RetryReleases ==
    \A i \in Ids : demands[i].owner = "retry" => Released(demands, i)

\* A stop that was answered as having cancelled released the expired attempt it
\* found: "the next open is a fresh attempt".
StopReleases ==
    \A i \in Ids : demands[i].owner = "stop" => Released(demands, i)
=============================================================================
