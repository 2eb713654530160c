------------------------ MODULE CapacityDemandProofs ------------------------
(***************************************************************************)
(* What the attempts of one computer keep in every order of transactions   *)
(* and deadlines, for every bound: a polling client restarts no deadline,  *)
(* and an answered Retry has released its attempt.                         *)
(***************************************************************************)
EXTENDS CapacityDemand, TLAPS, SequenceTheorems, WellFoundedInduction

\* A row is reserved for the source the computer then has, and only when none
\* waits: what still waits is the last row, and sources only move on.
InOrder(rows, src) ==
    /\ \A i \in DOMAIN rows :
         /\ rows[i].st = "active" => i = Len(rows)
         /\ rows[i].src <= src
         /\ rows[i].marker => rows[i].st = "cancelled"
         /\ rows[i].owner # "none" => rows[i].st = "expired"
    /\ \A j, i \in DOMAIN rows :
         j < i /\ ~rows[j].marker /\ ~rows[i].marker => rows[j].src <= rows[i].src

\* A row is closed in the past, an expired one not before its deadline, and a
\* deadline passes after all earlier rows were closed.
Dated(rows, now) ==
    /\ \A i \in DOMAIN rows :
         /\ rows[i].closed <= now /\ rows[i].passed <= now
         /\ rows[i].st = "expired" => rows[i].passed # 0 /\ rows[i].passed <= rows[i].closed
    /\ \A j, i \in DOMAIN rows :
         j < i /\ rows[i].passed # 0 => rows[j].closed < rows[i].passed

\* NoSilentRestart of any rows.
Answered(rows) ==
    \A i, k \in DOMAIN rows :
        /\ rows[i].st = "expired" /\ i < k
        /\ ~rows[k].marker /\ rows[k].src = rows[i].src
        => rows[i].owner # "none"

\* Whatever releases an expired attempt beside its owner's act leaves it of a
\* source the computer has left, or of a deleted computer.
ReleasedByOwner(rows, src, gone) ==
    \A i \in DOMAIN rows :
        rows[i].st = "expired" /\ rows[i].owner = "none" /\ Released(rows, i) =>
            gone \/ rows[i].src < src

RowsInv(rows, src, now, gone) ==
    /\ InOrder(rows, src) /\ Dated(rows, now) /\ Answered(rows)
    /\ ReleasedByOwner(rows, src, gone)
    /\ \A i \in DOMAIN rows : rows[i].owner = "retry" => Released(rows, i)

\* A Retry is of an attempt that had expired when it began.
HandlersOK ==
    /\ \A i \in known : demands[i].st = "expired"
    /\ \A h \in begun :
         /\ h.at <= clock
         /\ h.kind = "retry" =>
              h.id \in known /\ demands[h.id].closed < h.at

PlaceOK == place.state = "none" => place.epoch = 0

IInv ==
    /\ TypeOK /\ PlaceOK /\ HandlersOK
    /\ RowsInv(demands, place.epoch, clock, deleted)

\* An expired attempt stays what it is, but for its owner's act.
ExpiredStay(rows, new) ==
    \A i \in DOMAIN rows : rows[i].st = "expired" =>
        /\ i \in DOMAIN new /\ new[i].st = "expired"
        /\ new[i].closed = rows[i].closed

-----------------------------------------------------------------------------
(* The newest of some rows.                                                *)

\* A set of numbers that is not empty has a least one.
LEMMA LeastNat ==
    ASSUME NEW T \in SUBSET Nat, T # {}
    PROVE  \E x \in T : \A y \in T : x <= y
<1>1. PICK x \in T : \A y \in T : ~ (<<y, x>> \in OpToRel(<, Nat))
  BY NatLessThanWellFounded, WFMin
<1>2. ASSUME NEW y \in T PROVE x <= y
  <2>1. <<y, x>> \in Nat \X Nat
    OBVIOUS
  <2>2. ~(y < x)
    BY <1>1, <2>1 DEF OpToRel
  <2> QED BY <2>2
<1> QED BY <1>2

\* The rows of a sequence of rows, and its positions.
LEMMA RowAt ==
    ASSUME NEW rows \in Seq(Row)
    PROVE  /\ Len(rows) \in Nat /\ DOMAIN rows = 1..Len(rows)
           /\ \A i \in DOMAIN rows :
                /\ rows[i] \in Row /\ i \in Nat
                /\ rows[i].src \in Nat /\ rows[i].passed \in Nat
                /\ rows[i].closed \in 0..MaxTime /\ rows[i].closed \in Nat
<1>1. Len(rows) \in Nat /\ DOMAIN rows = 1..Len(rows)
  BY LenProperties
<1>2. ASSUME NEW i \in DOMAIN rows PROVE rows[i] \in Row /\ i \in Nat
  BY <1>1, ElementOfSeq
<1> QED BY <1>1, <1>2, BoundsAssumption DEF Row, Times, Sources

\* Newest finds a row of the set that no other row of it was closed after.
LEMMA NewestIsLast ==
    ASSUME NEW rows \in Seq(Row), NEW S, S \subseteq DOMAIN rows, S # {}
    PROVE  /\ Newest(rows, S) \in S
           /\ \A k \in S : rows[k].closed <= rows[Newest(rows, S)].closed
<1> DEFINE T == {MaxTime - rows[i].closed : i \in S}
<1>1. ASSUME NEW i \in DOMAIN rows PROVE rows[i].closed \in 0..MaxTime
  BY RowAt
<1>2. T \in SUBSET Nat /\ T # {}
  BY <1>1, BoundsAssumption
<1>3. PICK x \in T : \A y \in T : x <= y
  <2> HIDE DEF T
  <2> QED BY <1>2, LeastNat
<1>4. PICK i \in S : x = MaxTime - rows[i].closed
  BY <1>3
<1>5. ASSUME NEW k \in S PROVE rows[k].closed <= rows[i].closed
  <2>1. MaxTime - rows[i].closed <= MaxTime - rows[k].closed
    BY <1>3, <1>4
  <2> QED BY <2>1, <1>1, BoundsAssumption
<1> QED BY <1>5 DEF Newest

-----------------------------------------------------------------------------
(* What each way to write the rows keeps.                                  *)

\* Time passes, the lease moves on, the computer is deleted.
LEMMA LaterKeeps ==
    ASSUME NEW rows \in Seq(Row), NEW src \in Nat, NEW next \in Nat, src <= next,
           NEW now \in Nat, NEW then \in Nat, now <= then,
           NEW gone \in BOOLEAN, NEW goes \in BOOLEAN, gone => goes,
           RowsInv(rows, src, now, gone)
    PROVE  RowsInv(rows, next, then, goes)
<1>1. \A i \in DOMAIN rows :
          rows[i].src \in Nat /\ rows[i].passed \in Nat /\ rows[i].closed \in Nat
  BY RowAt
<1>2. InOrder(rows, next)
  BY <1>1 DEF RowsInv, InOrder
<1>3. Dated(rows, then)
  BY <1>1 DEF RowsInv, Dated
<1>4. ReleasedByOwner(rows, next, goes)
  BY <1>1 DEF RowsInv, ReleasedByOwner
<1> QED BY <1>2, <1>3, <1>4 DEF RowsInv

\* The row that waits is closed: as consumed or cancelled, or as expired once
\* its deadline has passed.
LEMMA CloseKeeps ==
    ASSUME NEW rows \in Seq(Row), NEW src \in Nat, NEW now \in Times,
           NEW gone \in BOOLEAN, RowsInv(rows, src, now, gone),
           NEW i \in DOMAIN rows, rows[i].st = "active",
           NEW st \in {"consumed", "cancelled", "expired"},
           NEW t \in Times, t <= now,
           st = "expired" => rows[i].passed # 0 /\ rows[i].passed <= t,
           NEW new, new \in [DOMAIN rows -> Row],
           \A j \in DOMAIN rows : j # i => new[j] = rows[j],
           new[i].st = st, new[i].closed = t, new[i].src = rows[i].src,
           new[i].passed = rows[i].passed, new[i].marker = rows[i].marker,
           new[i].owner = rows[i].owner
    PROVE  new \in Seq(Row) /\ RowsInv(new, src, now, gone) /\ ExpiredStay(rows, new)
<1>1. /\ rows[i] \in Row /\ i \in 1..Len(rows) /\ Len(rows) \in Nat
      /\ src \in Nat /\ t \in Nat /\ now \in Nat
      /\ \A j \in DOMAIN rows : /\ j \in Nat /\ rows[j].src \in Nat
                                /\ rows[j].passed \in Nat /\ rows[j].closed \in Nat
  BY RowAt, BoundsAssumption DEF Times
<1>2. DOMAIN rows = 1..Len(rows)
  BY RowAt
<1>3. new \in Seq(Row) /\ Len(new) = Len(rows)
  BY <1>1, <1>2
<1>4. DOMAIN new = DOMAIN rows /\ DOMAIN rows = 1..Len(rows)
  BY <1>2
<1>5. ASSUME NEW j \in DOMAIN rows
      PROVE  /\ rows[j] \in Row /\ new[j] \in Row
             /\ j # i => new[j] = rows[j]
  BY RowAt
<1>6. /\ new[i].st = st /\ new[i].closed = t /\ new[i].src = rows[i].src
      /\ new[i].passed = rows[i].passed /\ new[i].marker = rows[i].marker
      /\ new[i].owner = rows[i].owner
  OBVIOUS
<1>7. /\ i = Len(rows) /\ ~rows[i].marker /\ rows[i].owner = "none"
      /\ \A j \in DOMAIN rows : j # i => j < i
  BY <1>1, <1>4, <1>5 DEF RowsInv, InOrder, Row
<1>8. InOrder(new, src)
  BY <1>3, <1>4, <1>5, <1>6, <1>7 DEF RowsInv, InOrder
<1>9. Dated(new, now)
  BY <1>1, <1>4, <1>5, <1>6, <1>7 DEF RowsInv, Dated
<1>10. Answered(new)
  BY <1>4, <1>5, <1>6, <1>7 DEF RowsInv, Answered
<1>11. ReleasedByOwner(new, src, gone)
  <2> SUFFICES ASSUME NEW j \in DOMAIN rows, new[j].st = "expired",
                      new[j].owner = "none", NEW k \in DOMAIN rows,
                      new[k].st = "cancelled", new[k].closed >= new[j].closed
               PROVE  gone \/ new[j].src < src
    BY <1>4 DEF ReleasedByOwner, Released
  <2>1. CASE j = i
    <3>1. k < i /\ rows[k].closed < rows[i].passed
      BY <2>1, <1>5, <1>6, <1>7 DEF RowsInv, Dated
    <3>2. rows[i].passed <= t /\ rows[k].closed >= t
      BY <2>1, <3>1, <1>5, <1>6
    <3> QED BY <3>1, <3>2, <1>1
  <2>2. CASE j # i /\ k = i
    <3>1. rows[j].src # rows[i].src /\ j < i /\ ~rows[j].marker
      BY <2>2, <1>5, <1>7 DEF RowsInv, Answered, InOrder
    <3>2. rows[j].src <= rows[i].src /\ rows[i].src <= src
      BY <3>1, <1>7 DEF RowsInv, InOrder
    <3> QED BY <3>1, <3>2, <2>2, <1>5, <1>1
  <2>3. CASE j # i /\ k # i
    BY <2>3, <1>5 DEF RowsInv, ReleasedByOwner, Released
  <2> QED BY <2>1, <2>2, <2>3
<1>12. \A j \in DOMAIN new : new[j].owner = "retry" => Released(new, j)
  <2> SUFFICES ASSUME NEW j \in DOMAIN rows, new[j].owner = "retry"
               PROVE  Released(new, j)
    BY <1>4
  <2>1. j # i /\ new[j] = rows[j]
    BY <1>5, <1>6, <1>7
  <2>2. PICK k \in DOMAIN rows : rows[k].st = "cancelled" /\ rows[k].closed >= rows[j].closed
    BY <2>1 DEF RowsInv, Released
  <2>3. k # i /\ new[k] = rows[k]
    BY <2>2, <1>5
  <2> QED BY <2>1, <2>2, <2>3, <1>4 DEF Released
<1>13. ExpiredStay(rows, new)
  BY <1>4, <1>5 DEF ExpiredStay
<1> QED BY <1>3, <1>8, <1>9, <1>10, <1>11, <1>12, <1>13 DEF RowsInv

\* A deadline passes.
LEMMA PassKeeps ==
    ASSUME NEW rows \in Seq(Row), NEW src \in Nat, NEW now \in Nat,
           NEW gone \in BOOLEAN, RowsInv(rows, src, now, gone),
           NEW i \in DOMAIN rows, rows[i].st = "active",
           NEW then \in Times, now < then,
           NEW new, new \in [DOMAIN rows -> Row],
           \A j \in DOMAIN rows : j # i => new[j] = rows[j],
           new[i].passed = then,
           new[i].st = rows[i].st, new[i].closed = rows[i].closed,
           new[i].src = rows[i].src, new[i].marker = rows[i].marker,
           new[i].owner = rows[i].owner
    PROVE  new \in Seq(Row) /\ RowsInv(new, src, then, gone) /\ ExpiredStay(rows, new)
<1>1. /\ rows[i] \in Row /\ i \in 1..Len(rows) /\ Len(rows) \in Nat
      /\ then \in Nat
      /\ \A j \in DOMAIN rows : /\ j \in Nat /\ rows[j].src \in Nat
                                /\ rows[j].passed \in Nat /\ rows[j].closed \in Nat
  BY RowAt, BoundsAssumption DEF Times
<1>2. DOMAIN rows = 1..Len(rows)
  BY RowAt
<1>3. new \in Seq(Row) /\ Len(new) = Len(rows)
  BY <1>1, <1>2
<1>4. DOMAIN new = DOMAIN rows /\ DOMAIN rows = 1..Len(rows)
  BY <1>2
<1>5. \A j \in DOMAIN rows : j # i => new[j] = rows[j]
  OBVIOUS
<1>6. /\ new[i].passed = then
      /\ new[i].st = rows[i].st /\ new[i].closed = rows[i].closed
      /\ new[i].src = rows[i].src /\ new[i].marker = rows[i].marker
      /\ new[i].owner = rows[i].owner
  OBVIOUS
<1>7. i = Len(rows) /\ \A j \in DOMAIN rows : j # i => j < i
  BY <1>1, <1>4 DEF RowsInv, InOrder
<1>8. InOrder(new, src)
  BY <1>3, <1>4, <1>5, <1>6 DEF RowsInv, InOrder
<1>9. Dated(new, then)
  BY <1>1, <1>4, <1>5, <1>6, <1>7 DEF RowsInv, Dated
<1>10. Answered(new)
  BY <1>4, <1>5, <1>6 DEF RowsInv, Answered
<1>11. \A j \in DOMAIN rows : Released(new, j) <=> Released(rows, j)
  BY <1>4, <1>5, <1>6 DEF Released
<1>12. ReleasedByOwner(new, src, gone)
  BY <1>4, <1>5, <1>6, <1>11 DEF RowsInv, ReleasedByOwner
<1>13. \A j \in DOMAIN new : new[j].owner = "retry" => Released(new, j)
  BY <1>4, <1>5, <1>6, <1>11 DEF RowsInv
<1>14. ExpiredStay(rows, new)
  BY <1>4, <1>5, <1>6 DEF ExpiredStay
<1> QED BY <1>3, <1>8, <1>9, <1>10, <1>12, <1>13, <1>14 DEF RowsInv

\* A demand is reserved for the source the computer is at, when none waits and
\* every expired attempt of that source is released.
LEMMA InsertKeeps ==
    ASSUME NEW rows \in Seq(Row), NEW src \in Sources, NEW now \in Times,
           RowsInv(rows, src, now, FALSE),
           NEW t \in Times, t <= now,
           \A i \in DOMAIN rows : rows[i].st # "active",
           terminalExpiredAttempt(rows, src) = {}
    PROVE  /\ insertDemand(rows, src, t) \in Seq(Row)
           /\ RowsInv(insertDemand(rows, src, t), src, now, FALSE)
           /\ ExpiredStay(rows, insertDemand(rows, src, t))
<1> DEFINE d == [st |-> "active", src |-> src, created |-> t, passed |-> 0,
                 closed |-> 0, marker |-> FALSE, owner |-> "none"]
           new == insertDemand(rows, src, t)
           n == Len(rows)
<1>1. /\ n \in Nat /\ src \in Nat /\ t \in Nat /\ now \in Nat
      /\ DOMAIN rows = 1..n
      /\ \A j \in DOMAIN rows : /\ j \in Nat /\ rows[j].src \in Nat
                                /\ rows[j].passed \in Nat /\ rows[j].closed \in Nat
  BY RowAt, BoundsAssumption DEF Times, Sources
<1>2. d \in Row
  BY BoundsAssumption DEF Row, Times
<1>3. /\ new \in Seq(Row) /\ Len(new) = n + 1 /\ DOMAIN new = 1..(n + 1)
      /\ new[n + 1] = d /\ \A j \in DOMAIN rows : new[j] = rows[j]
  BY <1>1, <1>2, AppendProperties, LenProperties DEF insertDemand
<1>4. \A j \in DOMAIN new : j # n + 1 => j \in DOMAIN rows /\ j < n + 1
  BY <1>1, <1>3
<1> HIDE DEF new, n
<1>5. InOrder(new, src)
  BY <1>1, <1>3, <1>4 DEF RowsInv, InOrder
<1>6. Dated(new, now)
  BY <1>1, <1>3, <1>4 DEF RowsInv, Dated
<1>7. \A j \in DOMAIN rows : Released(new, j) <=> Released(rows, j)
  BY <1>1, <1>3, <1>4 DEF Released
<1>8. Answered(new)
  <2> SUFFICES ASSUME NEW j \in DOMAIN new, NEW k \in DOMAIN new,
                      new[j].st = "expired", j < k, ~new[k].marker,
                      new[k].src = new[j].src
               PROVE  new[j].owner # "none"
    BY DEF Answered
  <2>1. j \in DOMAIN rows /\ new[j] = rows[j]
    BY <1>3, <1>4
  <2>2. CASE k = n + 1
    <3>1. Released(rows, j)
      BY <2>1, <2>2, <1>3 DEF terminalExpiredAttempt
    <3> QED BY <2>1, <2>2, <3>1, <1>1, <1>3 DEF RowsInv, ReleasedByOwner
  <2>3. CASE k # n + 1
    BY <2>1, <2>3, <1>3, <1>4 DEF RowsInv, Answered
  <2> QED BY <2>2, <2>3
<1>9. ReleasedByOwner(new, src, FALSE)
  BY <1>3, <1>4, <1>7 DEF RowsInv, ReleasedByOwner
<1>10. \A j \in DOMAIN new : new[j].owner = "retry" => Released(new, j)
  BY <1>3, <1>4, <1>7 DEF RowsInv
<1>11. ExpiredStay(rows, new)
  BY <1>1, <1>3 DEF ExpiredStay
<1> QED BY <1>3, <1>5, <1>6, <1>8, <1>9, <1>10, <1>11 DEF RowsInv, new

\* New rows: the owner is told of attempt i, and a marker of its source follows.
Marked(rows, new, i, act, t) ==
    /\ Len(new) = Len(rows) + 1 /\ DOMAIN new = 1..(Len(rows) + 1)
    /\ \A j \in DOMAIN rows :
         /\ new[j].st = rows[j].st /\ new[j].src = rows[j].src
         /\ new[j].passed = rows[j].passed /\ new[j].closed = rows[j].closed
         /\ new[j].marker = rows[j].marker
         /\ j # i => new[j].owner = rows[j].owner
    /\ new[i].owner = act
    /\ new[Len(rows) + 1] = Marker(rows[i].src, t)

\* No expired attempt that is not released was closed after attempt i.
IsNewest(rows, i) ==
    \A k \in DOMAIN rows : rows[k].st = "expired" /\ ~Released(rows, k) =>
                               rows[k].closed <= rows[i].closed

\* The owner releases an expired attempt that no other was closed after, when
\* none waits; the marker of a Retry is dated after the attempt.
LEMMA MarkKeeps ==
    ASSUME NEW rows \in Seq(Row), NEW src \in Sources, NEW now \in Times,
           NEW gone \in BOOLEAN, RowsInv(rows, src, now, gone),
           NEW t \in Times, t <= now,
           ~\E k \in DOMAIN rows : rows[k].st = "active",
           NEW i \in DOMAIN rows, rows[i].st = "expired", IsNewest(rows, i),
           NEW act \in {"stop", "retry"}, act = "retry" => rows[i].closed <= t,
           NEW new, Marked(rows, new, i, act, t)
    PROVE  RowsInv(new, src, now, gone) /\ ExpiredStay(rows, new)
<1> DEFINE n == Len(rows)
<1>1. /\ n \in Nat /\ src \in Nat /\ t \in Nat /\ now \in Nat
      /\ DOMAIN rows = 1..n
      /\ \A j \in DOMAIN rows : /\ j \in Nat /\ rows[j].src \in Nat
                                /\ rows[j].passed \in Nat /\ rows[j].closed \in Nat
  BY RowAt, BoundsAssumption DEF Times, Sources
<1>4. Len(new) = n + 1 /\ DOMAIN new = 1..(n + 1)
  BY DEF Marked
<1>5. \A j \in DOMAIN new : j # n + 1 => j \in DOMAIN rows /\ j < n + 1
  BY <1>1, <1>4
<1>6. /\ \A j \in DOMAIN rows :
           /\ new[j].st = rows[j].st /\ new[j].src = rows[j].src
           /\ new[j].passed = rows[j].passed /\ new[j].closed = rows[j].closed
           /\ new[j].marker = rows[j].marker
           /\ j # i => new[j].owner = rows[j].owner
      /\ new[i].owner = act
      /\ new[n + 1].st = "cancelled" /\ new[n + 1].src = rows[i].src
      /\ new[n + 1].passed = 0 /\ new[n + 1].closed = t
      /\ new[n + 1].marker = TRUE /\ new[n + 1].owner = "none"
      /\ rows[i].marker = FALSE
  BY DEF Marked, Marker, RowsInv, InOrder
<1> HIDE DEF n
<1>7. InOrder(new, src)
  <2>1. ASSUME NEW j \in DOMAIN new
        PROVE  /\ new[j].st = "active" => j = Len(new)
               /\ new[j].src <= src
               /\ new[j].marker => new[j].st = "cancelled"
               /\ new[j].owner # "none" => new[j].st = "expired"
    <3>1. CASE j = n + 1
      BY <3>1, <1>6 DEF RowsInv, InOrder
    <3>2. CASE j \in DOMAIN rows
      BY <3>2, <1>6 DEF RowsInv, InOrder
    <3> QED BY <3>1, <3>2, <1>5
  <2>2. ASSUME NEW j \in DOMAIN new, NEW k \in DOMAIN new,
               j < k, ~new[j].marker, ~new[k].marker
        PROVE  new[j].src <= new[k].src
    <3>1. j \in DOMAIN rows /\ k \in DOMAIN rows
      BY <2>2, <1>5, <1>6
    <3> QED BY <2>2, <3>1, <1>6 DEF RowsInv, InOrder
  <2> QED BY <2>1, <2>2 DEF InOrder
<1>8. Dated(new, now)
  <2>1. ASSUME NEW j \in DOMAIN new
        PROVE  /\ new[j].closed <= now /\ new[j].passed <= now
               /\ new[j].st = "expired" =>
                    new[j].passed # 0 /\ new[j].passed <= new[j].closed
    <3>1. CASE j = n + 1
      BY <3>1, <1>1, <1>6
    <3>2. CASE j \in DOMAIN rows
      BY <3>2, <1>6 DEF RowsInv, Dated
    <3> QED BY <3>1, <3>2, <1>5
  <2>2. ASSUME NEW j \in DOMAIN new, NEW k \in DOMAIN new,
               j < k, new[k].passed # 0
        PROVE  new[j].closed < new[k].passed
    <3>1. k \in DOMAIN rows /\ j \in DOMAIN rows
      BY <2>2, <1>1, <1>4, <1>5, <1>6
    <3> QED BY <2>2, <3>1, <1>6 DEF RowsInv, Dated
  <2> QED BY <2>1, <2>2 DEF Dated
<1>9. Answered(new)
  BY <1>1, <1>4, <1>5, <1>6 DEF RowsInv, Answered
<1>10. \A j \in DOMAIN rows : Released(rows, j) => Released(new, j)
  BY <1>1, <1>4, <1>6 DEF Released
<1>11. ReleasedByOwner(new, src, gone)
  <2> SUFFICES ASSUME NEW j \in DOMAIN new, new[j].st = "expired",
                      new[j].owner = "none", Released(new, j)
               PROVE  gone \/ new[j].src < src
    BY DEF ReleasedByOwner
  <2>1. j \in DOMAIN rows /\ j # i
    BY <1>5, <1>6
  <2>2. CASE Released(rows, j)
    BY <2>1, <2>2, <1>6 DEF RowsInv, ReleasedByOwner
  <2>3. CASE ~Released(rows, j)
    <3>1. rows[j].closed <= rows[i].closed
      BY <2>1, <2>3, <1>6 DEF IsNewest
    <3>2. j < i
      <4> SUFFICES ASSUME i < j PROVE FALSE
        BY <2>1, <1>1
      <4>1. rows[j].passed # 0 /\ rows[j].passed <= rows[j].closed
        BY <2>1, <1>6 DEF RowsInv, Dated
      <4>2. rows[i].closed < rows[j].passed
        BY <2>1, <4>1 DEF RowsInv, Dated
      <4> QED BY <2>1, <3>1, <4>1, <4>2, <1>1
    <3>3. rows[j].src # rows[i].src
      BY <3>2, <2>1, <1>6 DEF RowsInv, Answered, InOrder
    <3>4. rows[j].src <= rows[i].src /\ rows[i].src <= src
      BY <3>2, <2>1, <1>6 DEF RowsInv, InOrder
    <3> QED BY <3>3, <3>4, <2>1, <1>1, <1>6
  <2> QED BY <2>2, <2>3
<1>12. \A j \in DOMAIN new : new[j].owner = "retry" => Released(new, j)
  <2>1. ASSUME act = "retry" PROVE Released(new, i)
    <3>1. n + 1 \in DOMAIN new /\ new[n + 1].closed >= new[i].closed
      BY <2>1, <1>1, <1>4, <1>6
    <3> QED BY <3>1, <1>6 DEF Released
  <2>2. ASSUME NEW j \in DOMAIN rows, j # i, new[j].owner = "retry"
        PROVE  Released(new, j)
    BY <2>2, <1>6, <1>10 DEF RowsInv
  <2> QED BY <2>1, <2>2, <1>5, <1>6
<1>13. ExpiredStay(rows, new)
  BY <1>1, <1>4, <1>6 DEF ExpiredStay
<1> QED BY <1>4, <1>7, <1>8, <1>9, <1>11, <1>12, <1>13 DEF RowsInv

\* Expiring what is past its deadline closes the row that waits, or nothing.
LEMMA ExpireKeeps ==
    ASSUME IInv, NEW t \in Times, t <= clock
    PROVE  /\ closeExpiredDemands(t) \in Seq(Row)
           /\ RowsInv(closeExpiredDemands(t), place.epoch, clock, deleted)
           /\ ExpiredStay(demands, closeExpiredDemands(t))
<1>1. /\ demands \in Seq(Row) /\ place.epoch \in Nat /\ clock \in Times
      /\ deleted \in BOOLEAN
      /\ RowsInv(demands, place.epoch, clock, deleted)
  BY BoundsAssumption DEF IInv, TypeOK, Place, Sources
<1>2. /\ Len(demands) \in Nat /\ DOMAIN demands = 1..Len(demands)
      /\ demands \in [DOMAIN demands -> Row] /\ 0 \in Nat /\ t \in Nat
  BY <1>1, LenProperties, BoundsAssumption DEF Times
<1>3. CASE \E i \in Active : Past(i, t)
  <2>1. PICK i \in DOMAIN demands : i \in Active /\ Past(i, t)
    BY <1>3 DEF Active, Ids
  <2>2. demands[i].st = "active"
    BY <2>1 DEF Active
  <2>3. \A j \in Active : j = i
    BY <1>1, <2>2 DEF RowsInv, InOrder, Active, Ids
  <2> DEFINE new == closeExpiredDemands(t)
  <2>4. /\ new = [j \in DOMAIN demands |->
                    IF j = i THEN [demands[i] EXCEPT !.st = "expired", !.closed = t]
                    ELSE demands[j]]
        /\ demands[i] \in Row
    BY <1>2, <2>1, <2>2, <2>3 DEF closeExpiredDemands, Ids
  <2>5. demands[i].passed # 0 /\ demands[i].passed <= t
    BY <2>1 DEF Past
  <2> HIDE DEF new
  <2>6. /\ new \in [DOMAIN demands -> Row]
        /\ \A j \in DOMAIN demands : j # i => new[j] = demands[j]
        /\ new[i].st = "expired" /\ new[i].closed = t
        /\ new[i].src = demands[i].src /\ new[i].passed = demands[i].passed
        /\ new[i].marker = demands[i].marker /\ new[i].owner = demands[i].owner
    BY <1>2, <2>2, <2>4 DEF Row
  <2>7. /\ new \in Seq(Row) /\ RowsInv(new, place.epoch, clock, deleted)
        /\ ExpiredStay(demands, new)
    <3>1. "expired" \in {"consumed", "cancelled", "expired"}
      OBVIOUS
    <3> QED BY <1>1, <2>2, <2>5, <2>6, <3>1, CloseKeeps
  <2> QED BY <2>7 DEF new
<1>4. CASE ~\E i \in Active : Past(i, t)
  <2>1. closeExpiredDemands(t) = demands
    BY <1>2, <1>4 DEF closeExpiredDemands, Ids
  <2> QED BY <1>1, <2>1 DEF ExpiredStay
<1> QED BY <1>3, <1>4

\* Cancelling what is left of a deleted computer closes that row, or nothing.
LEMMA OrphansKeep ==
    ASSUME IInv, NEW t \in Times, t <= clock, NEW rows \in Seq(Row),
           RowsInv(rows, place.epoch, clock, deleted)
    PROVE  /\ closeOrphanedDemands(rows, t) \in Seq(Row)
           /\ RowsInv(closeOrphanedDemands(rows, t), place.epoch, clock, deleted)
           /\ ExpiredStay(rows, closeOrphanedDemands(rows, t))
<1>1. place.epoch \in Nat /\ clock \in Times /\ deleted \in BOOLEAN
  BY BoundsAssumption DEF IInv, TypeOK, Place, Sources
<1>2. rows \in [DOMAIN rows -> Row]
  BY LenProperties
<1>3. CASE deleted /\ \E i \in DOMAIN rows : rows[i].st = "active"
  <2>1. PICK i \in DOMAIN rows : rows[i].st = "active"
    BY <1>3
  <2>2. \A j \in DOMAIN rows : rows[j].st = "active" => j = i
    BY <2>1 DEF RowsInv, InOrder
  <2> DEFINE new == closeOrphanedDemands(rows, t)
  <2>3. /\ new = [j \in DOMAIN rows |->
                    IF j = i THEN [rows[i] EXCEPT !.st = "cancelled", !.closed = t]
                    ELSE rows[j]]
        /\ rows[i] \in Row
    BY <1>2, <1>3, <2>1, <2>2 DEF closeOrphanedDemands
  <2> HIDE DEF new
  <2>4. /\ new \in [DOMAIN rows -> Row]
        /\ \A j \in DOMAIN rows : j # i => new[j] = rows[j]
        /\ new[i].st = "cancelled" /\ new[i].closed = t
        /\ new[i].src = rows[i].src /\ new[i].passed = rows[i].passed
        /\ new[i].marker = rows[i].marker /\ new[i].owner = rows[i].owner
    BY <1>2, <2>1, <2>3 DEF Row
  <2>5. /\ new \in Seq(Row) /\ RowsInv(new, place.epoch, clock, deleted)
        /\ ExpiredStay(rows, new)
    BY <1>1, <2>1, <2>4, CloseKeeps
  <2> QED BY <2>5 DEF new
<1>4. CASE ~(deleted /\ \E i \in DOMAIN rows : rows[i].st = "active")
  <2>1. closeOrphanedDemands(rows, t) = rows
    BY <1>2, <1>4 DEF closeOrphanedDemands
  <2> QED BY <2>1 DEF ExpiredStay
<1> QED BY <1>3, <1>4

-----------------------------------------------------------------------------
(* Each step keeps the invariant.                                          *)

\* What a step of the invariant rests on.
LEMMA Facts ==
    ASSUME IInv
    PROVE  /\ demands \in Seq(Row) /\ place \in Place
           /\ place.epoch \in Nat /\ place.epoch \in Sources
           /\ clock \in Times /\ clock \in Nat /\ deleted \in BOOLEAN
           /\ RowsInv(demands, place.epoch, clock, deleted)
           /\ \A h \in begun : h \in Handler /\ h.at \in Times /\ h.at \in Nat
                               /\ h.at <= clock /\ h.src \in Sources /\ h.src \in Nat
BY BoundsAssumption DEF IInv, TypeOK, HandlersOK, Place, Handler, Times, Sources

\* A source a handler finds is the computer's epoch.
LEMMA SourceIsEpoch ==
    ASSUME IInv, NEW src, Source(src)
    PROVE  src = place.epoch
BY DEF Source, IInv, PlaceOK

\* A transaction that writes new rows, which keep what was expired, and that
\* ends its handler.
LEMMA TransactionKeeps ==
    ASSUME IInv, NEW h \in begun, UNCHANGED <<clock, deleted, place>>, Done(h),
           demands' \in Seq(Row),
           RowsInv(demands', place.epoch, clock, deleted),
           ExpiredStay(demands, demands'),
           \A i \in known' \ known :
               i \in DOMAIN demands' /\ demands'[i].st = "expired",
           known \subseteq known'
    PROVE  IInv'
<1>1. \A i \in known : i \in DOMAIN demands /\ demands[i].st = "expired"
  BY DEF IInv, TypeOK, HandlersOK
<1>2. \A i \in known : /\ i \in DOMAIN demands' /\ demands'[i].st = "expired"
                       /\ demands'[i].closed = demands[i].closed
  BY <1>1 DEF ExpiredStay
<1>3. TypeOK'
  BY <1>2 DEF IInv, TypeOK, Done
<1>4. HandlersOK'
  BY <1>2 DEF IInv, HandlersOK, Done
<1>5. PlaceOK' /\ RowsInv(demands, place.epoch, clock, deleted)'
  BY DEF IInv, PlaceOK
<1> QED BY <1>3, <1>4, <1>5 DEF IInv

\* A handler begins: the clock moves, a Retry is dated after its attempt.
LEMMA BeginKeeps ==
    ASSUME IInv, NEW h \in Handler, Begin(h), h.kind = "retry" => h.id \in known
    PROVE  IInv'
<1> USE Facts
<1>1. clock' \in Times /\ clock < clock' /\ clock' \in Nat
  BY BoundsAssumption DEF Begin, Tick, Times
<1>2. RowsInv(demands, place.epoch, clock', deleted)
  <2>1. clock <= clock'
    BY <1>1
  <2> QED BY <1>1, <2>1, LaterKeeps
<1>3. RowsInv(demands, place.epoch, clock, deleted)'
  BY <1>2 DEF Begin
<1> DEFINE g == [h EXCEPT !.at = clock']
<1>4. g \in Handler /\ g.at = clock' /\ g.kind = h.kind /\ g.id = h.id
  BY <1>1 DEF Handler
<1>5. TypeOK'
  BY <1>1, <1>4 DEF IInv, TypeOK, Begin
<1>6. ASSUME NEW i \in known PROVE demands[i].closed < clock'
  <2>1. i \in DOMAIN demands /\ demands[i].closed \in Nat
    BY RowAt DEF IInv, TypeOK
  <2>2. demands[i].closed <= clock
    BY <2>1 DEF RowsInv, Dated
  <2> QED BY <2>1, <2>2, <1>1
<1>7. HandlersOK'
  <2>1. \A i \in known' : demands'[i].st = "expired"
    BY DEF IInv, HandlersOK, Begin
  <2>2. ASSUME NEW f \in begun'
        PROVE  /\ f.at <= clock'
               /\ f.kind = "retry" => f.id \in known' /\ demands'[f.id].closed < f.at
    <3>1. CASE f = g
      BY <3>1, <1>1, <1>4, <1>6 DEF Begin
    <3>2. CASE f \in begun
      BY <3>2, <1>1 DEF IInv, HandlersOK, Begin
    <3> QED BY <3>1, <3>2 DEF Begin
  <2> QED BY <2>1, <2>2 DEF HandlersOK
<1>8. PlaceOK'
  BY DEF IInv, PlaceOK, Begin
<1> QED BY <1>3, <1>5, <1>7, <1>8 DEF IInv

\* The second transaction of an open begins.
LEMMA BeginReserveKeeps ==
    ASSUME IInv, NEW h \in begun, beginReserve(h)
    PROVE  IInv'
<1> USE Facts
<1>1. clock' \in Times /\ clock < clock' /\ clock' \in Nat
  BY BoundsAssumption DEF beginReserve, Tick, Times
<1>2. RowsInv(demands, place.epoch, clock, deleted)'
  <2>1. RowsInv(demands, place.epoch, clock', deleted)
    <3>1. clock <= clock'
      BY <1>1
    <3> QED BY <1>1, <3>1, LaterKeeps
  <2> QED BY <2>1 DEF beginReserve
<1> DEFINE g == [h EXCEPT !.at = clock']
<1>3. g \in Handler /\ g.at = clock' /\ g.kind = h.kind /\ g.id = h.id
  BY <1>1 DEF Handler
<1>4. TypeOK'
  BY <1>1, <1>3 DEF IInv, TypeOK, beginReserve
<1>5. HandlersOK'
  <2>1. \A i \in known' : demands'[i].st = "expired"
    BY DEF IInv, HandlersOK, beginReserve
  <2>2. ASSUME NEW f \in begun'
        PROVE  /\ f.at <= clock'
               /\ f.kind = "retry" => f.id \in known' /\ demands'[f.id].closed < f.at
    <3>1. CASE f = g
      <4>1. ASSUME h.kind = "retry" PROVE FALSE
        <5>1. h.id \in known /\ demands[h.id].closed < h.at /\ h.at = 0
          BY <4>1 DEF IInv, HandlersOK, beginReserve
        <5>2. demands[h.id].closed \in Nat
          BY <5>1, RowAt DEF IInv, TypeOK
        <5> QED BY <5>1, <5>2
      <4> QED BY <3>1, <4>1, <1>1, <1>3
    <3>2. CASE f \in begun
      BY <3>2, <1>1 DEF IInv, HandlersOK, beginReserve
    <3> QED BY <3>1, <3>2 DEF beginReserve
  <2> QED BY <2>1, <2>2 DEF HandlersOK
<1>6. PlaceOK'
  BY DEF IInv, PlaceOK, beginReserve
<1> QED BY <1>2, <1>4, <1>5, <1>6 DEF IInv

\* The deadline of the row that waits passes.
LEMMA DeadlineKeeps ==
    ASSUME IInv, DeadlinePasses
    PROVE  IInv'
<1> USE Facts
<1>1. clock' \in Times /\ clock < clock' /\ clock' \in Nat
  BY BoundsAssumption DEF DeadlinePasses, Tick, Times
<1>2. PICK i \in DOMAIN demands :
        /\ demands[i].st = "active"
        /\ demands' = [demands EXCEPT ![i] = [@ EXCEPT !.passed = clock']]
  BY DEF DeadlinePasses, Active, Ids
<1>3. /\ demands' \in Seq(Row) /\ RowsInv(demands', place.epoch, clock', deleted)
      /\ ExpiredStay(demands, demands')
  <2>1. demands \in [DOMAIN demands -> Row]
    BY LenProperties
  <2>2. /\ demands' \in [DOMAIN demands -> Row]
        /\ \A j \in DOMAIN demands : j # i => demands'[j] = demands[j]
        /\ demands'[i].passed = clock'
        /\ demands'[i].st = demands[i].st /\ demands'[i].closed = demands[i].closed
        /\ demands'[i].src = demands[i].src /\ demands'[i].marker = demands[i].marker
        /\ demands'[i].owner = demands[i].owner
    BY <1>1, <1>2, <2>1 DEF Row
  <2>3. /\ place.epoch \in Nat /\ clock \in Nat /\ deleted \in BOOLEAN
        /\ demands \in Seq(Row) /\ RowsInv(demands, place.epoch, clock, deleted)
    OBVIOUS
  <2>4. demands[i].st = "active"
    BY <1>2
  <2> HIDE Facts
  <2> QED BY <1>1, <2>2, <2>3, <2>4, PassKeeps
<1>4. /\ known' = known /\ begun' = begun /\ place' = place /\ deleted' = deleted
  BY DEF DeadlinePasses
<1>5. \A j \in known : /\ j \in DOMAIN demands' /\ demands'[j].st = "expired"
                       /\ demands'[j].closed = demands[j].closed
  BY <1>3 DEF IInv, TypeOK, HandlersOK, ExpiredStay
<1>6. TypeOK'
  BY <1>1, <1>3, <1>4, <1>5 DEF IInv, TypeOK
<1>7. HandlersOK'
  BY <1>1, <1>4, <1>5 DEF IInv, HandlersOK
<1>8. PlaceOK' /\ RowsInv(demands, place.epoch, clock, deleted)'
  BY <1>3, <1>4 DEF IInv, PlaceOK
<1> QED BY <1>6, <1>7, <1>8 DEF IInv

\* The admission lets an open boot and consumes its demand.
LEMMA AdmitKeeps ==
    ASSUME IInv, NEW h \in begun, admitBoot(h)
    PROVE  IInv'
<1> USE Facts
<1> DEFINE own == {i \in Active : ~Past(i, h.at) /\ demands[i].src = h.src}
           e == h.src + 1
<1>1. /\ e \in Sources /\ e \in Nat /\ h.src = place.epoch /\ place.epoch <= e
      /\ place' = [state |-> "BUSY", epoch |-> e] /\ h.src < MaxEpoch
      /\ UNCHANGED <<clock, deleted, known>> /\ begun' = begun \ {h}
  BY SourceIsEpoch, BoundsAssumption DEF admitBoot, Takes, Done, Sources
<1>2. /\ demands' \in Seq(Row) /\ RowsInv(demands', place.epoch, clock, deleted)
      /\ ExpiredStay(demands, demands')
  <2>1. CASE own = {}
    BY <2>1 DEF admitBoot, claimDemand, ExpiredStay
  <2>2. CASE own # {}
    <3>1. PICK i \in DOMAIN demands :
            /\ demands[i].st = "active" /\ demands' = Close(i, "consumed", h.at)
      BY <2>2 DEF admitBoot, claimDemand, Active, Ids
    <3>2. demands \in [DOMAIN demands -> Row]
      BY LenProperties
    <3>3. /\ demands' \in [DOMAIN demands -> Row]
          /\ \A j \in DOMAIN demands : j # i => demands'[j] = demands[j]
          /\ demands'[i].st = "consumed" /\ demands'[i].closed = h.at
          /\ demands'[i].src = demands[i].src /\ demands'[i].passed = demands[i].passed
          /\ demands'[i].marker = demands[i].marker
          /\ demands'[i].owner = demands[i].owner
      BY <3>1, <3>2 DEF Close, Row
    <3>4. "consumed" \in {"consumed", "cancelled", "expired"} /\ h.at <= clock
      OBVIOUS
    <3> QED BY <3>1, <3>3, <3>4, CloseKeeps
  <2> QED BY <2>1, <2>2
<1>3. RowsInv(demands', place'.epoch, clock', deleted')
  <2>1. RowsInv(demands', e, clock, deleted)
    <3> HIDE DEF e
    <3>1. clock <= clock
      OBVIOUS
    <3> QED BY <1>1, <1>2, <3>1, LaterKeeps
  <2> QED BY <2>1, <1>1
<1>4. \A j \in known : /\ j \in DOMAIN demands' /\ demands'[j].st = "expired"
                       /\ demands'[j].closed = demands[j].closed
  BY <1>2 DEF IInv, TypeOK, HandlersOK, ExpiredStay
<1>5. TypeOK'
  BY <1>1, <1>2, <1>4 DEF IInv, TypeOK, Place
<1>6. HandlersOK'
  BY <1>1, <1>4 DEF IInv, HandlersOK
<1>7. PlaceOK'
  BY <1>1 DEF PlaceOK
<1> QED BY <1>3, <1>5, <1>6, <1>7 DEF IInv

\* An open that only idle spares keep out waits, is told of its expired attempt,
\* or reserves.
LEMMA ReserveKeeps ==
    ASSUME IInv, NEW h \in begun, reservePoolDemand(h)
    PROVE  IInv'
<1> USE Facts
<1> DEFINE rows == closeExpiredDemands(h.at)
           waiting == {i \in Ids : rows[i].st = "active"}
           terminal == terminalExpiredAttempt(rows, h.src)
<1>1. /\ UNCHANGED <<clock, deleted, place>> /\ Done(h)
      /\ ~deleted /\ h.src = place.epoch /\ h.at <= clock
  BY SourceIsEpoch DEF reservePoolDemand, Takes
<1>2. /\ rows \in Seq(Row) /\ RowsInv(rows, place.epoch, clock, deleted)
      /\ ExpiredStay(demands, rows) /\ DOMAIN rows = Ids
  BY <1>1, ExpireKeeps DEF closeExpiredDemands
<1>3. CASE demands' = rows /\ known' = known
  BY <1>1, <1>2, <1>3, TransactionKeeps
<1>4. CASE /\ waiting = {} /\ terminal # {}
           /\ demands' = rows /\ known' = known \cup {Newest(rows, terminal)}
  <2>1. terminal \subseteq DOMAIN rows /\ \A i \in terminal : rows[i].st = "expired"
    BY DEF terminalExpiredAttempt
  <2>2. Newest(rows, terminal) \in terminal
    <3> HIDE DEF terminal, rows
    <3> QED BY <2>1, <1>2, <1>4, NewestIsLast
  <2>3. \A i \in known' \ known : i \in DOMAIN demands' /\ demands'[i].st = "expired"
    BY <2>1, <2>2, <1>4
  <2> QED BY <2>3, <1>1, <1>2, <1>4, TransactionKeeps
<1>5. CASE /\ waiting = {} /\ terminal = {}
           /\ demands' = insertDemand(rows, h.src, h.at) /\ known' = known
  <2>1. \A i \in DOMAIN rows : rows[i].st # "active"
    BY <1>2, <1>5
  <2>2. /\ demands' \in Seq(Row) /\ RowsInv(demands', h.src, clock, FALSE)
        /\ ExpiredStay(rows, demands')
    <3> HIDE DEF rows
    <3>1. RowsInv(rows, h.src, clock, FALSE)
      BY <1>1, <1>2
    <3> QED BY <3>1, <2>1, <1>1, <1>2, <1>5, InsertKeeps
  <2>3. ExpiredStay(demands, demands')
    BY <2>2, <1>2 DEF ExpiredStay
  <2> QED BY <2>2, <2>3, <1>1, <1>5, TransactionKeeps
<1> QED BY <1>3, <1>4, <1>5 DEF reservePoolDemand

\* The replenish pass expires, then cancels what is left of a deleted computer.
LEMMA ReplenishKeeps ==
    ASSUME IInv, NEW h \in begun, runPoolReplenish(h)
    PROVE  IInv'
<1> USE Facts
<1> DEFINE rows == closeExpiredDemands(h.at)
<1>1. UNCHANGED <<clock, deleted, place, known>> /\ Done(h) /\ h.at <= clock
  BY DEF runPoolReplenish, Takes
<1>2. /\ rows \in Seq(Row) /\ RowsInv(rows, place.epoch, clock, deleted)
      /\ ExpiredStay(demands, rows)
  BY <1>1, ExpireKeeps
<1>3. /\ demands' \in Seq(Row) /\ RowsInv(demands', place.epoch, clock, deleted)
      /\ ExpiredStay(rows, demands')
  <2> HIDE DEF rows
  <2>1. demands' = closeOrphanedDemands(rows, h.at)
    BY DEF runPoolReplenish, rows
  <2> QED BY <2>1, <1>1, <1>2, OrphansKeep
<1>4. ExpiredStay(demands, demands')
  BY <1>2, <1>3 DEF ExpiredStay
<1> QED BY <1>1, <1>3, <1>4, TransactionKeeps

\* The rows once the owner is told of attempt i and the marker is appended.
Told(i, act, t) ==
    Append([demands EXCEPT ![i].owner = act], Marker(demands[i].src, t))

\* Telling the owner of the newest expired attempt keeps the rows in order.
LEMMA MarkedRows ==
    ASSUME IInv, NEW h \in begun,
           ~\E i \in DOMAIN demands : demands[i].st = "active",
           NEW i \in DOMAIN demands, demands[i].st = "expired", IsNewest(demands, i),
           NEW act \in {"stop", "retry"}, act = "retry" => demands[i].closed <= h.at,
           demands' = Told(i, act, h.at)
    PROVE  /\ demands' \in Seq(Row) /\ RowsInv(demands', place.epoch, clock, deleted)
           /\ ExpiredStay(demands, demands')
<1> USE Facts
<1> DEFINE n == Len(demands)
           told == [demands EXCEPT ![i].owner = act]
           m == Marker(demands[i].src, h.at)
<1>1. /\ n \in Nat /\ DOMAIN demands = 1..n
      /\ demands \in [DOMAIN demands -> Row] /\ demands[i] \in Row
  BY RowAt, LenProperties
<1>2. m \in Row
  <2>1. demands[i].src \in Sources /\ 0 \in Times
    BY <1>1, BoundsAssumption DEF Row, Times
  <2> QED BY <2>1 DEF Marker, Row
<1>3. told \in Seq(Row) /\ Len(told) = n
  <2>1. [demands[i] EXCEPT !.owner = act] \in Row
    BY <1>1 DEF Row
  <2>2. told \in [1..n -> Row]
    BY <1>1, <2>1
  <2> QED BY <1>1, <2>2
<1>4. /\ \A j \in DOMAIN demands :
            /\ told[j].st = demands[j].st /\ told[j].src = demands[j].src
            /\ told[j].passed = demands[j].passed /\ told[j].closed = demands[j].closed
            /\ told[j].marker = demands[j].marker
            /\ j # i => told[j].owner = demands[j].owner
      /\ told[i].owner = act
  BY <1>1 DEF Row
<1>5. demands' = Append(told, m)
  BY DEF Told
<1> HIDE DEF told, m, n
<1>6. /\ demands' \in Seq(Row) /\ Len(demands') = n + 1
      /\ demands'[n + 1] = m
      /\ \A j \in 1..n : demands'[j] = told[j]
  <2> HIDE Facts
  <2> QED BY <1>2, <1>3, <1>5, AppendProperties
<1>7. DOMAIN demands' = 1..(n + 1)
  BY <1>1, <1>6, LenProperties
<1>8. /\ \A j \in DOMAIN demands :
            /\ demands'[j].st = demands[j].st /\ demands'[j].src = demands[j].src
            /\ demands'[j].passed = demands[j].passed
            /\ demands'[j].closed = demands[j].closed
            /\ demands'[j].marker = demands[j].marker
            /\ j # i => demands'[j].owner = demands[j].owner
      /\ demands'[i].owner = act
      /\ demands'[n + 1] = Marker(demands[i].src, h.at)
  BY <1>1, <1>4, <1>6 DEF m
<1>9. /\ demands \in Seq(Row) /\ place.epoch \in Sources /\ clock \in Times
      /\ deleted \in BOOLEAN /\ RowsInv(demands, place.epoch, clock, deleted)
      /\ h.at \in Times /\ h.at <= clock /\ n = Len(demands)
  BY DEF n
<1>10. RowsInv(demands', place.epoch, clock, deleted) /\ ExpiredStay(demands, demands')
  <2> HIDE Facts
  <2>1. Marked(demands, demands', i, act, h.at)
    BY <1>6, <1>7, <1>8, <1>9 DEF Marked
  <2> QED BY <1>9, <2>1, MarkKeeps
<1> QED BY <1>6, <1>10

\* A stop cancels what waits, or releases the newest expired attempt.
LEMMA StopKeeps ==
    ASSUME IInv, NEW h \in begun, cancelComputerDemand(h)
    PROVE  IInv'
<1> USE Facts
<1>1. UNCHANGED <<clock, deleted, place, known>> /\ Done(h) /\ h.at <= clock
  BY DEF cancelComputerDemand, Takes
<1>2. /\ demands' \in Seq(Row) /\ RowsInv(demands', place.epoch, clock, deleted)
      /\ ExpiredStay(demands, demands')
  <2>1. CASE demands' = demands
    BY <2>1 DEF ExpiredStay
  <2>2. CASE Active # {} /\ demands' = Close(CHOOSE i \in Active : TRUE, "cancelled", h.at)
    <3>1. PICK i \in DOMAIN demands :
            demands[i].st = "active" /\ demands' = Close(i, "cancelled", h.at)
      BY <2>2 DEF Active, Ids
    <3>2. demands \in [DOMAIN demands -> Row]
      BY LenProperties
    <3>3. /\ demands' \in [DOMAIN demands -> Row]
          /\ \A j \in DOMAIN demands : j # i => demands'[j] = demands[j]
          /\ demands'[i].st = "cancelled" /\ demands'[i].closed = h.at
          /\ demands'[i].src = demands[i].src /\ demands'[i].passed = demands[i].passed
          /\ demands'[i].marker = demands[i].marker
          /\ demands'[i].owner = demands[i].owner
      BY <3>1, <3>2 DEF Close, Row
    <3>4. "cancelled" \in {"consumed", "cancelled", "expired"} /\ h.at <= clock
      OBVIOUS
    <3>5. /\ demands \in Seq(Row) /\ place.epoch \in Nat /\ clock \in Times
          /\ deleted \in BOOLEAN /\ h.at \in Times
          /\ RowsInv(demands, place.epoch, clock, deleted)
      OBVIOUS
    <3>6. demands[i].st = "active"
      BY <3>1
    <3> HIDE Facts
    <3> QED BY <3>3, <3>4, <3>5, <3>6, CloseKeeps
  <2> DEFINE unreleased == {k \in Expired : ~Released(demands, k)}
             i == Newest(demands, unreleased)
  <2>3. CASE /\ Active = {} /\ unreleased # {}
             /\ demands' = Told(i, "stop", h.at)
    <3>1. unreleased \subseteq DOMAIN demands
      BY DEF Expired, Ids
    <3>2. i \in unreleased /\ \A k \in unreleased : demands[k].closed <= demands[i].closed
      <4> HIDE DEF unreleased
      <4> QED BY <2>3, <3>1, NewestIsLast
    <3>3. i \in DOMAIN demands /\ demands[i].st = "expired" /\ IsNewest(demands, i)
      BY <3>2 DEF Expired, Ids, IsNewest
    <3>4. ~\E k \in DOMAIN demands : demands[k].st = "active"
      BY <2>3 DEF Active, Ids
    <3>5. "stop" \in {"stop", "retry"} /\ "stop" # "retry"
      OBVIOUS
    <3> HIDE DEF i, unreleased
    <3> QED BY <2>3, <3>3, <3>4, <3>5, MarkedRows
  <2> QED BY <2>1, <2>2, <2>3 DEF cancelComputerDemand, cancelExpiredAttempt, Told
<1> QED BY <1>1, <1>2, TransactionKeeps

\* A Retry releases the attempt it names, or writes nothing.
LEMMA RetryKeeps ==
    ASSUME IInv, NEW h \in begun, resetCapacityAttempt(h)
    PROVE  IInv'
<1> USE Facts
<1>1. /\ UNCHANGED <<clock, deleted, place, known>> /\ Done(h) /\ h.at <= clock
      /\ h.kind = "retry" /\ demands' = resetExpiredAttempt(h.id, h.at)
  BY DEF resetCapacityAttempt, Takes
<1>2. /\ demands' \in Seq(Row) /\ RowsInv(demands', place.epoch, clock, deleted)
      /\ ExpiredStay(demands, demands')
  <2>1. CASE ~Resettable(h.id)
    BY <1>1, <2>1 DEF resetExpiredAttempt, ExpiredStay
  <2>2. CASE Resettable(h.id)
    <3>1. /\ h.id \in DOMAIN demands /\ demands[h.id].st = "expired"
          /\ h.id = Newest(demands, Expired)
          /\ ~\E k \in DOMAIN demands : demands[k].st = "active"
      BY <2>2 DEF Resettable, Expired, Active, Ids
    <3>2. \A k \in Expired : demands[k].closed <= demands[h.id].closed
      <4>1. Expired \subseteq DOMAIN demands /\ Expired # {}
        BY <3>1 DEF Expired, Ids
      <4> QED BY <3>1, <4>1, NewestIsLast
    <3>3. IsNewest(demands, h.id)
      BY <3>2 DEF Expired, Ids, IsNewest
    <3>4. demands[h.id].closed <= h.at
      <4>1. demands[h.id].closed < h.at
        BY <1>1 DEF IInv, HandlersOK
      <4>2. demands[h.id].closed \in Nat
        BY <3>1, RowAt
      <4> QED BY <4>1, <4>2
    <3>5. demands' = Told(h.id, "retry", h.at)
      BY <1>1, <2>2 DEF resetExpiredAttempt, Told
    <3>6. "retry" \in {"stop", "retry"}
      OBVIOUS
    <3> QED BY <3>1, <3>3, <3>4, <3>5, <3>6, MarkedRows
  <2> QED BY <2>1, <2>2
<1> QED BY <1>1, <1>2, TransactionKeeps

-----------------------------------------------------------------------------
(* The theorems.                                                           *)

\* The strengthening holds from the start and every step keeps it: who is told
\* what stays tied to which row was closed when, for every bound on time,
\* leases and handlers.
THEOREM DemandInductive == Spec => []IInv
<1>1. Init => IInv
  <2> SUFFICES ASSUME Init PROVE IInv
    OBVIOUS
  <2>1. TypeOK
    <3>1. <<>> \in Seq(Row)
      BY EmptySeq
    <3>2. 0 \in Times /\ 0 \in Sources
      BY BoundsAssumption DEF Times, Sources
    <3> QED BY <3>1, <3>2 DEF Init, TypeOK, Place
  <2>2. HandlersOK /\ PlaceOK
    BY DEF Init, HandlersOK, PlaceOK
  <2>3. RowsInv(demands, place.epoch, clock, deleted)
    BY DEF Init, RowsInv, InOrder, Dated, Answered, ReleasedByOwner
  <2> QED BY <2>1, <2>2, <2>3 DEF IInv
<1>2. IInv /\ [Next]_vars => IInv'
  <2> SUFFICES ASSUME IInv, [Next]_vars PROVE IInv'
    OBVIOUS
  <2> USE Facts
  <2>1. ASSUME NEW src \in Sources, open(src) PROVE IInv'
    <3> DEFINE h == [kind |-> "open", at |-> 0, src |-> src, id |-> 0]
    <3>1. h \in Handler /\ h.kind # "retry"
      BY BoundsAssumption DEF Handler, Times
    <3>2. [Of("open") EXCEPT !.src = src] = h
      BY DEF Of
    <3>3. Begin(h)
      BY <2>1, <3>2 DEF open
    <3> HIDE DEF h
    <3> QED BY <3>1, <3>3, BeginKeeps
  <2>2. ASSUME stop \/ sweep PROVE IInv'
    <3>1. /\ Of("stop") \in Handler /\ Of("stop").kind = "stop"
          /\ Of("sweep") \in Handler /\ Of("sweep").kind = "sweep"
      BY BoundsAssumption DEF Of, Handler, Times, Sources
    <3> QED BY <2>2, <3>1, BeginKeeps DEF stop, sweep
  <2>3. ASSUME NEW i \in Ids, retry(i) PROVE IInv'
    <3> DEFINE h == [kind |-> "retry", at |-> 0, src |-> 0, id |-> i]
    <3>1. i \in Nat
      BY RowAt DEF Ids
    <3>2. h \in Handler /\ h.id \in known
      BY <2>3, <3>1, BoundsAssumption DEF retry, Handler, Times, Sources
    <3>3. [Of("retry") EXCEPT !.id = i] = h
      BY DEF Of
    <3>4. Begin(h)
      BY <2>3, <3>3 DEF retry
    <3> HIDE DEF h
    <3> QED BY <3>2, <3>4, BeginKeeps
  <2>4. CASE DeadlinePasses
    BY <2>4, DeadlineKeeps
  <2>5. CASE settleStop
    <3>1. /\ place'.epoch = place.epoch /\ place'.state = "STOPPED" /\ place' \in Place
          /\ UNCHANGED <<clock, demands, deleted, begun, known>>
      BY <2>5 DEF settleStop, Place
    <3> QED BY <3>1 DEF IInv, TypeOK, PlaceOK, HandlersOK
  <2>6. CASE softDelete
    <3>1. UNCHANGED <<clock, demands, place, begun, known>> /\ deleted' = TRUE
      BY <2>6 DEF softDelete
    <3>2. RowsInv(demands, place.epoch, clock, TRUE)
      BY DEF RowsInv, ReleasedByOwner
    <3> QED BY <3>1, <3>2 DEF IInv, TypeOK, PlaceOK, HandlersOK
  <2>7. ASSUME NEW h \in begun, refuse(h) PROVE IInv'
    <3>1. UNCHANGED <<clock, deleted, place, known>> /\ Done(h) /\ demands' = demands
      BY <2>7 DEF refuse, Takes
    <3> QED BY <3>1, TransactionKeeps DEF ExpiredStay
  <2>8. ASSUME NEW h \in begun, PoolCapacityPressure(h) PROVE IInv'
    <3> DEFINE g == [h EXCEPT !.kind = "reserve", !.at = 0]
    <3>1. h \in Handler /\ 0 \in Times
      BY BoundsAssumption DEF Times
    <3>2. g \in Handler
      <4> HIDE Facts
      <4> QED BY <3>1 DEF Handler
    <3>3. g.kind = "reserve" /\ g.at = 0
      <4> HIDE Facts
      <4> QED BY <3>1 DEF Handler
    <3>4. begun' = (begun \ {h}) \cup {g}
      BY <2>8 DEF PoolCapacityPressure
    <3>5. UNCHANGED <<clock, demands, deleted, place, known>>
      BY <2>8 DEF PoolCapacityPressure, Takes
    <3> HIDE DEF g
    <3>6. TypeOK' /\ HandlersOK' /\ PlaceOK'
      BY <3>2, <3>3, <3>4, <3>5 DEF IInv, TypeOK, HandlersOK, PlaceOK
    <3> QED BY <3>5, <3>6 DEF IInv
  <2>9. CASE UNCHANGED vars
    BY <2>9 DEF vars, IInv, TypeOK, PlaceOK, HandlersOK
  <2> QED
    BY <2>1, <2>2, <2>3, <2>4, <2>5, <2>6, <2>7, <2>8, <2>9, BeginReserveKeeps,
       AdmitKeeps, ReserveKeeps, ReplenishKeeps, StopKeeps, RetryKeeps DEF Next
<1> QED BY <1>1, <1>2, PTL DEF Spec

\* The rows and the handlers hold what the transactions write there.
THEOREM DemandTypes == Spec => []TypeOK
<1>1. IInv => TypeOK
  BY DEF IInv
<1> QED BY <1>1, DemandInductive, PTL

\* An expired attempt's source is reserved for again only after its owner's act,
\* whatever order the transactions got the lock in.
THEOREM PollingRestartsNothing == Spec => []NoSilentRestart
<1>1. IInv => NoSilentRestart
  BY DEF IInv, RowsInv, Answered, NoSilentRestart, Ids
<1> QED BY <1>1, DemandInductive, PTL

\* An answered Retry has released its attempt.
THEOREM RetriesRelease == Spec => []RetryReleases
<1>1. IInv => RetryReleases
  BY DEF IInv, RowsInv, RetryReleases, Ids
<1> QED BY <1>1, DemandInductive, PTL
=============================================================================
