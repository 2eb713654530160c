------------------------- MODULE DesktopPushProofs -------------------------
(***************************************************************************)
(* What the compare-and-set of restartPush gives, for every set of asks    *)
(* and every order of times AskTime < ClaimTime < ApplyTime.               *)
(***************************************************************************)
EXTENDS DesktopPush, TunnelRegistryProofs

AskPc == {"idle", "failed", "unapplied", "claim", "adopt",
          "push", "release", "record"}
AskRec == [pc : AskPc, epoch : Zero, expects : {"none", "current", "stale"},
           holds : BOOLEAN, claim : {"none", "unneeded", "held", "unknown"},
           age : Nat]
PushRec == [is : {"none", "claim", "config"}, age : Nat, holds : BOOLEAN]
HostRec == [epoch : Zero, desktop : {"down", "applied", "unapplied"},
            configured : BOOLEAN, age : Nat]

DTypeOK == ask \in [Asks -> AskRec] /\ push \in PushRec /\ host \in HostRec

\* The config an ask or the record takes for the held one is held; and the
\* record's time is no earlier than the host's store of it.
HoldsOK ==
    /\ \A a \in Asks :
         ask[a].holds => host.configured /\ ask[a].pc \in {"adopt", "record"}
    /\ push.holds => push.is = "config" /\ host.configured /\ push.age <= host.age

\* An ask pushes under the record's claim, within the window of that claim;
\* whoever else could change the record has read a push that is gone.
PushOK ==
    \A a \in Asks : ClaimedPush(a) =>
        /\ push.is = "claim" /\ push.age <= ask[a].age /\ ask[a].age <= AskTime
        /\ \A b \in Asks \ {a} :
             ~ClaimedPush(b) /\ (ask[b].expects = "current" => ask[b].pc = "claim")

\* What an ask that is about to call read is still so while its read stands.
CallOK ==
    \A a \in Asks : ask[a].expects = "current" =>
        /\ ask[a].pc = "claim" =>
             IF push.is = "claim" THEN push.age >= ClaimTime ELSE ~push.holds
        /\ ask[a].pc = "adopt" => push.is = "config"

DInv == DTypeOK /\ HoldsOK /\ PushOK /\ CallOK

-----------------------------------------------------------------------------
(* Operators on the asks.                                                  *)

\* An ask at rest is an ask record, and so is one that failed.
LEMMA RestIsAsk == NoAsk \in AskRec /\ Failed \in AskRec
BY DEF NoAsk, Failed, AskRec, AskPc, Zero

\* Replacing the push leaves no ask with the current one, and nothing else new.
LEMMA PushReplacedOK ==
    ASSUME DTypeOK
    PROVE  /\ PushReplaced \in [Asks -> AskRec]
           /\ \A b \in Asks :
                /\ PushReplaced[b].expects # "current"
                /\ PushReplaced[b].pc = ask[b].pc
                /\ PushReplaced[b].holds = ask[b].holds
                /\ PushReplaced[b].claim = ask[b].claim
                /\ PushReplaced[b].age = ask[b].age
<1>1. ASSUME NEW b \in Asks
      PROVE  /\ PushReplaced[b] \in AskRec
             /\ PushReplaced[b].expects # "current"
             /\ PushReplaced[b].pc = ask[b].pc
             /\ PushReplaced[b].holds = ask[b].holds
             /\ PushReplaced[b].claim = ask[b].claim
             /\ PushReplaced[b].age = ask[b].age
  <2>1. ask[b] \in AskRec
    BY DEF DTypeOK
  <2>2. PushReplaced[b] = IF ask[b].expects = "current"
                          THEN [ask[b] EXCEPT !.expects = "stale"] ELSE ask[b]
    BY DEF PushReplaced
  <2> QED BY <2>1, <2>2 DEF AskRec
<1>2. PushReplaced \in [Asks -> AskRec]
  BY <1>1 DEF PushReplaced
<1> QED BY <1>1, <1>2

\* Replacing the held config takes every ask's config for another one.
LEMMA ConfigReplacedOK ==
    ASSUME DTypeOK
    PROVE  /\ ConfigReplaced \in [Asks -> AskRec]
           /\ \A b \in Asks :
                /\ ConfigReplaced[b].holds = FALSE
                /\ ConfigReplaced[b].pc = ask[b].pc
                /\ ConfigReplaced[b].expects = ask[b].expects
                /\ ConfigReplaced[b].claim = ask[b].claim
                /\ ConfigReplaced[b].age = ask[b].age
<1>1. ASSUME NEW b \in Asks
      PROVE  /\ ConfigReplaced[b] \in AskRec
             /\ ConfigReplaced[b].holds = FALSE
             /\ ConfigReplaced[b].pc = ask[b].pc
             /\ ConfigReplaced[b].expects = ask[b].expects
             /\ ConfigReplaced[b].claim = ask[b].claim
             /\ ConfigReplaced[b].age = ask[b].age
  <2>1. ask[b] \in AskRec
    BY DEF DTypeOK
  <2>2. ConfigReplaced[b] = [ask[b] EXCEPT !.holds = FALSE]
    BY DEF ConfigReplaced
  <2> QED BY <2>1, <2>2 DEF AskRec
<1>2. ConfigReplaced \in [Asks -> AskRec]
  BY <1>1 DEF ConfigReplaced
<1> QED BY <1>1, <1>2

\* A call whose compare succeeds is made while no ask pushes under a claim.
LEMMA ExpectedAlone ==
    ASSUME DInv, NEW a \in Asks, expected(a),
           ask[a].pc \in {"claim", "adopt", "record", "release"}
    PROVE  \A b \in Asks : ~ClaimedPush(b)
<1> SUFFICES ASSUME NEW b \in Asks, ClaimedPush(b) PROVE FALSE
  OBVIOUS
<1>1. a # b
  BY DEF ClaimedPush
<1>2. push.is = "claim" /\ push.age <= ask[b].age /\ ask[b].age <= AskTime
  BY DEF DInv, PushOK
<1>3. ask[a].expects = "current"
  BY <1>2 DEF expected
<1>4. ask[a].pc = "claim"
  BY <1>1, <1>3 DEF DInv, PushOK
<1>5. push.age >= ClaimTime
  BY <1>2, <1>3, <1>4 DEF DInv, CallOK
<1>6. push.age \in Nat /\ ask[b].age \in Nat
  BY DEF DInv, DTypeOK, PushRec, AskRec
<1> QED BY <1>2, <1>5, <1>6, TimesAssumption

\* A step that changes one ask alone keeps the invariant, if what the ask goes
\* on with is in order.
LEMMA BecomesOK ==
    ASSUME DInv, NEW a \in Asks, NEW next \in AskRec,
           Becomes(a, next), UNCHANGED <<push, host>>,
           next.holds => host.configured /\ next.pc \in {"adopt", "record"},
           next.pc = "push" => next.claim \notin {"held", "unknown"},
           next.expects = "current" =>
             /\ next.pc = "claim" =>
                  IF push.is = "claim" THEN push.age >= ClaimTime ELSE ~push.holds
             /\ next.pc = "adopt" => push.is = "config"
             /\ next.pc # "claim" => \A b \in Asks \ {a} : ~ClaimedPush(b)
    PROVE  DInv'
<1>1. ask' \in [Asks -> AskRec] /\ ask'[a] = next
      /\ \A b \in Asks \ {a} : ask'[b] = ask[b]
  BY DEF Becomes, DInv, DTypeOK
<1>2. push' = push /\ host' = host
  OBVIOUS
<1>3. DTypeOK'
  BY <1>1, <1>2 DEF DInv, DTypeOK
<1>4. HoldsOK'
  BY <1>1, <1>2 DEF DInv, HoldsOK
<1>5. PushOK'
  <2> SUFFICES ASSUME NEW c \in Asks, ClaimedPush(c)'
               PROVE  /\ push'.is = "claim" /\ push'.age <= ask'[c].age
                      /\ ask'[c].age <= AskTime
                      /\ \A b \in Asks \ {c} :
                           /\ ~ClaimedPush(b)'
                           /\ ask'[b].expects = "current" => ask'[b].pc = "claim"
    BY DEF PushOK
  <2>1. c # a
    BY <1>1 DEF ClaimedPush
  <2>2. ask'[c] = ask[c] /\ ClaimedPush(c)
    BY <1>1, <2>1 DEF ClaimedPush
  <2>3. ~ClaimedPush(a)'
    BY <1>1 DEF ClaimedPush
  <2>4. next.expects = "current" => next.pc = "claim"
    BY <2>1, <2>2
  <2>5. ASSUME NEW b \in Asks \ {c}, b # a
        PROVE  ~ClaimedPush(b)' /\ (ask'[b].expects = "current" => ask'[b].pc = "claim")
    BY <1>1, <2>2, <2>5 DEF DInv, PushOK, ClaimedPush
  <2> QED BY <1>1, <1>2, <2>2, <2>3, <2>4, <2>5 DEF DInv, PushOK
<1>6. CallOK'
  BY <1>1, <1>2 DEF DInv, CallOK
<1> QED BY <1>3, <1>4, <1>5, <1>6 DEF DInv

\* A call that the registry grants replaces the record's push by the ask's own
\* claim, by none, or by the config it pushed.
LEMMA GrantedOK ==
    ASSUME DInv, NEW a \in Asks, NEW next \in PushRec, NEW g \in AskRec,
           \A b \in Asks : ~ClaimedPush(b),
           push' = next, ask' = [PushReplaced EXCEPT ![a] = g], host' = host,
           next.holds => next.is = "config" /\ host.configured /\ next.age = 0,
           ~g.holds,
           g.pc \notin {"claim", "adopt"},
           g.pc = "push" => next = Claimed /\ g.age = 0
    PROVE  DInv'
<1>1. PushReplaced \in [Asks -> AskRec]
      /\ \A b \in Asks :
           /\ PushReplaced[b].expects # "current"
           /\ PushReplaced[b].pc = ask[b].pc
           /\ PushReplaced[b].holds = ask[b].holds
           /\ PushReplaced[b].claim = ask[b].claim
  BY PushReplacedOK DEF DInv
<1>2. ask' \in [Asks -> AskRec] /\ ask'[a] = g
      /\ \A b \in Asks \ {a} : ask'[b] = PushReplaced[b]
  BY <1>1
<1>3. DTypeOK'
  BY <1>2 DEF DInv, DTypeOK
<1>4. HoldsOK'
  <2>1. host.age \in Nat
    BY DEF DInv, DTypeOK, HostRec
  <2> QED BY <1>1, <1>2, <2>1 DEF DInv, HoldsOK
<1>5. PushOK'
  <2> SUFFICES ASSUME NEW c \in Asks, ClaimedPush(c)'
               PROVE  /\ push'.is = "claim" /\ push'.age <= ask'[c].age
                      /\ ask'[c].age <= AskTime
                      /\ \A b \in Asks \ {c} :
                           /\ ~ClaimedPush(b)'
                           /\ ask'[b].expects = "current" => ask'[b].pc = "claim"
    BY DEF PushOK
  <2>1. \A b \in Asks \ {a} : ~ClaimedPush(b)'
    BY <1>1, <1>2 DEF ClaimedPush
  <2>2. c = a
    BY <2>1
  <2>3. push' = Claimed /\ ask'[c].age = 0
    BY <1>2, <2>2 DEF ClaimedPush
  <2> QED BY <1>1, <1>2, <2>1, <2>2, <2>3, TimesAssumption DEF Claimed
<1>6. CallOK'
  BY <1>1, <1>2 DEF CallOK
<1> QED BY <1>3, <1>4, <1>5, <1>6 DEF DInv

-----------------------------------------------------------------------------
(* Every action keeps the invariant.  An ask's own steps.                  *)

\* An answer, or a failure, is in order whenever it is given.
LEMMA EndsOK ==
    ASSUME DInv, NEW a \in Asks,
           \/ Becomes(a, Answered)
           \/ Becomes(a, Failed)
           \/ Becomes(a, [NoAsk EXCEPT !.pc = "unapplied"]),
           UNCHANGED <<push, host>>
    PROVE  DInv'
<1>1. CASE Becomes(a, Answered)
  BY <1>1, RestIsAsk, BecomesOK DEF Answered, NoAsk
<1>2. CASE Becomes(a, Failed)
  BY <1>2, RestIsAsk, BecomesOK DEF Failed, NoAsk
<1>3. CASE Becomes(a, [NoAsk EXCEPT !.pc = "unapplied"])
  <2>1. [NoAsk EXCEPT !.pc = "unapplied"] \in AskRec
    BY DEF NoAsk, AskRec, AskPc, Zero
  <2> QED BY <1>3, <2>1, BecomesOK DEF NoAsk
<1> QED BY <1>1, <1>2, <1>3

\* An ask that goes on to a call goes on with what it has just read.
LEMMA GoesOK ==
    ASSUME DInv, TypeOK, NEW a \in Asks, NEW pc \in {"push", "adopt", "claim"},
           NEW claimed \in {"none", "unneeded"},
           Goes(a, pc, claimed), UNCHANGED <<push, host>>,
           pc = "adopt" => push.is = "config" /\ host.configured,
           pc = "claim" => IF push.is = "claim" THEN push.age >= ClaimTime
                           ELSE ~push.holds
    PROVE  DInv'
<1> DEFINE next == [pc |-> pc, epoch |-> record, claim |-> claimed, age |-> 0,
                    expects |-> IF push.is = "none" \/ pc = "push" THEN "none"
                                ELSE "current",
                    holds |-> pc = "adopt"]
<1>1. next \in AskRec
  BY DEF AskRec, AskPc, TypeOK, Zero
<1>2. Becomes(a, next)
  BY DEF Goes
<1>3. next.pc = pc /\ next.claim = claimed /\ (next.holds <=> pc = "adopt")
      /\ (next.expects = "current" => pc # "push")
  OBVIOUS
<1>4. pc = "adopt" => \A b \in Asks : ~ClaimedPush(b)
  BY DEF DInv, PushOK
<1> HIDE DEF next
<1> QED BY <1>1, <1>2, <1>3, <1>4, BecomesOK

\* Reading the record and the status (statusFails .. wantsClaim).
LEMMA ReadsOK ==
    ASSUME DInv, TypeOK, NEW a \in Asks,
           \/ statusFails(a) \/ desktopDown(a) \/ desktopApplied(a)
           \/ waitForClaim(a) \/ waitForApply(a) \/ wantsAdopt(a) \/ wantsClaim(a)
    PROVE  DInv'
<1>1. CASE statusFails(a)
  BY <1>1, EndsOK DEF statusFails, asks
<1>2. CASE desktopDown(a)
  <2>1. UNCHANGED <<push, host>>
    BY <1>2 DEF desktopDown, asks
  <2>2. CASE Goes(a, "push", "unneeded")
    BY <2>1, <2>2, GoesOK
  <2>3. CASE Becomes(a, Answered)
    BY <2>1, <2>3, EndsOK
  <2> QED BY <1>2, <2>2, <2>3 DEF desktopDown
<1>3. CASE desktopApplied(a)
  BY <1>3, EndsOK DEF desktopApplied, asks
<1>4. CASE waitForClaim(a)
  BY <1>4, EndsOK DEF waitForClaim, lacksConfig, asks
<1>5. CASE waitForApply(a)
  <2>1. UNCHANGED <<push, host>>
        /\ (Becomes(a, Answered) \/ Becomes(a, [NoAsk EXCEPT !.pc = "unapplied"]))
    BY <1>5 DEF waitForApply, lacksConfig, asks
  <2> QED BY <2>1, EndsOK
<1>6. CASE wantsAdopt(a)
  BY <1>6, GoesOK DEF wantsAdopt, lacksConfig, asks, recorded
<1>7. CASE wantsClaim(a)
  <2>1. push.is # "claim" => ~push.holds
    BY <1>7 DEF wantsClaim, recorded, DInv, HoldsOK
  <2> QED BY <1>7, <2>1, GoesOK DEF wantsClaim, lacksConfig, asks
<1> QED BY <1>1, <1>2, <1>3, <1>4, <1>5, <1>6, <1>7

\* What an ask goes on to push with is an ask record.
LEMMA PushingIsAsk ==
    ASSUME DInv, NEW a \in Asks, NEW e \in {"none", "current", "stale"},
           NEW c \in {"none", "unneeded", "held", "unknown"}
    PROVE  /\ Pushing(a, e, c) \in AskRec
           /\ Pushing(a, e, c).pc = "push" /\ Pushing(a, e, c).age = 0
           /\ Pushing(a, e, c).expects = e /\ Pushing(a, e, c).claim = c
           /\ Pushing(a, e, c).holds = ask[a].holds
BY DEF Pushing, DInv, DTypeOK, AskRec, AskPc

\* The claim: granted to nobody else, or refused.
LEMMA ClaimOK ==
    ASSUME DInv, NEW a \in Asks, claim(a)
    PROVE  DInv'
<1>1. ask[a].pc = "claim" /\ host' = host
  BY DEF claim
<1>2. CASE expected(a)
  <2>1. push' = Claimed
        /\ ask' = [PushReplaced EXCEPT ![a] = Pushing(a, "current", "held")]
    BY <1>2 DEF claim, restartPush
  <2>2. \A b \in Asks : ~ClaimedPush(b)
    BY <1>1, <1>2, ExpectedAlone
  <2>3. ~ask[a].holds
    BY <1>1 DEF DInv, HoldsOK
  <2>4. Claimed \in PushRec /\ Claimed.holds = FALSE
    BY DEF Claimed, PushRec
  <2> DEFINE g == Pushing(a, "current", "held")
  <2>5. g \in AskRec /\ g.pc = "push" /\ g.age = 0 /\ g.holds = ask[a].holds
    BY PushingIsAsk
  <2> HIDE DEF g
  <2>6. ask' = [PushReplaced EXCEPT ![a] = g]
    BY <2>1 DEF g
  <2> QED BY <1>1, <2>1, <2>2, <2>3, <2>4, <2>5, <2>6, GrantedOK
<1>3. CASE ~expected(a)
  BY <1>3, EndsOK DEF claim, restartPush
<1> QED BY <1>2, <1>3

\* An unanswered claim was made or was not: the push that follows says which.
LEMMA ClaimUnansweredOK ==
    ASSUME DInv, NEW a \in Asks, claimUnanswered(a)
    PROVE  DInv'
<1>1. ask[a].pc = "claim" /\ host' = host
  BY DEF claimUnanswered
<1>2. ~ask[a].holds
  BY <1>1 DEF DInv, HoldsOK
<1>3. CASE /\ expected(a) /\ push' = Claimed
           /\ ask' = [PushReplaced EXCEPT
                        ![a] = Pushing(a, PushReplaced[a].expects, "unknown")]
  <2> DEFINE g == Pushing(a, PushReplaced[a].expects, "unknown")
  <2>1. PushReplaced[a].expects \in {"none", "current", "stale"}
    BY PushReplacedOK DEF DInv, AskRec
  <2>2. g \in AskRec /\ g.pc = "push" /\ g.age = 0 /\ g.holds = ask[a].holds
    BY <2>1, PushingIsAsk
  <2>3. Claimed \in PushRec /\ Claimed.holds = FALSE
    BY DEF Claimed, PushRec
  <2>4. \A b \in Asks : ~ClaimedPush(b)
    BY <1>1, <1>3, ExpectedAlone
  <2>5. push' = Claimed /\ ask' = [PushReplaced EXCEPT ![a] = g]
    BY <1>3
  <2> HIDE DEF g
  <2> QED BY <1>1, <1>2, <2>2, <2>3, <2>4, <2>5, GrantedOK
<1>4. CASE UNCHANGED push /\ Becomes(a, Pushing(a, ask[a].expects, "none"))
  <2> DEFINE g == Pushing(a, ask[a].expects, "none")
  <2>1. ask[a].expects \in {"none", "current", "stale"}
    BY DEF DInv, DTypeOK, AskRec
  <2>2. g \in AskRec /\ g.pc = "push" /\ g.claim = "none"
        /\ g.expects = ask[a].expects /\ g.holds = ask[a].holds
    BY <2>1, PushingIsAsk
  <2>3. Becomes(a, g)
    BY <1>4
  <2>4. ASSUME ask[a].expects = "current", NEW b \in Asks, ClaimedPush(b)
        PROVE  FALSE
    <3>1. push.is = "claim" /\ push.age <= ask[b].age /\ ask[b].age <= AskTime
      BY <2>4 DEF DInv, PushOK
    <3>2. push.age >= ClaimTime
      BY <1>1, <2>4, <3>1 DEF DInv, CallOK
    <3>3. push.age \in Nat /\ ask[b].age \in Nat
      BY DEF DInv, DTypeOK, PushRec, AskRec
    <3> QED BY <3>1, <3>2, <3>3, TimesAssumption
  <2> HIDE DEF g
  <2> QED BY <1>1, <1>2, <1>4, <2>2, <2>3, <2>4, BecomesOK
<1> QED BY <1>3, <1>4 DEF claimUnanswered

\* A push that ends unaccepted leaves an ask that failed, or that releases.
LEMMA RefusedIsAsk ==
    ASSUME DInv, NEW a \in Asks
    PROVE  /\ Refused(a) \in AskRec
           /\ Refused(a).pc \in {"release", "failed"}
           /\ Refused(a).pc = "release" =>
                /\ ask[a].claim = "held" /\ Refused(a).claim = "held"
                /\ Refused(a).holds = ask[a].holds
                /\ Refused(a).expects = ask[a].expects
           /\ Refused(a).pc = "failed" =>
                ~Refused(a).holds /\ Refused(a).expects = "none"
<1>1. ask[a] \in AskRec
  BY DEF DInv, DTypeOK
<1>2. CASE ask[a].claim = "held"
  <2>1. Refused(a) = [ask[a] EXCEPT !.pc = "release"]
    BY <1>2 DEF Refused
  <2> QED BY <1>1, <1>2, <2>1 DEF AskRec, AskPc
<1>3. CASE ask[a].claim # "held"
  <2>1. Refused(a) = Failed
    BY <1>3 DEF Refused
  <2> QED BY <2>1, RestIsAsk DEF Failed, NoAsk
<1> QED BY <1>2, <1>3

\* A push that is not stored.
LEMMA PushNotStoredOK ==
    ASSUME DInv, NEW a \in Asks, pushNotStored(a)
    PROVE  DInv'
<1>1. ask[a].pc = "push" /\ UNCHANGED <<push, host>>
  BY DEF pushNotStored
<1>2. CASE Becomes(a, Failed)
  BY <1>1, <1>2, EndsOK
<1>3. CASE Becomes(a, Refused(a))
  <2>1. ~Refused(a).holds
    BY <1>1, RefusedIsAsk DEF DInv, HoldsOK
  <2>2. ASSUME Refused(a).expects = "current", NEW b \in Asks \ {a}
        PROVE  ~ClaimedPush(b)
    <3>1. ClaimedPush(a)
      BY <1>1, <2>2, RefusedIsAsk DEF ClaimedPush
    <3> QED BY <3>1 DEF DInv, PushOK
  <2> QED BY <1>1, <1>3, <2>1, <2>2, RefusedIsAsk, BecomesOK
<1> QED BY <1>2, <1>3 DEF pushNotStored

\* A release or record that is lost.
LEMMA CallLostOK ==
    ASSUME DInv, NEW a \in Asks, callLost(a)
    PROVE  DInv'
BY EndsOK DEF callLost

\* The release of a claim, or its refusal.
LEMMA ReleaseOK ==
    ASSUME DInv, NEW a \in Asks, release(a)
    PROVE  DInv'
<1>1. ask[a].pc = "release" /\ host' = host
  BY DEF release
<1>2. CASE expected(a)
  <2>1. push' = NoPush /\ ask' = [PushReplaced EXCEPT ![a] = Failed]
    BY <1>2 DEF release, restartPush
  <2>2. \A b \in Asks : ~ClaimedPush(b)
    BY <1>1, <1>2, ExpectedAlone
  <2>3. NoPush \in PushRec /\ NoPush.holds = FALSE
    BY DEF NoPush, PushRec
  <2>4. Failed.pc = "failed" /\ Failed.holds = FALSE
    BY DEF Failed, NoAsk
  <2> QED BY <1>1, <2>1, <2>2, <2>3, <2>4, RestIsAsk, GrantedOK
<1>3. CASE ~expected(a)
  BY <1>3, EndsOK DEF release, restartPush
<1> QED BY <1>2, <1>3

\* A config recorded, or adopted.
LEMMA RecordPushOK ==
    ASSUME DInv, NEW a \in Asks, recordPush(a)
    PROVE  DInv'
<1>1. ask[a].pc \in {"record", "adopt"} /\ host' = host
  BY DEF recordPush
<1>2. CASE expected(a)
  <2>1. push' = Recorded(a) /\ ask' = [PushReplaced EXCEPT ![a] = Answered]
    BY <1>2 DEF recordPush, restartPush
  <2>2. \A b \in Asks : ~ClaimedPush(b)
    BY <1>1, <1>2, ExpectedAlone
  <2>3. /\ Recorded(a) \in PushRec /\ Recorded(a).is = "config"
        /\ Recorded(a).age = 0 /\ Recorded(a).holds = ask[a].holds
    BY DEF Recorded, PushRec, DInv, DTypeOK, AskRec
  <2>4. ask[a].holds => host.configured
    BY DEF DInv, HoldsOK
  <2>5. Answered \in AskRec /\ Answered.pc = "idle" /\ Answered.holds = FALSE
    BY RestIsAsk DEF Answered, NoAsk
  <2> QED BY <1>1, <2>1, <2>2, <2>3, <2>4, <2>5, GrantedOK
<1>3. CASE ~expected(a)
  BY <1>3, EndsOK DEF recordPush, restartPush
<1> QED BY <1>2, <1>3

\* A config the host stores takes the place of the one it held.
LEMMA PushStoredOK ==
    ASSUME DInv, NEW a \in Asks, pushStored(a)
    PROVE  DInv'
<1> DEFINE accepted == IF ask[a].claim = "unneeded" THEN Answered
                       ELSE [ask[a] EXCEPT !.pc = "record", !.holds = TRUE,
                                           !.claim = "none"]
<1>1. PICK next \in {Refused(a), Failed, accepted} :
        ask' = [ConfigReplaced EXCEPT ![a] = next]
  BY DEF pushStored
<1>2. next \in AskRec /\ next.pc \in {"release", "failed", "record", "idle"}
  <2>1. ask[a] \in AskRec
    BY DEF DInv, DTypeOK
  <2>2. accepted \in AskRec /\ accepted.pc \in {"record", "idle"}
    BY <2>1, RestIsAsk DEF Answered, NoAsk, AskRec, AskPc
  <2>3. Failed \in AskRec /\ Failed.pc = "failed"
    BY RestIsAsk DEF Failed, NoAsk
  <2> HIDE DEF accepted
  <2> QED BY <2>2, <2>3, RefusedIsAsk
<1>3. next.expects = "current" => ask[a].expects = "current"
  <2>1. Failed.expects = "none" /\ Answered.expects = "none"
    BY DEF Failed, Answered, NoAsk
  <2>2. ask[a] \in AskRec
    BY DEF DInv, DTypeOK
  <2>3. accepted.expects = "current" => ask[a].expects = "current"
    BY <2>1, <2>2 DEF AskRec
  <2> HIDE DEF accepted
  <2> QED BY <2>1, <2>3, RefusedIsAsk
<1>4. ask[a].pc = "push" /\ push' = [push EXCEPT !.holds = FALSE]
      /\ host' = [host EXCEPT !.configured = TRUE, !.age = 0]
  BY DEF pushStored
<1>5. ConfigReplaced \in [Asks -> AskRec]
      /\ \A b \in Asks :
           /\ ConfigReplaced[b].holds = FALSE
           /\ ConfigReplaced[b].pc = ask[b].pc
           /\ ConfigReplaced[b].expects = ask[b].expects
           /\ ConfigReplaced[b].claim = ask[b].claim
           /\ ConfigReplaced[b].age = ask[b].age
  BY ConfigReplacedOK DEF DInv
<1>6. push \in PushRec /\ host \in HostRec
  BY DEF DInv, DTypeOK
<1>7. /\ push' \in PushRec /\ push'.is = push.is /\ push'.age = push.age
      /\ push'.holds = FALSE
      /\ host' \in HostRec /\ host'.configured
  BY <1>4, <1>6 DEF PushRec, HostRec
<1>8. ask' \in [Asks -> AskRec] /\ ask'[a] = next
      /\ \A b \in Asks \ {a} : ask'[b] = ConfigReplaced[b]
  BY <1>1, <1>2, <1>5
<1> HIDE DEF accepted
<1>9. DTypeOK'
  BY <1>7, <1>8 DEF DTypeOK
<1>10. HoldsOK'
  <2>1. next.holds => next.pc = "record"
    <3>1. ~ask[a].holds
      BY <1>4 DEF DInv, HoldsOK
    <3>2. Failed.holds = FALSE /\ Answered.holds = FALSE
      BY DEF Failed, Answered, NoAsk
    <3>3. accepted.holds => accepted.pc = "record"
      <4>1. ask[a] \in AskRec
        BY DEF DInv, DTypeOK
      <4> QED BY <3>2, <4>1 DEF accepted, AskRec
    <3> QED BY <3>1, <3>2, <3>3, RefusedIsAsk
  <2> QED BY <1>5, <1>7, <1>8, <2>1 DEF HoldsOK
<1>11. PushOK'
  <2> SUFFICES ASSUME NEW c \in Asks, ClaimedPush(c)'
               PROVE  /\ push'.is = "claim" /\ push'.age <= ask'[c].age
                      /\ ask'[c].age <= AskTime
                      /\ \A b \in Asks \ {c} :
                           /\ ~ClaimedPush(b)'
                           /\ ask'[b].expects = "current" => ask'[b].pc = "claim"
    BY DEF PushOK
  <2>1. c # a /\ ~ClaimedPush(a)'
    BY <1>2, <1>8 DEF ClaimedPush
  <2>2. ClaimedPush(c)
    BY <1>5, <1>8, <2>1 DEF ClaimedPush
  <2>3. ask'[a].expects # "current"
    BY <1>3, <1>4, <1>8, <2>1, <2>2 DEF DInv, PushOK
  <2>4. \A b \in Asks \ {c} : b # a =>
          ~ClaimedPush(b)' /\ (ask'[b].expects = "current" => ask'[b].pc = "claim")
    BY <1>5, <1>8, <2>2 DEF DInv, PushOK, ClaimedPush
  <2>5. ask'[c].age = ask[c].age
    BY <1>5, <1>8, <2>1
  <2> QED BY <1>7, <2>1, <2>2, <2>3, <2>4, <2>5 DEF DInv, PushOK
<1>12. CallOK'
  BY <1>2, <1>5, <1>7, <1>8 DEF DInv, CallOK
<1> QED BY <1>9, <1>10, <1>11, <1>12 DEF DInv

-----------------------------------------------------------------------------
(* The host, time and the registry.                                        *)

\* A config staged, or expired.
LEMMA HostConfigOK ==
    ASSUME DInv, NEW c \in BOOLEAN, HostConfig(c)
    PROVE  DInv'
<1>1. /\ ask' \in [Asks -> AskRec]
      /\ \A b \in Asks :
           /\ ask'[b].holds = FALSE
           /\ ask'[b].pc = ask[b].pc
           /\ ask'[b].expects = ask[b].expects
           /\ ask'[b].claim = ask[b].claim
           /\ ask'[b].age = ask[b].age
  BY ConfigReplacedOK DEF DInv, HostConfig
<1>2. push \in PushRec /\ host \in HostRec
  BY DEF DInv, DTypeOK
<1>3. push' \in PushRec /\ push'.is = push.is /\ push'.age = push.age
      /\ push'.holds = FALSE /\ host' \in HostRec
  BY <1>2 DEF HostConfig, PushRec, HostRec
<1>4. DTypeOK' /\ HoldsOK'
  BY <1>1, <1>3 DEF DTypeOK, HoldsOK
<1>5. PushOK'
  BY <1>1, <1>3 DEF DInv, PushOK, ClaimedPush
<1>6. CallOK'
  BY <1>1, <1>3 DEF DInv, CallOK
<1> QED BY <1>4, <1>5, <1>6 DEF DInv

\* The desktop stops and starts beside all of this.
LEMMA DesktopOK ==
    ASSUME DInv, desktopStops \/ desktopStarts
    PROVE  DInv'
<1>1. ask' = ask /\ push' = push
  BY DEF desktopStops, desktopStarts
<1>2. host \in HostRec
  BY DEF DInv, DTypeOK
<1>3. host' \in HostRec /\ host'.configured = host.configured /\ host'.age = host.age
  BY <1>2 DEF desktopStops, desktopStarts, HostRec
<1>4. DTypeOK' /\ HoldsOK'
  BY <1>1, <1>3 DEF DInv, DTypeOK, HoldsOK
<1>5. PushOK' /\ CallOK'
  BY <1>1 DEF DInv, PushOK, CallOK, ClaimedPush
<1> QED BY <1>4, <1>5 DEF DInv

\* A reboot, or the end of the record, leaves no claim and no ask with one.
LEMMA ForgottenOK ==
    ASSUME DInv, push' = NoPush, host' \in HostRec,
           ask' \in [Asks -> AskRec],
           \A b \in Asks :
             /\ ask'[b].expects # "current" /\ ~ClaimedPush(b)'
             /\ ~ask'[b].holds
    PROVE  DInv'
<1>1. NoPush \in PushRec /\ NoPush.holds = FALSE
  BY DEF NoPush, PushRec
<1> QED BY <1>1 DEF DInv, DTypeOK, HoldsOK, PushOK, CallOK

\* After a reboot the record's push counts as none.
LEMMA RebootOK ==
    ASSUME DInv, reboot
    PROVE  DInv'
<1>1. host' \in HostRec
  BY DEF reboot, Booted, HostRec, DInv, DTypeOK
<1>2. ASSUME NEW b \in Asks
      PROVE  /\ ask'[b] \in AskRec /\ ask'[b].expects # "current"
             /\ ~ClaimedPush(b)' /\ ~ask'[b].holds
  <2>1. CASE ask[b].pc \in {"claim", "push", "record"}
    <3>1. ask'[b] = Failed
      BY <2>1 DEF reboot
    <3> QED BY <3>1, RestIsAsk DEF Failed, NoAsk, ClaimedPush
  <2>2. CASE ask[b].pc \notin {"claim", "push", "record"}
    <3>1. ask'[b] = [PushReplaced[b] EXCEPT !.holds = FALSE]
      BY <2>2 DEF reboot
    <3>2. PushReplaced[b] \in AskRec /\ PushReplaced[b].expects # "current"
          /\ PushReplaced[b].pc = ask[b].pc
      BY PushReplacedOK DEF DInv
    <3> QED BY <2>2, <3>1, <3>2 DEF AskRec, ClaimedPush
  <2> QED BY <2>1, <2>2
<1>3. ask' \in [Asks -> AskRec]
  BY <1>2 DEF reboot
<1> QED BY <1>1, <1>2, <1>3, ForgottenOK DEF reboot

\* Time that passes keeps every claim within its window.
LEMMA TickOK ==
    ASSUME DInv, Tick
    PROVE  DInv'
<1>1. push \in PushRec /\ host \in HostRec /\ ask \in [Asks -> AskRec]
  BY DEF DInv, DTypeOK
<1>2. /\ push' \in PushRec /\ push'.is = push.is /\ push'.holds = push.holds
      /\ push.is # "none" => push'.age = Older(push.age, ApplyTime)
  BY <1>1, TimesAssumption DEF Tick, PushRec, Older
<1>3. /\ host' \in HostRec /\ host'.configured = host.configured
      /\ host.configured => host'.age = Older(host.age, ApplyTime)
  BY <1>1, TimesAssumption DEF Tick, HostRec, Older
<1>4. ASSUME NEW b \in Asks
      PROVE  /\ ask'[b] \in AskRec
             /\ ask'[b].pc = ask[b].pc /\ ask'[b].expects = ask[b].expects
             /\ ask'[b].holds = ask[b].holds /\ ask'[b].claim = ask[b].claim
             /\ ask[b].pc = "push" => ask'[b].age = ask[b].age + 1
                                      /\ ask[b].age < AskTime
  <2>1. ask[b] \in AskRec
    BY <1>1
  <2>2. ask'[b] = IF ask[b].pc \in {"push", "record", "release"}
                  THEN [ask[b] EXCEPT !.age = Older(ask[b].age, AskTime)]
                  ELSE ask[b]
    BY DEF Tick
  <2>3. Older(ask[b].age, AskTime) \in Nat
        /\ (ask[b].age < AskTime => Older(ask[b].age, AskTime) = ask[b].age + 1)
    BY <2>1, TimesAssumption DEF Older, AskRec
  <2>4. ask[b].pc = "push" => ask[b].age < AskTime
    BY DEF Tick
  <2> QED BY <2>1, <2>2, <2>3, <2>4 DEF AskRec
<1>5. push.age \in Nat /\ host.age \in Nat /\ \A b \in Asks : ask[b].age \in Nat
  BY <1>1 DEF PushRec, HostRec, AskRec
<1>6. DTypeOK'
  <2>1. ask' \in [Asks -> AskRec]
    BY <1>4 DEF Tick
  <2> QED BY <1>2, <1>3, <2>1 DEF DTypeOK
<1>7. HoldsOK'
  <2>1. push.holds => Older(push.age, ApplyTime) <= Older(host.age, ApplyTime)
    BY <1>5, TimesAssumption DEF DInv, HoldsOK, Older
  <2> QED BY <1>2, <1>3, <1>4, <2>1 DEF DInv, HoldsOK
<1>8. PushOK'
  <2> SUFFICES ASSUME NEW c \in Asks, ClaimedPush(c)'
               PROVE  /\ push'.is = "claim" /\ push'.age <= ask'[c].age
                      /\ ask'[c].age <= AskTime
                      /\ \A b \in Asks \ {c} :
                           /\ ~ClaimedPush(b)'
                           /\ ask'[b].expects = "current" => ask'[b].pc = "claim"
    BY DEF PushOK
  <2>1. ClaimedPush(c) /\ ask[c].pc = "push"
    BY <1>4 DEF ClaimedPush
  <2>2. push.is = "claim" /\ push.age <= ask[c].age
    BY <2>1 DEF DInv, PushOK
  <2>3. push'.age <= ask[c].age + 1
    BY <1>2, <1>5, <2>2, TimesAssumption DEF Older
  <2>4. ask'[c].age = ask[c].age + 1 /\ ask[c].age + 1 <= AskTime
    BY <1>4, <1>5, <2>1, TimesAssumption
  <2>5. \A b \in Asks \ {c} :
           ~ClaimedPush(b)' /\ (ask'[b].expects = "current" => ask'[b].pc = "claim")
    BY <1>4, <2>1 DEF DInv, PushOK, ClaimedPush
  <2> QED BY <1>2, <2>2, <2>3, <2>4, <2>5
<1>9. CallOK'
  <2>1. push.age >= ClaimTime => Older(push.age, ApplyTime) >= ClaimTime
    BY <1>5, TimesAssumption DEF Older
  <2> QED BY <1>2, <1>4, <2>1 DEF DInv, CallOK
<1> QED BY <1>6, <1>7, <1>8, <1>9 DEF DInv

\* The registry's other operations: the record stays, or it ends.
LEMMA RegistryStepOK ==
    ASSUME DInv, TypeOK', RegistryStep
    PROVE  DInv'
<1>1. CASE liveRecord' = liveRecord
  BY <1>1 DEF RegistryStep, DInv, DTypeOK, HoldsOK, PushOK, CallOK, ClaimedPush
<1>2. CASE liveRecord' # liveRecord
  <2>1. /\ push' = NoPush /\ host' = Booted(liveRecord')
        /\ ask' = [a \in Asks |-> IF ask[a].pc \in Calling THEN Failed
                                   ELSE PushReplaced[a]]
    BY <1>2 DEF RegistryStep
  <2>2. liveRecord' \in Zero
    BY DEF liveRecord, TypeOK, Zero
  <2>3. host' \in HostRec
    BY <2>1, <2>2 DEF Booted, HostRec
  <2>4. ASSUME NEW b \in Asks
        PROVE  /\ ask'[b] \in AskRec /\ ask'[b].expects # "current"
               /\ ~ClaimedPush(b)' /\ ~ask'[b].holds
    <3>1. CASE ask[b].pc \in Calling
      BY <2>1, <3>1, RestIsAsk DEF Failed, NoAsk, ClaimedPush
    <3>2. CASE ask[b].pc \notin Calling
      <4>1. ask'[b] = PushReplaced[b]
        BY <2>1, <3>2
      <4>2. PushReplaced[b] \in AskRec /\ PushReplaced[b].expects # "current"
            /\ PushReplaced[b].pc = ask[b].pc /\ PushReplaced[b].holds = ask[b].holds
        BY PushReplacedOK DEF DInv
      <4> QED BY <3>2, <4>1, <4>2 DEF Calling, ClaimedPush, DInv, HoldsOK
    <3> QED BY <3>1, <3>2
  <2>5. ask' \in [Asks -> AskRec]
    BY <2>1, <2>4
  <2> QED BY <2>1, <2>3, <2>4, <2>5, ForgottenOK
<1> QED BY <1>1, <1>2

-----------------------------------------------------------------------------
(* The theorems.                                                           *)

\* The asks and the host change nothing of the registry but its push fields:
\* the composition is still a tunnel registry, with all that is proved of one.
THEOREM DesktopKeepsRegistry == DesktopSpec => Spec
<1>1. DesktopInit => Init
  BY DEF DesktopInit
<1>2. ASSUME [DesktopNext]_dvars
      PROVE  [Next]_vars
  <2>1. CASE RegistryStep
    BY <2>1 DEF RegistryStep
  <2>2. CASE \E a \in Asks : statusFails(a) \/ Path(a)
    BY <2>2 DEF Path, statusFails, desktopDown, desktopApplied, waitForClaim,
       waitForApply, wantsAdopt, wantsClaim, lacksConfig, asks, claim,
       claimUnanswered, pushStored, pushNotStored, release, recordPush, callLost
  <2>3. CASE Host
    BY <2>3 DEF Host, stageRestart, configExpires, desktopStops, desktopStarts, reboot
  <2>4. CASE Tick
    BY <2>4 DEF Tick
  <2>5. CASE UNCHANGED dvars
    BY <2>5 DEF dvars
  <2> QED BY <1>2, <2>1, <2>2, <2>3, <2>4, <2>5 DEF DesktopNext
<1> QED BY <1>1, <1>2, PTL DEF DesktopSpec, Spec

\* Every step keeps the invariant.
LEMMA StepKeepsDInv ==
    ASSUME DInv, TypeOK, TypeOK', [DesktopNext]_dvars
    PROVE  DInv'
<1>1. CASE RegistryStep
  BY <1>1, RegistryStepOK
<1>2. ASSUME NEW a \in Asks, statusFails(a) \/ Path(a)
      PROVE  DInv'
  BY <1>2, ReadsOK, ClaimOK, ClaimUnansweredOK, PushStoredOK, PushNotStoredOK,
     ReleaseOK, RecordPushOK, CallLostOK DEF Path
<1>3. CASE Host
  BY <1>3, HostConfigOK, DesktopOK, RebootOK DEF Host, stageRestart, configExpires
<1>4. CASE Tick
  BY <1>4, TickOK
<1>5. CASE UNCHANGED dvars
  BY <1>5 DEF dvars, DInv, DTypeOK, HoldsOK, PushOK, CallOK, ClaimedPush
<1> QED BY <1>1, <1>2, <1>3, <1>4, <1>5 DEF DesktopNext

\* The inductive invariant: types, what is taken for held is held, a push runs
\* under a live claim, and what a call compares is what the ask read.
THEOREM DesktopInductive == DesktopSpec => []DInv
<1>1. DesktopInit => DInv
  <2> SUFFICES ASSUME DesktopInit PROVE DInv
    OBVIOUS
  <2>1. DTypeOK
    BY RestIsAsk DEF DesktopInit, DTypeOK, NoPush, PushRec, Booted, HostRec, Zero
  <2>2. \A a \in Asks : ask[a].pc = "idle" /\ ~ask[a].holds
                        /\ ask[a].expects = "none"
    BY DEF DesktopInit, NoAsk
  <2> QED BY <2>1, <2>2 DEF DesktopInit, DInv, HoldsOK, PushOK, CallOK,
             ClaimedPush, NoPush
<1>2. DInv /\ TypeOK /\ TypeOK' /\ [DesktopNext]_dvars => DInv'
  BY StepKeepsDInv
<1>3. DesktopSpec => []TypeOK
  BY DesktopKeepsRegistry, TypeCorrect, PTL
<1> QED BY <1>1, <1>2, <1>3, PTL DEF DesktopSpec

\* Of any number of overlapping asks one pushes: the claim another would need
\* is compared with, and outlives, the push.
THEOREM OnlyOnePushes == DesktopSpec => []OnePush
<1>1. DInv => OnePush
  BY DEF DInv, PushOK, OnePush
<1> QED BY <1>1, DesktopInductive, PTL

-----------------------------------------------------------------------------
(* What a step may do to an ask.                                           *)

\* The ask is where it was.
Unmoved(a) == ask'[a].pc = ask[a].pc /\ ask'[a].claim = ask[a].claim
\* It is somewhere it may always get to.
Plain(a) ==
    \/ ask'[a].pc \in {"idle", "failed", "claim", "adopt", "release", "record"}
    \/ ask'[a].pc = "push" /\ ask'[a].claim \in {"none", "unneeded"}
\* It got there on what the record said.
Granted(a) == ask[a].pc = "claim" /\ expected(a) /\ ask'[a].pc = "push"
Earned(a) == waitForApply(a) /\ push.age >= ApplyTime /\ ask'[a].pc = "unapplied"
Moves(a) == Unmoved(a) \/ Plain(a) \/ Granted(a) \/ Earned(a)

\* What another ask becomes is nothing to this one.
LEMMA BecomesMoves ==
    ASSUME DInv, NEW a \in Asks, NEW b \in Asks, NEW next, Becomes(b, next),
           \/ next.pc \in {"idle", "failed", "claim", "adopt", "release", "record"}
           \/ next.pc = "push" /\ next.claim \in {"none", "unneeded"}
    PROVE  Moves(a)
<1>1. ask'[a] = IF a = b THEN next ELSE ask[a]
  BY DEF Becomes, DInv, DTypeOK
<1> QED BY <1>1 DEF Moves, Unmoved, Plain

\* Nor is a push of the record that another ask replaces.
LEMMA GrantedMoves ==
    ASSUME DInv, NEW a \in Asks, NEW b \in Asks, NEW next,
           ask' = [PushReplaced EXCEPT ![b] = next],
           \/ next.pc \in {"idle", "failed"}
           \/ ask[b].pc = "claim" /\ expected(b) /\ next.pc = "push"
    PROVE  Moves(a)
<1>1. PushReplaced \in [Asks -> AskRec] /\ PushReplaced[a].pc = ask[a].pc
      /\ PushReplaced[a].claim = ask[a].claim
  BY PushReplacedOK DEF DInv
<1>2. ask'[a] = IF a = b THEN next ELSE PushReplaced[a]
  BY <1>1
<1> QED BY <1>1, <1>2 DEF Moves, Unmoved, Plain, Granted

\* The steps that read.
LEMMA ReadsMove ==
    ASSUME DInv, NEW a \in Asks, NEW b \in Asks,
           \/ statusFails(b) \/ desktopDown(b) \/ desktopApplied(b)
           \/ waitForClaim(b) \/ waitForApply(b) \/ wantsAdopt(b) \/ wantsClaim(b)
    PROVE  Moves(a)
<1>1. CASE Becomes(b, Failed) \/ Becomes(b, Answered)
  <2>1. Failed.pc = "failed" /\ Answered.pc = "idle"
    BY DEF Failed, Answered, NoAsk
  <2> QED BY <1>1, <2>1, BecomesMoves
<1>2. ASSUME NEW pc \in {"adopt", "claim", "push"}, NEW c \in {"none", "unneeded"},
             Goes(b, pc, c)
      PROVE  Moves(a)
  <2> DEFINE next == [pc |-> pc, epoch |-> record, claim |-> c, age |-> 0,
                      expects |-> IF push.is = "none" \/ pc = "push" THEN "none"
                                  ELSE "current",
                      holds |-> pc = "adopt"]
  <2>1. Becomes(b, next) /\ next.pc = pc /\ next.claim = c
    BY <1>2 DEF Goes
  <2> HIDE DEF next
  <2> QED BY <2>1, BecomesMoves
<1>3. CASE waitForApply(b)
  <2>1. CASE push.age < ApplyTime
    BY <1>1, <1>3, <2>1 DEF waitForApply
  <2>2. CASE ~(push.age < ApplyTime)
    <3>1. ask'[a] = IF a = b THEN [NoAsk EXCEPT !.pc = "unapplied"] ELSE ask[a]
      BY <1>3, <2>2 DEF waitForApply, Becomes, DInv, DTypeOK
    <3>2. push.age >= ApplyTime
      BY <2>2, TimesAssumption DEF DInv, DTypeOK, PushRec
    <3> QED BY <1>3, <3>1, <3>2 DEF NoAsk, Moves, Unmoved, Earned
  <2> QED BY <2>1, <2>2
<1> QED BY <1>1, <1>2, <1>3 DEF statusFails, desktopDown, desktopApplied,
           waitForClaim, wantsAdopt, wantsClaim

\* The steps that call.
LEMMA CallsMove ==
    ASSUME DInv, NEW a \in Asks, NEW b \in Asks,
           \/ claim(b) \/ claimUnanswered(b) \/ pushStored(b) \/ pushNotStored(b)
           \/ release(b) \/ recordPush(b) \/ callLost(b)
    PROVE  Moves(a)
<1>1. Failed.pc = "failed" /\ Answered.pc = "idle"
  BY DEF Failed, Answered, NoAsk
<1>2. CASE Becomes(b, Failed) \/ Becomes(b, Answered)
  BY <1>1, <1>2, BecomesMoves
<1>3. CASE Becomes(b, Refused(b))
  BY <1>3, RefusedIsAsk, BecomesMoves
<1>4. CASE claim(b)
  <2>1. Pushing(b, "current", "held").pc = "push"
    BY PushingIsAsk
  <2>2. CASE expected(b)
    BY <1>4, <2>1, <2>2, GrantedMoves DEF claim, restartPush
  <2> QED BY <1>2, <1>4, <2>2 DEF claim, restartPush
<1>5. CASE claimUnanswered(b)
  <2>1. CASE expected(b) /\ ask' = [PushReplaced EXCEPT
                              ![b] = Pushing(b, PushReplaced[b].expects, "unknown")]
    <3>1. PushReplaced[b].expects \in {"none", "current", "stale"}
      BY PushReplacedOK DEF DInv, AskRec
    <3>2. Pushing(b, PushReplaced[b].expects, "unknown").pc = "push"
      BY <3>1, PushingIsAsk
    <3> QED BY <1>5, <2>1, <3>2, GrantedMoves DEF claimUnanswered
  <2>2. CASE Becomes(b, Pushing(b, ask[b].expects, "none"))
    <3>1. ask[b].expects \in {"none", "current", "stale"}
      BY DEF DInv, DTypeOK, AskRec
    <3>2. /\ Pushing(b, ask[b].expects, "none").pc = "push"
          /\ Pushing(b, ask[b].expects, "none").claim = "none"
      BY <3>1, PushingIsAsk
    <3> QED BY <2>2, <3>2, BecomesMoves
  <2> QED BY <1>5, <2>1, <2>2 DEF claimUnanswered
<1>6. CASE pushStored(b)
  <2> DEFINE accepted == IF ask[b].claim = "unneeded" THEN Answered
                         ELSE [ask[b] EXCEPT !.pc = "record", !.holds = TRUE,
                                             !.claim = "none"]
  <2>1. PICK next \in {Refused(b), Failed, accepted} :
          ask' = [ConfigReplaced EXCEPT ![b] = next]
    BY <1>6 DEF pushStored
  <2>2. accepted.pc \in {"idle", "record"}
    <3>1. ask[b] \in AskRec
      BY DEF DInv, DTypeOK
    <3> QED BY <1>1, <3>1 DEF AskRec
  <2> HIDE DEF accepted
  <2>3. next.pc \in {"release", "failed", "record", "idle"}
    BY <1>1, <2>2, RefusedIsAsk
  <2>4. ConfigReplaced \in [Asks -> AskRec] /\ ConfigReplaced[a].pc = ask[a].pc
        /\ ConfigReplaced[a].claim = ask[a].claim
    BY ConfigReplacedOK DEF DInv
  <2>5. ask'[a] = IF a = b THEN next ELSE ConfigReplaced[a]
    BY <2>1, <2>4
  <2> QED BY <2>3, <2>4, <2>5 DEF Moves, Unmoved, Plain
<1>7. CASE pushNotStored(b)
  BY <1>2, <1>3, <1>7 DEF pushNotStored
<1>8. CASE release(b)
  BY <1>1, <1>2, <1>8, GrantedMoves DEF release, restartPush
<1>9. CASE recordPush(b)
  BY <1>1, <1>2, <1>9, GrantedMoves DEF recordPush, restartPush
<1>10. CASE callLost(b)
  BY <1>2, <1>10 DEF callLost
<1> QED BY <1>4, <1>5, <1>6, <1>7, <1>8, <1>9, <1>10

\* Every step.
LEMMA StepMoves ==
    ASSUME DInv, [DesktopNext]_dvars, NEW a \in Asks
    PROVE  Moves(a)
<1>1. PushReplaced[a].pc = ask[a].pc /\ PushReplaced[a].claim = ask[a].claim
  BY PushReplacedOK DEF DInv
<1>2. Failed.pc = "failed"
  BY DEF Failed, NoAsk
<1>3. CASE RegistryStep
  <2>1. CASE UNCHANGED ask
    BY <2>1 DEF Moves, Unmoved
  <2>2. CASE ask' = [b \in Asks |-> IF ask[b].pc \in Calling THEN Failed
                                     ELSE PushReplaced[b]]
    BY <1>1, <1>2, <2>2 DEF Moves, Unmoved, Plain
  <2> QED BY <1>3, <2>1, <2>2 DEF RegistryStep
<1>4. ASSUME NEW b \in Asks, statusFails(b) \/ Path(b)
      PROVE  Moves(a)
  BY <1>4, ReadsMove, CallsMove DEF Path
<1>5. CASE Host
  <2>1. CASE ask' = ConfigReplaced
    BY <2>1, ConfigReplacedOK DEF DInv, Moves, Unmoved
  <2>2. CASE UNCHANGED ask
    BY <2>2 DEF Moves, Unmoved
  <2>3. CASE reboot
    <3>1. CASE ask[a].pc \in {"claim", "push", "record"}
      BY <1>2, <2>3, <3>1 DEF reboot, Moves, Plain
    <3>2. CASE ask[a].pc \notin {"claim", "push", "record"}
      <4>1. PushReplaced[a] \in AskRec
        BY PushReplacedOK DEF DInv
      <4>2. ask'[a] = [PushReplaced[a] EXCEPT !.holds = FALSE]
        BY <2>3, <3>2 DEF reboot
      <4> QED BY <1>1, <4>1, <4>2 DEF AskRec, Moves, Unmoved
    <3> QED BY <3>1, <3>2
  <2> QED BY <1>5, <2>1, <2>2, <2>3 DEF Host, stageRestart, configExpires,
             HostConfig, desktopStops, desktopStarts
<1>6. CASE Tick
  <2>1. ask[a] \in AskRec
    BY DEF DInv, DTypeOK
  <2>2. ask'[a] = IF ask[a].pc \in {"push", "record", "release"}
                  THEN [ask[a] EXCEPT !.age = Older(ask[a].age, AskTime)]
                  ELSE ask[a]
    BY <1>6 DEF Tick
  <2> QED BY <2>1, <2>2 DEF AskRec, Moves, Unmoved
<1>7. CASE UNCHANGED dvars
  BY <1>7 DEF dvars, Moves, Unmoved
<1> QED BY <1>3, <1>4, <1>5, <1>6, <1>7 DEF DesktopNext

\* No ask claims another push while the host holds the config the record
\* names, however the claim, the pushes and the records of others overlap.
THEOREM NothingIsPushedAgain == DesktopSpec => NoRepush
<1> DEFINE A == \A a \in Asks :
                  ~ClaimedPush(a) /\ ClaimedPush(a)'
                    => ~(push.is = "config" /\ push.holds)
<1>1. DInv /\ [DesktopNext]_dvars => [A]_dvars
  <2> SUFFICES ASSUME DInv, [DesktopNext]_dvars, NEW a \in Asks,
                      ~ClaimedPush(a), ClaimedPush(a)'
               PROVE  ~(push.is = "config" /\ push.holds)
    OBVIOUS
  <2>1. ask[a].pc = "claim" /\ expected(a)
    BY StepMoves DEF Moves, Unmoved, Plain, Granted, Earned, ClaimedPush
  <2> QED BY <2>1 DEF expected, DInv, CallOK
<1> QED BY <1>1, DesktopInductive, PTL DEF DesktopSpec, NoRepush

\* `aws_desktop_config_unapplied` is never answered for a config the host has
\* held for less than the bound: the record's time follows the store.
THEOREM UnappliedOnlyWhenEarned == DesktopSpec => UnappliedIsEarned
<1> DEFINE A == \A a \in Asks :
                  ask[a].pc # "unapplied" /\ ask'[a].pc = "unapplied"
                    => host.age >= ApplyTime
<1>1. DInv /\ [DesktopNext]_dvars => [A]_dvars
  <2> SUFFICES ASSUME DInv, [DesktopNext]_dvars, NEW a \in Asks,
                      ask[a].pc # "unapplied", ask'[a].pc = "unapplied"
               PROVE  host.age >= ApplyTime
    OBVIOUS
  <2>1. push.holds /\ push.age >= ApplyTime
    BY StepMoves DEF Moves, Unmoved, Plain, Granted, Earned, waitForApply
  <2>2. push.age <= host.age
    BY <2>1 DEF DInv, HoldsOK
  <2>3. push.age \in Nat /\ host.age \in Nat
    BY DEF DInv, DTypeOK, PushRec, HostRec
  <2> QED BY <2>1, <2>2, <2>3, TimesAssumption
<1> QED BY <1>1, DesktopInductive, PTL DEF DesktopSpec, UnappliedIsEarned
=============================================================================
