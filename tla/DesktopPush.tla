---------------------------- MODULE DesktopPush ----------------------------
(***************************************************************************)
(* Opens of an AWS computer's desktop, Code and apps ask, every ~2 s and   *)
(* from several windows, for the host's desktop to run with this epoch's   *)
(* config.  A running desktop takes a config only by restarting, so the    *)
(* asks claim one push between them on the tunnel registry's record        *)
(* (restartPush, a compare-and-set), and wait for that push a bounded      *)
(* time.  Composed with the registry: a claim lives and dies with the      *)
(* record, and is made in turn with the registry's other operations.       *)
(*                                                                         *)
(* Times on the record and expiries of configs are only compared for       *)
(* equality, with the record's present push and with the config the host   *)
(* holds: an ask keeps what it compares as `expects` and `holds`, and a    *)
(* step that replaces the push or the held config says so to every ask.    *)
(***************************************************************************)
EXTENDS TunnelRegistry

CONSTANTS
    Asks,       \* concurrent asks
    AskTime,    \* the mint and the push of an ask end within it (28 s)
    ClaimTime,  \* AWS_DESKTOP_CONFIG_CLAIM_MS (40 s)
    ApplyTime,  \* AWS_DESKTOP_CONFIG_APPLY_MS (150 s)
    MaxFaults   \* bound: calls lost or slow, restarts asked for, expiries, reboots

ASSUME TimesAssumption ==
    /\ AskTime \in Nat /\ ClaimTime \in Nat /\ ApplyTime \in Nat
    /\ AskTime < ClaimTime /\ ClaimTime < ApplyTime
ASSUME FaultsAssumption == MaxFaults \in Nat

VARIABLES
    push,   \* the record's restartPush fields for the host's boot
    host,   \* the host of one lease epoch: its desktop and its config
    ask,    \* the asks in progress
    faults

dvars == <<vars, push, host, ask, faults>>

\* is: "none", a "claim", or a "config" that was pushed; age: since its time;
\* holds: the config it names is the one the host holds.
NoPush == [is |-> "none", age |-> 0, holds |-> FALSE]
Claimed == [is |-> "claim", age |-> 0, holds |-> FALSE]

\* expects: the push the ask read, "none", "current" or "stale" by now.
NoAsk == [pc |-> "idle", epoch |-> 0, expects |-> "none", holds |-> FALSE,
          claim |-> "none", age |-> 0]

\* A host after a boot: the config is kept in a tmpfs.  desktop: "down", or
\* running: "applied" (relay up and Chat configured) or "unapplied".
Booted(e) == [epoch |-> e, desktop |-> "down", configured |-> FALSE, age |-> 0]

DesktopInit ==
    /\ Init
    /\ push = NoPush /\ host = Booted(0)
    /\ ask = [a \in Asks |-> NoAsk] /\ faults = 0

Older(t, bound) == IF t < bound THEN t + 1 ELSE t
Disturb == faults < MaxFaults /\ faults' = faults + 1

\* The asks once the record's push, or the host's config, is another one.
PushReplaced == [a \in Asks |-> IF ask[a].expects = "current"
                                THEN [ask[a] EXCEPT !.expects = "stale"] ELSE ask[a]]
ConfigReplaced == [a \in Asks |-> [ask[a] EXCEPT !.holds = FALSE]]

\* The ask answers `starting` or `applied`; or ends in a coded failure.
Answered == NoAsk
Failed == [NoAsk EXCEPT !.pc = "failed"]
Calling == {"push", "release", "record", "adopt"}
Becomes(a, next) == ask' = [ask EXCEPT ![a] = next]

-----------------------------------------------------------------------------
(* The registry.                                                           *)

\* The record is this epoch's, and still shows the push the ask read.
expected(a) ==
    /\ liveRecord # 0 /\ liveRecord = ask[a].epoch
    /\ \/ ask[a].expects = "current"
       \/ ask[a].expects = "none" /\ push.is = "none"

\* restartPush, in its turn: the fields become `next`, or the call is refused.
restartPush(a, next, granted, refused) ==
    /\ op = Idle
    /\ IF expected(a)
         THEN push' = next /\ ask' = [PushReplaced EXCEPT ![a] = granted]
         ELSE UNCHANGED push /\ Becomes(a, refused)

\* Any other operation of the registry.  A fenced record is never read again,
\* so its fields and its host end with the fence, and so do the asks: of the
\* calls they have left only a claim could still meet the next record, whose
\* host is another machine.
RegistryStep ==
    /\ Next
    /\ IF liveRecord' = liveRecord THEN UNCHANGED <<push, host, ask>>
       ELSE /\ push' = NoPush /\ host' = Booted(liveRecord')
            /\ ask' = [a \in Asks |-> IF ask[a].pc \in Calling THEN Failed
                                       ELSE PushReplaced[a]]
    /\ UNCHANGED faults

-----------------------------------------------------------------------------
(* An ask reads the record and the host's status, then takes one of its    *)
(* paths.  (What the record loses between the two reads, the compare of    *)
(* the call that follows refuses: they are one step here.)                 *)

reachable(e) == e # 0 /\ host.epoch = e /\ e \in tunnels \cap cnames

asks(a) ==
    /\ ask[a].pc \in {"idle", "failed", "unapplied"}
    /\ op = Idle /\ liveRecord # 0 /\ verified
    /\ UNCHANGED <<vars, push, host, faults>>

\* The status cannot be read, or says the desktop's restarts are exhausted.
statusFails(a) == asks(a) /\ Becomes(a, Failed)

\* Goes on with what it read.
Goes(a, pc, claim) ==
    Becomes(a, [pc |-> pc, epoch |-> record, claim |-> claim, age |-> 0,
                expects |-> IF push.is = "none" \/ pc = "push" THEN "none" ELSE "current",
                holds |-> pc = "adopt"])

\* The desktop is down: one without a usable config, stalled, or waiting for
\* Chat's config is pushed to without a claim, as nothing running is restarted.
desktopDown(a) ==
    /\ asks(a) /\ reachable(record) /\ host.desktop = "down"
    /\ \/ Goes(a, "push", "unneeded")
       \/ host.configured /\ Becomes(a, Answered)

desktopApplied(a) ==
    /\ asks(a) /\ reachable(record) /\ host.desktop = "applied"
    /\ Becomes(a, Answered)

\* The desktop runs without the config.
lacksConfig(a) == asks(a) /\ reachable(record) /\ host.desktop = "unapplied"
recorded == push.is = "config" /\ host.configured

waitForClaim(a) ==
    /\ lacksConfig(a) /\ push.is = "claim" /\ push.age < ClaimTime
    /\ Becomes(a, Answered)

\* Mutant: a config that is never applied is waited for without a bound.
WaitsOn(a) == lacksConfig(a) /\ recorded /\ push.holds /\ Becomes(a, Answered)

waitForApply(a) ==
    /\ lacksConfig(a) /\ recorded /\ push.holds
    /\ Becomes(a, IF push.age < ApplyTime THEN Answered
                  ELSE [NoAsk EXCEPT !.pc = "unapplied"])

wantsAdopt(a) == lacksConfig(a) /\ recorded /\ ~push.holds /\ Goes(a, "adopt", "none")

wantsClaim(a) ==
    /\ lacksConfig(a) /\ ~recorded
    /\ push.is = "claim" => push.age >= ClaimTime
    /\ Goes(a, "claim", "none")

-----------------------------------------------------------------------------
(* The claim, the push, and what is recorded of it.                        *)

Pushing(a, expects, claim) ==
    [ask[a] EXCEPT !.pc = "push", !.age = 0, !.expects = expects, !.claim = claim]

\* Mutant: the claim does not compare.
ClaimsAnyway(a) ==
    /\ ask[a].pc = "claim" /\ op = Idle
    /\ push' = Claimed
    /\ ask' = [PushReplaced EXCEPT ![a] = Pushing(a, "current", "held")]
    /\ UNCHANGED <<vars, host, faults>>

\* Granted, or refused: another ask got there first.
claim(a) ==
    /\ ask[a].pc = "claim"
    /\ restartPush(a, Claimed, Pushing(a, "current", "held"), Answered)
    /\ UNCHANGED <<vars, host, faults>>

\* The registry does not answer the claim, made or not: push all the same.
claimUnanswered(a) ==
    /\ ask[a].pc = "claim" /\ Disturb
    /\ \/ /\ op = Idle /\ expected(a) /\ push' = Claimed
          /\ ask' = [PushReplaced EXCEPT
                       ![a] = Pushing(a, PushReplaced[a].expects, "unknown")]
       \/ UNCHANGED push /\ Becomes(a, Pushing(a, ask[a].expects, "none"))
    /\ UNCHANGED <<vars, host>>

\* A failed mint or a refused push: a claim that was answered is released.
Refused(a) == IF ask[a].claim = "held" THEN [ask[a] EXCEPT !.pc = "release"] ELSE Failed

\* The host stores the config, and accepts it; or refuses it (restarts
\* exhausted, an unreadable answer); or its answer is lost.
pushStored(a) ==
    /\ ask[a].pc = "push" /\ reachable(ask[a].epoch)
    /\ host' = [host EXCEPT !.configured = TRUE, !.age = 0]
    /\ push' = [push EXCEPT !.holds = FALSE]
    /\ \E next \in {Refused(a), Failed,
                    IF ask[a].claim = "unneeded" THEN Answered
                    ELSE [ask[a] EXCEPT !.pc = "record", !.holds = TRUE, !.claim = "none"]} :
         ask' = [ConfigReplaced EXCEPT ![a] = next]
    /\ UNCHANGED <<vars, faults>>

\* Not minted, or refused before it is stored; or given up.
pushNotStored(a) ==
    /\ ask[a].pc = "push"
    /\ Becomes(a, Refused(a)) \/ Becomes(a, Failed)
    /\ UNCHANGED <<vars, push, host, faults>>

\* Mutant: the release does not compare.
ReleasesAnyway(a) ==
    /\ ask[a].pc = "release" /\ op = Idle
    /\ push' = NoPush /\ ask' = [PushReplaced EXCEPT ![a] = Failed]
    /\ UNCHANGED <<vars, host, faults>>

release(a) ==
    /\ ask[a].pc = "release"
    /\ restartPush(a, NoPush, Failed, Failed)
    /\ UNCHANGED <<vars, host, faults>>

\* The pushed config, or one found held in its place, is recorded with the
\* time of the call; a refusal costs nothing.
Recorded(a) == [is |-> "config", age |-> 0, holds |-> ask[a].holds]

\* Mutant: a config adopted keeps the time of the push before it.
AdoptsWithAge(a) ==
    /\ ask[a].pc \in {"record", "adopt"}
    /\ restartPush(a, [Recorded(a) EXCEPT !.age = push.age], Answered, Answered)
    /\ UNCHANGED <<vars, host, faults>>

recordPush(a) ==
    /\ ask[a].pc \in {"record", "adopt"}
    /\ restartPush(a, Recorded(a), Answered, Answered)
    /\ UNCHANGED <<vars, host, faults>>

\* A release or a record that never reaches the registry is dropped.
callLost(a) ==
    /\ ask[a].pc \in {"release", "record", "adopt"} /\ Disturb
    /\ Becomes(a, IF ask[a].pc = "release" THEN Failed ELSE Answered)
    /\ UNCHANGED <<vars, push, host>>

Path(a) ==
    \/ desktopDown(a) \/ desktopApplied(a)
    \/ waitForClaim(a) \/ waitForApply(a) \/ wantsAdopt(a) \/ wantsClaim(a)
    \/ claim(a) \/ claimUnanswered(a) \/ pushStored(a) \/ pushNotStored(a)
    \/ release(a) \/ recordPush(a) \/ callLost(a)

-----------------------------------------------------------------------------
(* The host.                                                               *)

HostConfig(c) ==
    /\ host' = [host EXCEPT !.configured = c, !.age = 0]
    /\ push' = [push EXCEPT !.holds = FALSE] /\ ask' = ConfigReplaced

\* The Restart route stages a config of its own, then asks for the restart; or
\* a push that was given up reaches the host all the same.
stageRestart ==
    /\ Disturb
    /\ liveRecord # 0 /\ verified /\ reachable(record)
    /\ HostConfig(TRUE)
    /\ UNCHANGED vars

\* A config is fresh for longer than the time it has to be applied.  (That no
\* ask comes in between is a fault: they come every ~2 s.)
configExpires ==
    /\ host.configured /\ host.age >= ApplyTime /\ Disturb
    /\ HostConfig(FALSE)
    /\ UNCHANGED vars

\* The agent stops the desktop to restart it, or it exits.
desktopStops ==
    /\ host.desktop # "down"
    /\ host' = [host EXCEPT !.desktop = "down"]
    /\ UNCHANGED <<vars, push, ask, faults>>

\* It starts, with the held config or (its wait for one over) without.
desktopStarts ==
    /\ host.epoch # 0 /\ host.desktop = "down"
    /\ \E d \in {"unapplied"} \cup IF host.configured THEN {"applied"} ELSE {} :
         host' = [host EXCEPT !.desktop = d]
    /\ UNCHANGED <<vars, push, ask, faults>>

\* Another boot: the record's push is an earlier boot's, which counts as none,
\* and the host comes back only after an ask's claim and push have ended.
reboot ==
    /\ host.epoch # 0 /\ Disturb
    /\ host' = Booted(host.epoch) /\ push' = NoPush
    /\ ask' = [a \in Asks |-> IF ask[a].pc \in {"claim", "push", "record"}
                              THEN Failed
                              ELSE [PushReplaced[a] EXCEPT !.holds = FALSE]]
    /\ UNCHANGED vars

Host == stageRestart \/ configExpires \/ desktopStops \/ desktopStarts \/ reboot

\* Time.  An ask pushes within AskTime of its claim; a call to the registry
\* that takes as long is a fault.
Slow == \E a \in Asks : ask[a].pc \in {"record", "release"} /\ ask[a].age >= AskTime
Tick ==
    /\ \A a \in Asks : ask[a].pc = "push" => ask[a].age < AskTime
    /\ IF Slow THEN Disturb ELSE UNCHANGED faults
    /\ push' = IF push.is = "none" THEN push
               ELSE [push EXCEPT !.age = Older(@, ApplyTime)]
    /\ host' = IF host.configured THEN [host EXCEPT !.age = Older(@, ApplyTime)]
               ELSE host
    /\ ask' = [a \in Asks |->
                 IF ask[a].pc \in {"push", "record", "release"}
                 THEN [ask[a] EXCEPT !.age = Older(@, AskTime)] ELSE ask[a]]
    /\ UNCHANGED vars

DesktopNext ==
    \/ RegistryStep
    \/ \E a \in Asks : statusFails(a) \/ Path(a)
    \/ Host \/ Tick

DesktopSpec == DesktopInit /\ [][DesktopNext]_dvars

\* The queue is first in, first out, so a call gets its turn however often the
\* registry is busy; the windows keep asking, and no status has to fail; time
\* passes.
FairDesktopSpec ==
    /\ DesktopSpec
    /\ \A a \in Asks : SF_dvars(Path(a))
    /\ WF_dvars(Tick) /\ WF_dvars(RegistryStep /\ Step)

-----------------------------------------------------------------------------
\* Overlapping asks push once between them: no two push under a claim at a
\* time, whatever is lost or slow on the way (restartPush).
ClaimedPush(a) == ask[a].pc = "push" /\ ask[a].claim \in {"held", "unknown"}
OnePush ==
    \A a, b \in Asks :
        ClaimedPush(a) /\ ClaimedPush(b) /\ ask[a].epoch = ask[b].epoch => a = b

\* No ask claims another push while the host holds the config the record
\* names: the desktop is not restarted again for what it was given.
NoRepush ==
    [][\A a \in Asks :
         ~ClaimedPush(a) /\ ClaimedPush(a)' => ~(push.is = "config" /\ push.holds)]_dvars

\* `aws_desktop_config_unapplied` is answered only once the host has had the
\* config it holds for the whole bound.
UnappliedIsEarned ==
    [][\A a \in Asks :
         ask[a].pc # "unapplied" /\ ask'[a].pc = "unapplied"
           => host.age >= ApplyTime]_dvars

\* A desktop that keeps running without its config is never an endless
\* `starting`: some ask ends in a coded failure, again and again.
Stuck == host.desktop = "unapplied" /\ verified /\ liveRecord # 0
NeverEndlessStarting ==
    []<>(~Stuck \/ \E a \in Asks : ask[a].pc \in {"failed", "unapplied"})
=============================================================================
