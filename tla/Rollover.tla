------------------------------ MODULE Rollover ------------------------------
(***************************************************************************)
(* One zone through its key rollovers: the signer process (signing cycle,  *)
(* rollover checks, publication confirmation), the operator's rollover     *)
(* commands, the authoritative servers that pick the signed zone up, the   *)
(* registrar and the parent's servers, and every answer a validating       *)
(* resolver may still have in its cache.                                   *)
(*                                                                         *)
(* The state lock serialises everything that changes the zone record, so   *)
(* an action is one locked operation.  A probe of several servers is the   *)
(* exception: the lock is held, the clock and the servers are not, so a    *)
(* probe is a sequence of steps ("probe" # NoProbe is "the lock is held"). *)
(***************************************************************************)
EXTENDS Zone, FiniteSets

CONSTANTS
  Servers, Parents,    \* authoritative servers of the zone, of its parent
  Mode,                \* PublicationMode: "immediate", "hook" or "probe"
  AutoPublish,         \* the zone's registrar has auto_publish
  DSMayBeLost,         \* a registrar update may clear the DS set, then fail
  PushEarly,           \* `registrar push` is run before `status` allows it
  Commands,            \* the rollovers the operator starts: "ksk", "algorithm"
  DnskeyTTLs, RrsigTTLs,   \* TTLs the unsigned zone may have at a signing
  ParentTTL,           \* TTL of the DS RRset at the parent
  ParentDSTTL,         \* [dnssec] parent_ds_ttl, assumed by --force
  ZSKLifetime, Prepublish, Switch,
  ProbeSpan,           \* clock ticks a probe may last
  MaxTime, MaxGen, MaxKeys, MaxFaults   \* bounds of the model

ASSUME RolloverAssumption ==
  /\ Mode \in {"immediate", "hook", "probe"}
  /\ {AutoPublish, DSMayBeLost, PushEarly} \subseteq BOOLEAN
  /\ Commands \subseteq {"ksk", "algorithm"}
  /\ DnskeyTTLs \subseteq Nat \ {0} /\ RrsigTTLs \subseteq Nat \ {0}
  /\ ParentTTL \in Nat \ {0} /\ ParentDSTTL \in Nat \ {0}
  /\ {ZSKLifetime, Prepublish, ProbeSpan} \subseteq Nat
  /\ Switch \in 1 .. Prepublish - 1
  /\ {MaxTime, MaxGen, MaxKeys, MaxFaults} \subseteq Nat

VARIABLES
  now,      \* the clock
  z,        \* the zone record in the signer's memory
  disk,     \* the zone record in state.json
  minted,   \* key tags handed out so far
  output,   \* the signed zone last written
  served,   \* the generation each authoritative server serves
  left,     \* generations no longer served, and when they stopped being so
  hooks,    \* generations a running post-sign hook deploys
  regDS,    \* DS set held by the registrar
  parent,   \* DS set each parent server serves
  dsLeft,   \* DS sets no longer served, and when they stopped being so
  probe,    \* the running probe
  faults    \* failed saves and crashes so far

vars == <<now, z, disk, minted, output, served, left, hooks,
          regDS, parent, dsLeft, probe, faults>>
zone == <<z, disk, faults>>
deployment == <<output, served, left, hooks>>
delegation == <<parent, dsLeft>>

Generation == [n : Nat, keys : [ksk : SUBSET Key, zsk : SUBSET Key, sig : SUBSET Key],
               dnskeyTTL : Nat, rrsigTTL : Nat]
Probe == [kind : {"none", "publication", "new_ds", "old_ds"}, at : Nat,
          seen : SUBSET (Servers \cup Parents)]
NoProbe == [kind |-> "none", at |-> 0, seen |-> {}]

-----------------------------------------------------------------------------
(* A zone that has been added, signed and confirmed, with its DS at the    *)
(* parent.                                                                 *)

FirstKSK == [id |-> 1, alg |-> 1]
FirstZSK == [id |-> 2, alg |-> 1]

AddedZone ==
  [KSK |-> FirstKSK, ZSK |-> FirstZSK, ZSKExpires |-> 1 + ZSKLifetime,
   Rollover |-> NoRollover, ForceResign |-> FALSE,
   LastSigned |-> 0, PendingPublication |-> FALSE,
   PublishedGeneration |-> 0, PublishedAt |-> 0,
   PublishedDNSKEYTTL |-> 0, PublishedMaxRRSIGTTL |-> 0,
   ServedDNSKEYTTL |-> 0, ServedMaxRRSIGTTL |-> 0,
   DNSKEYCacheHorizon |-> 0, RRSIGCacheHorizon |-> 0]

Init ==
  /\ now = 1
  /\ \E d \in DnskeyTTLs, s \in RrsigTTLs :
       /\ z = ConfirmPublication(RecordSigned(AddedZone, 1, d, s, FALSE, 1), 1, 1)
       /\ output = [n |-> 1, keys |-> loadKeysForSigning(AddedZone),
                    dnskeyTTL |-> d, rrsigTTL |-> s]
  /\ disk = z
  /\ minted = 2
  /\ served = [s \in Servers |-> output]
  /\ left = {} /\ dsLeft = {}
  /\ hooks = {}
  /\ regDS = {FirstKSK}
  /\ parent = [p \in Parents |-> regDS]
  /\ probe = NoProbe
  /\ faults = 0

-----------------------------------------------------------------------------
(* Saving.  A save that does not commit leaves memory ahead of the disk.   *)

Unlocked == probe = NoProbe
Here == [at |-> now, gen |-> output.n]     \* time.Now()

Commit(new) ==
  /\ z' = new
  /\ disk' = IF new = z THEN disk ELSE new     \* no change, no save
  /\ UNCHANGED faults

SaveFails(new, onDisk) ==
  /\ faults < MaxFaults
  /\ new # onDisk /\ new # z
  /\ z' = new /\ disk' = onDisk /\ faults' = faults + 1

SaveOver(new, onDisk) == Commit(new) \/ SaveFails(new, onDisk)
Save(new) == SaveOver(new, disk)

(* The disk after a first save within an operation has stored "mid".       *)
DiskAfter(mid) == IF mid = z THEN disk ELSE mid

(* The save at the end of every signing cycle.                             *)
SaveCycle ==
  /\ Unlocked /\ disk # z
  /\ disk' = z
  /\ UNCHANGED <<now, z, faults, minted, deployment, regDS, delegation, probe>>

(* The process stops, at any point, and another one loads the disk.  When  *)
(* memory is ahead of the disk this ends the fault that put it there: one  *)
(* crash between a write of the output or the registrar and the save that  *)
(* records it is one fault.                                                *)
Restart ==
  /\ \/ disk # z /\ faults' = faults
     \/ disk = z /\ faults < MaxFaults /\ faults' = faults + 1
  /\ z' = disk /\ disk' = disk
  /\ hooks' = {} /\ probe' = NoProbe
  /\ UNCHANGED <<now, minted, output, served, left, regDS, delegation>>

-----------------------------------------------------------------------------
(* Signing and publication.                                                *)

StopServing(gens) ==
  {l \in left : l.gen \notin gens} \cup {[gen |-> g, at |-> now] : g \in gens}

(* writeSignedZone.  In immediate mode the servers read the file itself.   *)
WriteOutput(zs, d, s) ==
  /\ output.n < MaxGen
  /\ output' = [n |-> output.n + 1, keys |-> loadKeysForSigning(zs),
                dnskeyTTL |-> d, rrsigTTL |-> s]
  /\ IF Mode = "immediate"
     THEN /\ served' = [x \in Servers |-> output']
          /\ left' = StopServing({served[x] : x \in Servers})
     ELSE UNCHANGED <<served, left>>

Signed(zs, d, s) ==
  RecordSigned(zs, output.n + 1, d, s, Mode = "immediate", now)

(* A signing cycle signs the zone: because the key set changed (NeedsSign), *)
(* the source was edited, signatures are due, or on `sign` and `resign`.   *)
(* The file is in place before the cycle's save: SaveFails is also the     *)
(* state between the two, in which the process may end (Restart).          *)
SignZone ==
  /\ Unlocked
  /\ \E d \in DnskeyTTLs, s \in RrsigTTLs :
       WriteOutput(z, d, s) /\ Save(Signed(z, d, s))
  /\ UNCHANGED <<now, minted, hooks, regDS, delegation, probe>>

(* What a rollover command does after its own transition to zs: SignZone   *)
(* and persistState.  The signing may fail, and so may the second save;    *)
(* the process then ends with zs on disk.                                  *)
SignAfter(zs) ==
  \/ \E d \in DnskeyTTLs, s \in RrsigTTLs :
       /\ WriteOutput(zs, d, s)
       /\ \/ Commit(Signed(zs, d, s))
          \/ faults < MaxFaults /\ faults' = faults + 1 /\ z' = zs /\ disk' = zs
  \/ Commit(zs) /\ UNCHANGED <<output, served, left>>

(* A server loads or transfers the signed zone.                            *)
Transfer(x) ==
  /\ served[x] # output
  /\ served' = [served EXCEPT ![x] = output]
  /\ left' = StopServing({served[x]})
  /\ UNCHANGED <<now, zone, minted, output, hooks, regDS, delegation, probe>>

(* The generation to deploy in this cycle: just signed, deferred, or never *)
(* confirmed.  One that is being deployed is not started again.            *)
ToDeploy == Mode = "hook" /\ z.PendingPublication /\ z.LastSigned \notin hooks

(* Its hook is launched once the state that describes it is on disk; the   *)
(* hook of an earlier generation may still be running.                     *)
LaunchHook ==
  /\ Unlocked /\ ToDeploy
  /\ disk = z
  /\ hooks' = hooks \cup {z.LastSigned}
  /\ UNCHANGED <<now, zone, minted, output, served, left, regDS, delegation, probe>>

(* Mutant of HookSucceeds: any completion confirms the latest generation.  *)
HookConfirmsLatest(g) ==
  /\ Unlocked /\ g \in hooks
  /\ \A x \in Servers : served[x].n >= g
  /\ Save(ConfirmPublication(z, z.LastSigned, now))
  /\ hooks' = hooks \ {g}
  /\ UNCHANGED <<now, minted, output, served, left, regDS, delegation, probe>>

(* recordHookResult: the hook succeeded, so every server serves what it    *)
(* deployed (or something newer).  A completion for a superseded           *)
(* generation, or one already confirmed, is discarded.                     *)
HookSucceeds(g) ==
  /\ Unlocked /\ g \in hooks
  /\ \A x \in Servers : served[x].n >= g
  /\ Save(IF z.LastSigned = g /\ z.PendingPublication
          THEN ConfirmPublication(z, g, now) ELSE z)
  /\ hooks' = hooks \ {g}
  /\ UNCHANGED <<now, minted, output, served, left, regDS, delegation, probe>>

HookFails(g) ==
  /\ g \in hooks
  /\ hooks' = hooks \ {g}
  /\ UNCHANGED <<now, zone, minted, output, served, left, regDS, delegation, probe>>

-----------------------------------------------------------------------------
(* Probes.  The clock is read before the first query.                      *)

BeginProbe(kind) == probe' = [kind |-> kind, at |-> now, seen |-> {}]
Answered(who) == probe' = [probe EXCEPT !.seen = @ \cup {who}]

(* A server that does not answer, or answers "not yet".                    *)
ProbeFails ==
  /\ ~ Unlocked
  /\ probe' = NoProbe
  /\ UNCHANGED <<now, zone, minted, deployment, regDS, delegation>>

(* probePendingPublications: every server must serve the published serial. *)
ProbePublication ==
  /\ Unlocked /\ Mode = "probe" /\ z.PendingPublication
  /\ BeginProbe("publication")
  /\ UNCHANGED <<now, zone, minted, deployment, regDS, delegation>>

ProbePublishedSerial(x) ==
  /\ probe.kind = "publication"
  /\ served[x].n = z.LastSigned
  /\ Answered(x)
  /\ UNCHANGED <<now, zone, minted, deployment, regDS, delegation>>

(* Mutant of PublicationConfirmed: one server's answer is enough.          *)
ConfirmedByOne ==
  /\ probe.kind = "publication" /\ probe.seen # {}
  /\ Save(ConfirmPublication(z, z.LastSigned, probe.at))
  /\ probe' = NoProbe
  /\ UNCHANGED <<now, minted, deployment, regDS, delegation>>

PublicationConfirmed ==
  /\ probe.kind = "publication" /\ probe.seen = Servers
  /\ Save(ConfirmPublication(z, z.LastSigned, probe.at))
  /\ probe' = NoProbe
  /\ UNCHANGED <<now, minted, deployment, regDS, delegation>>

(* ProbeParentDS: the new DS present, or the old DS absent, on every       *)
(* server of the parent.                                                   *)
ProbeParentDS(p) ==
  /\ \/ probe.kind = "new_ds" /\ z.KSK \in parent[p]
     \/ probe.kind = "old_ds" /\ z.Rollover.old \notin parent[p]
  /\ Answered(p)
  /\ UNCHANGED <<now, zone, minted, deployment, regDS, delegation>>

-----------------------------------------------------------------------------
(* The operator's rollover commands.  Each starts from the record on disk; *)
(* what happens when the signer holds unsaved changes is the subject of    *)
(* the state merge, not of this module.  A command ends by running the     *)
(* deployment hook and, if that succeeds and the registrar is automated,   *)
(* by publishing the DS set; both may fail, and are the actions LaunchHook *)
(* and PublishDSSet.                                                       *)

CommandReady == Unlocked /\ disk = z

KSKStarted(zs, new) ==
  [zs EXCEPT !.Rollover = [NoRollover EXCEPT !.type = "ksk", !.State = "ds_add_wait",
                                             !.old = zs.KSK, !.new = new,
                                             !.Started = Here],
             !.KSK = new,
             !.ForceResign = TRUE]

(* `rollover start`                                                        *)
StartKSKRollover ==
  /\ CommandReady /\ "ksk" \in Commands
  /\ z.Rollover.type = "none"
  /\ minted < MaxKeys
  /\ SignAfter(KSKStarted(z, [id |-> minted + 1, alg |-> z.KSK.alg]))
  /\ minted' = minted + 1
  /\ UNCHANGED <<now, hooks, regDS, delegation, probe>>

AlgorithmStarted(zs, newKSK, newZSK) ==
  [zs EXCEPT !.Rollover = [NoRollover EXCEPT
                             !.type = "algorithm", !.State = "algo_ds_add_wait",
                             !.old = zs.KSK, !.new = newKSK,
                             !.oldZSK = zs.ZSK, !.newZSK = newZSK,
                             !.Started = Here],
             !.KSK = newKSK, !.ZSK = newZSK, !.ZSKExpires = now + ZSKLifetime,
             !.ForceResign = TRUE]

(* `rollover algorithm`, to another algorithm                              *)
StartAlgorithmRollover ==
  /\ CommandReady /\ "algorithm" \in Commands
  /\ z.Rollover.type = "none"
  /\ minted + 1 < MaxKeys
  /\ LET target == z.KSK.alg + 1
     IN  SignAfter(AlgorithmStarted(z, [id |-> minted + 1, alg |-> target],
                                       [id |-> minted + 2, alg |-> target]))
  /\ minted' = minted + 2
  /\ UNCHANGED <<now, hooks, regDS, delegation, probe>>

AddWait == {"ds_add_wait", "algo_ds_add_wait"}

(* CompleteKSKRollover and CompleteAlgorithmRollover, which differ in the  *)
(* name of the phase they enter.                                           *)
DSObserved(zs, at, ttl) ==
  LET next == IF zs.Rollover.type = "ksk" THEN "ds_propagation_wait"
                                          ELSE "algo_ds_propagation_wait"
  IN  [stampNewKeyPropagation(zs) EXCEPT
         !.Rollover.State = next,
         !.Rollover.DSObservedAt = at,
         !.Rollover.ParentDSTTL = ttl,
         !.Rollover.PhaseStarted = Here]

(* `rollover complete` asks every parent server for the new DS.            *)
RolloverComplete ==
  /\ CommandReady
  /\ z.Rollover.State \in AddWait
  /\ BeginProbe("new_ds")
  /\ UNCHANGED <<now, zone, minted, deployment, regDS, delegation>>

NewDSPresent ==
  /\ probe.kind = "new_ds" /\ probe.seen = Parents
  /\ z.Rollover.State \in AddWait
  /\ SignAfter(DSObserved(z, probe.at, ParentTTL))
  /\ probe' = NoProbe
  /\ UNCHANGED <<now, minted, hooks, regDS, delegation>>

(* `rollover complete --force`: the code asks nobody.  That the new DS is  *)
(* at every parent server is what the operator has verified another way.   *)
ForceComplete ==
  /\ CommandReady
  /\ z.Rollover.State \in AddWait
  /\ \A p \in Parents : z.KSK \in parent[p]
  /\ SignAfter(DSObserved(z, now, ParentDSTTL))
  /\ UNCHANGED <<now, minted, hooks, regDS, delegation, probe>>

-----------------------------------------------------------------------------
(* The automatic ZSK rollover (CheckZSKRollover).                          *)

CheckZSK == Unlocked /\ UNCHANGED <<now, deployment, regDS, delegation, probe>>

ZSKStarted(zs, new) ==
  [zs EXCEPT !.Rollover = [NoRollover EXCEPT !.type = "zsk", !.State = "pre_publish",
                                             !.old = zs.ZSK, !.new = new,
                                             !.Started = Here],
             !.ForceResign = TRUE]

StartZSKRollover ==
  /\ CheckZSK
  /\ z.Rollover.type = "none"
  /\ now + Prepublish >= z.ZSKExpires
  /\ minted < MaxKeys
  /\ minted' = minted + 1
  /\ \/ Commit(ZSKStarted(z, [id |-> minted + 1, alg |-> z.ZSK.alg]))
     \/ \* the save failed: the record is dropped again
        /\ faults < MaxFaults /\ faults' = faults + 1
        /\ z' = [z EXCEPT !.ForceResign = FALSE] /\ disk' = disk

(* The phase's stamp is saved first, and the phase waits until that time.  *)
ZSKPhaseWait(stamped) ==
  \/ now < stamped.Rollover.PhaseHorizon /\ Save(stamped)
  \/ stamped # z /\ SaveFails(stamped, disk)

(* Mutant of ZSKSwitched: the record of the live ZSK is left alone.        *)
ZSKNotSwitched(zs) ==
  [zs EXCEPT !.Rollover.State = "signing",
             !.Rollover.PhaseStarted = Here,
             !.Rollover.PhaseHorizon = 0,
             !.ForceResign = TRUE]

ZSKSwitched(zs) ==
  [zs EXCEPT !.Rollover.State = "signing",
             !.Rollover.PhaseStarted = Here,
             !.Rollover.PhaseHorizon = 0,
             !.ZSK = zs.Rollover.new,
             !.ZSKExpires = zs.Rollover.Started.at + ZSKLifetime,
             !.ForceResign = TRUE]

ZSKPrePublish ==
  LET r == z.Rollover
      stamped == stampPhasePublication(z, dnskeyTTLFloor(z), z.DNSKEYCacheHorizon)
  IN  /\ CheckZSK /\ UNCHANGED minted
      /\ r.type = "zsk" /\ r.State = "pre_publish"
      /\ now - r.Started.at >= Switch
      /\ PublishedSince(z, r.Started)
      /\ \/ ZSKPhaseWait(stamped)
         \/ /\ now >= stamped.Rollover.PhaseHorizon
            /\ SaveOver(ZSKSwitched(stamped), DiskAfter(stamped))

SigningDwell == IF Prepublish - Switch > 0 THEN Prepublish - Switch ELSE Switch

(* Mutant of ZSKCompleted: the record stays, in a phase of its own.        *)
ZSKRetired(zs) == [zs EXCEPT !.Rollover.State = "retired", !.ForceResign = TRUE]

(* Mutant of ZSKCompleted: no signing is asked for.                        *)
ZSKForgotten(zs) == [zs EXCEPT !.Rollover = NoRollover]

(* The next signing drops the old ZSK.                                     *)
ZSKCompleted(zs) == [zs EXCEPT !.Rollover = NoRollover, !.ForceResign = TRUE]

ZSKSigning ==
  LET r == z.Rollover
      stamped == stampPhasePublication(z, zskRetireFloor(z),
                   Later(z.DNSKEYCacheHorizon, z.RRSIGCacheHorizon))
  IN  /\ CheckZSK /\ UNCHANGED minted
      /\ r.type = "zsk" /\ r.State = "signing"
      /\ now - r.PhaseStarted.at >= SigningDwell
      /\ PublishedSince(z, r.PhaseStarted)
      /\ \/ ZSKPhaseWait(stamped)
         \/ /\ now >= stamped.Rollover.PhaseHorizon
            /\ SaveOver(ZSKCompleted(stamped), DiskAfter(stamped))

-----------------------------------------------------------------------------
(* The automatic phases of a KSK rollover (CheckKSKRollover).              *)

(* pushOldDSRemoval on zs: the possible outcomes.  "settled": nothing more *)
(* is owed to the parent.  A registrar update that fails is retried by the *)
(* next check; it may have added the wanted record before it failed, or    *)
(* have cleared the DS set without restoring it.                           *)
OldDSRemoval(zs) ==
  LET r == zs.Rollover
      want == BuildDSSet(zs, now)
      done(settled, ds) == [z |-> zs, settled |-> settled, ds |-> ds]
      pushed == [z |-> [zs EXCEPT !.Rollover.DSRemovalPushed = TRUE],
                 settled |-> TRUE, ds |-> want]
  IN  IF r.DSRemovalPushed THEN {done(TRUE, regDS)}
      ELSE IF ~ newKeysPropagated(zs, now) THEN {done(FALSE, regDS)}
      ELSE IF ~ AutoPublish THEN {done(TRUE, regDS)}
      ELSE {pushed, done(FALSE, regDS), done(FALSE, regDS \cup want)}
             \cup (IF DSMayBeLost THEN {done(FALSE, {})} ELSE {})

(* The update succeeded and could not be recorded: the check ends there.   *)
RemovalUnsaved(zs) ==
  \E o \in OldDSRemoval(zs) :
    /\ o.z # zs /\ SaveFails(o.z, DiskAfter(zs))
    /\ regDS' = o.ds

CheckKSK(State) ==
  /\ Unlocked
  /\ z.Rollover.type = "ksk" /\ z.Rollover.State = State
  /\ UNCHANGED <<now, minted, deployment, delegation, probe>>

(* The stamp of the new key's propagation is saved before anything else.   *)
StampFails == LET stamped == stampNewKeyPropagation(z)
              IN  stamped # z /\ SaveFails(stamped, disk) /\ UNCHANGED regDS

KSKDSAddWait ==
  /\ CheckKSK("ds_add_wait")
  /\ Save(stampNewKeyPropagation(z))
  /\ UNCHANGED regDS

EnterPhase(zs, State) ==
  [zs EXCEPT !.Rollover.State = State, !.Rollover.PhaseStarted = Here]

(* Mutant of Retire: the phase is named as if no rollover were running.    *)
RetireToActive(zs, State) ==
  [EnterPhase(zs, "active") EXCEPT !.ForceResign = TRUE]

(* The next signing drops the old key or keys.                             *)
Retire(zs, State) == [EnterPhase(zs, State) EXCEPT !.ForceResign = TRUE]

KSKDSPropagation ==
  LET r == z.Rollover
      stamped == stampNewKeyPropagation(z)
  IN  /\ CheckKSK("ds_propagation_wait")
      /\ \/ StampFails
         \/ RemovalUnsaved(stamped)
         \/ \E o \in OldDSRemoval(stamped) :
              /\ regDS' = o.ds
              /\ \/ /\ now < r.DSObservedAt + effectiveParentDSTTL(r.ParentDSTTL)
                    /\ Commit(o.z)
                 \/ /\ now >= r.DSObservedAt + effectiveParentDSTTL(r.ParentDSTTL)
                    /\ SaveOver(Retire(o.z, "retiring"), DiskAfter(o.z))

(* Mutant of KSKRetiring: the rollover ends whatever is owed to the parent. *)
RetiringUnsettled ==
  /\ CheckKSK("retiring") /\ UNCHANGED regDS
  /\ PublishedSince(z, z.Rollover.PhaseStarted)
  /\ Save([z EXCEPT !.Rollover = NoRollover])

KSKRetiring ==
  LET r == z.Rollover
      stamped == stampNewKeyPropagation(z)
  IN  /\ CheckKSK("retiring")
      /\ \/ StampFails
         \/ RemovalUnsaved(stamped)
         \/ \E o \in OldDSRemoval(stamped) :
              /\ regDS' = o.ds
              /\ IF PublishedSince(z, r.PhaseStarted) /\ o.settled
                 THEN SaveOver([o.z EXCEPT !.Rollover = NoRollover], DiskAfter(o.z))
                 ELSE Commit(o.z)

-----------------------------------------------------------------------------
(* The automatic phases of an algorithm rollover (CheckAlgorithmRollover). *)

CheckAlgorithm(State) ==
  /\ Unlocked
  /\ z.Rollover.type = "algorithm" /\ z.Rollover.State = State
  /\ UNCHANGED <<now, minted, deployment, delegation>>

(* advanceAlgorithmDSAdd: once the new keys and signatures have propagated *)
(* registrar automation adds the new DS; a failure is retried.             *)
AlgoDSAddWait ==
  LET stamped == stampNewKeyPropagation(z)
  IN  /\ CheckAlgorithm("algo_ds_add_wait") /\ UNCHANGED probe
      /\ \/ Save(stamped) /\ UNCHANGED regDS
         \/ /\ AutoPublish /\ ~ z.Rollover.DSAddPushed
            /\ newKeysPropagated(stamped, now)
            /\ regDS' = regDS \cup BuildDSSet(stamped, now)
            /\ \E done \in BOOLEAN :
                 SaveOver([stamped EXCEPT !.Rollover.DSAddPushed = done],
                          DiskAfter(stamped))

AlgoDSPropagation ==
  LET r == z.Rollover
      stamped == stampNewKeyPropagation(z)
      removal == EnterPhase(stamped, "algo_old_ds_removal_wait")
  IN  /\ CheckAlgorithm("algo_ds_propagation_wait") /\ UNCHANGED probe
      /\ \/ StampFails
         \/ /\ now < r.DSObservedAt + effectiveParentDSTTL(r.ParentDSTTL)
            /\ Save(stamped) /\ UNCHANGED regDS
         \/ /\ now >= r.DSObservedAt + effectiveParentDSTTL(r.ParentDSTTL)
            /\ \/ SaveFails(removal, DiskAfter(stamped)) /\ UNCHANGED regDS
               \/ RemovalUnsaved(removal)
               \/ \E o \in OldDSRemoval(removal) :
                    regDS' = o.ds /\ Commit(o.z)

(* Mutant of AlgoOldDSRemoval: the push is taken for the removal.          *)
RemovalAssumed ==
  /\ CheckAlgorithm("algo_old_ds_removal_wait") /\ UNCHANGED probe
  /\ z.Rollover.OldDSRemovedAt = 0
  /\ \E o \in OldDSRemoval(z) :
       regDS' = o.ds /\ Commit([o.z EXCEPT !.Rollover.OldDSRemovedAt = now])

(* The old DS is still to disappear: push its removal, then ask the parent. *)
AlgoOldDSRemoval ==
  LET stamped == stampNewKeyPropagation(z)
  IN  /\ CheckAlgorithm("algo_old_ds_removal_wait")
      /\ z.Rollover.OldDSRemovedAt = 0
      /\ \/ (StampFails \/ RemovalUnsaved(stamped)) /\ UNCHANGED probe
         \/ \E o \in OldDSRemoval(stamped) :
              regDS' = o.ds /\ Commit(o.z) /\ BeginProbe("old_ds")

(* The probe found the old DS on no parent server.                         *)
OldDSAbsent ==
  LET r == z.Rollover
      seen == IF \E p \in Parents : parent[p] # {} THEN ParentTTL ELSE r.ParentDSTTL
  IN  /\ probe.kind = "old_ds" /\ probe.seen = Parents
      /\ Save([z EXCEPT !.Rollover.OldDSRemovedAt = probe.at,
                        !.Rollover.ParentDSTTL = Later(seen, @)])
      /\ probe' = NoProbe
      /\ UNCHANGED <<now, minted, deployment, regDS, delegation>>

(* The old DS is gone: one parent DS TTL later its keys are retired.       *)
AlgoRetire ==
  LET r == z.Rollover
      stamped == stampNewKeyPropagation(z)
      due == r.OldDSRemovedAt + effectiveParentDSTTL(r.ParentDSTTL)
  IN  /\ CheckAlgorithm("algo_old_ds_removal_wait") /\ UNCHANGED <<regDS, probe>>
      /\ r.OldDSRemovedAt # 0
      /\ \/ StampFails
         \/ now < due /\ Commit(stamped)
         \/ now >= due /\ SaveOver(Retire(stamped, "algo_retiring"), DiskAfter(stamped))

AlgoRetiring ==
  LET stamped == stampNewKeyPropagation(z)
  IN  /\ CheckAlgorithm("algo_retiring") /\ UNCHANGED <<regDS, probe>>
      /\ \/ StampFails
         \/ /\ ~ PublishedSince(z, z.Rollover.PhaseStarted)
            /\ Commit(stamped)
         \/ /\ PublishedSince(z, z.Rollover.PhaseStarted)
            /\ SaveOver([stamped EXCEPT !.Rollover = NoRollover], DiskAfter(stamped))

-----------------------------------------------------------------------------
(* The registrar and the parent.                                           *)

(* `registrar push`, the DS automation of the rollover commands, and an    *)
(* operator who does by hand what `status` says: the registrar gets the    *)
(* phase's DS set, replacing what it holds or (automation, while the old   *)
(* DS stays) added to it.  A replacement that fails may leave the DS set   *)
(* empty (ErrRegistrarDSEmpty).  No code makes `registrar push` wait: that *)
(* the new DS of an algorithm rollover waits until `status` allows it is   *)
(* an assumption about the operator, which PushEarly drops.                *)
PublishDSSet ==
  LET want == BuildDSSet(z, now)
  IN  /\ CommandReady
      /\ z.Rollover.State = "algo_ds_add_wait" => PushEarly \/ newKeysPropagated(z, now)
      /\ \/ regDS' = want
         \/ AutoPublish /\ IncludesOldDS(z.Rollover, now) /\ regDS' = regDS \cup want
         \/ DSMayBeLost /\ regDS \ want # {} /\ regDS' = {}
      /\ UNCHANGED <<now, zone, minted, deployment, delegation, probe>>

(* A server of the parent starts to serve the registrar's DS set.          *)
ParentUpdate(p) ==
  /\ parent[p] # regDS
  /\ parent' = [parent EXCEPT ![p] = regDS]
  /\ dsLeft' = {l \in dsLeft : l.ds # parent[p]}
                 \cup {[ds |-> parent[p], at |-> now]}
  /\ UNCHANGED <<now, zone, minted, deployment, regDS, probe>>

(* Time passes, and caches forget what has outlived its TTL.               *)
Tick ==
  /\ now < MaxTime
  /\ ~ Unlocked => now - probe.at < ProbeSpan
  /\ now' = now + 1
  /\ left' = {l \in left : now' < l.at + Later(l.gen.dnskeyTTL, l.gen.rrsigTTL)}
  /\ dsLeft' = {l \in dsLeft : now' < l.at + ParentTTL}
  /\ UNCHANGED <<zone, minted, output, served, hooks, regDS, parent, probe>>

Next ==
  \/ SignZone \/ SaveCycle \/ Restart
  \/ \E x \in Servers : Transfer(x) \/ ProbePublishedSerial(x)
  \/ LaunchHook
  \/ \E g \in hooks : HookSucceeds(g) \/ HookFails(g)
  \/ ProbeFails \/ ProbePublication \/ PublicationConfirmed
  \/ StartKSKRollover \/ StartAlgorithmRollover
  \/ RolloverComplete \/ NewDSPresent \/ ForceComplete
  \/ StartZSKRollover \/ ZSKPrePublish \/ ZSKSigning
  \/ KSKDSAddWait \/ KSKDSPropagation \/ KSKRetiring
  \/ AlgoDSAddWait \/ AlgoDSPropagation \/ AlgoOldDSRemoval \/ OldDSAbsent
  \/ AlgoRetire \/ AlgoRetiring
  \/ PublishDSSet
  \/ \E p \in Parents : ParentUpdate(p) \/ ProbeParentDS(p)
  \/ Tick

Spec == Init /\ [][Next]_vars

(* The same, with TTLs that are lowered but never raised.                  *)
TTLsNotRaised == /\ output'.dnskeyTTL <= output.dnskeyTTL
                 /\ output'.rrsigTTL <= output.rrsigTTL
LoweringSpec == Init /\ [][Next /\ TTLsNotRaised]_vars

-----------------------------------------------------------------------------
(* Properties.                                                             *)

(* Every variable keeps the shape of what it models.                       *)
TypeOK ==
  /\ now \in Nat /\ minted \in Nat /\ faults \in Nat
  /\ z \in ZoneRecord /\ disk \in ZoneRecord
  /\ output \in Generation
  /\ served \in [Servers -> Generation]
  /\ left \subseteq [gen : Generation, at : Nat]
  /\ hooks \subseteq Nat
  /\ regDS \subseteq Key
  /\ parent \in [Parents -> SUBSET Key]
  /\ dsLeft \subseteq [ds : SUBSET Key, at : Nat]
  /\ probe \in Probe

(* What a resolver may hold: what is served, and what was served less than *)
(* its TTL ago.                                                            *)
DNSKEYsHeld == {served[x].keys : x \in Servers}
  \cup {l.gen.keys : l \in {m \in left : now < m.at + m.gen.dnskeyTTL}}
RRSIGsHeld == {served[x].keys : x \in Servers}
  \cup {l.gen.keys : l \in {m \in left : now < m.at + m.gen.rrsigTTL}}
DSHeld == {parent[p] : p \in Parents}
  \cup {l.ds : l \in {m \in dsLeft : now < m.at + ParentTTL}}

(* The chain validates, by a validator that insists on every algorithm the *)
(* DS set signals.                                                         *)
Validates(ds, keys, sigs) ==
  \A a \in {k.alg : k \in ds} :
    /\ \E k \in ds \cap keys.ksk : k.alg = a
    /\ \E k \in sigs.sig \cap keys.zsk : k.alg = a

(* No rollover ever breaks the zone: whatever DS set, DNSKEY RRset and     *)
(* signatures a resolver has fetched, each at its own time and from any    *)
(* server, validate together.  The phases of rollover.go exist for this.   *)
ChainIntact ==
  \A ds \in DSHeld, keys \in DNSKEYsHeld, sigs \in RRSIGsHeld :
    Validates(ds, keys, sigs)

(* Keys are retired one parent DS TTL after the parent's answer allowed    *)
(* it: while the old KSK is being dropped every DS set a resolver holds    *)
(* has the new KSK's DS, or none at all (a failed registrar update); while *)
(* an old algorithm is being dropped none has the old one                  *)
(* (CheckKSKRollover, CheckAlgorithmRollover).                             *)
RetiredAfterParentTTL ==
  \A ds \in DSHeld :
    /\ z.Rollover.State = "retiring" => ds = {} \/ z.KSK \in ds
    /\ z.Rollover.State = "algo_retiring" => z.Rollover.old \notin ds

(* The cache horizons that every phase waits for (ConfirmPublication)      *)
(* bound the time at which anything older than the confirmed generation    *)
(* has left every cache.                                                   *)
HorizonCoversCaches ==
  \A l \in left : l.gen.n < z.PublishedGeneration =>
    /\ l.at + l.gen.dnskeyTTL <= z.DNSKEYCacheHorizon
    /\ l.at + l.gen.rrsigTTL <= z.RRSIGCacheHorizon

(* A generation recorded as published is served by every server: hook      *)
(* results and probe answers are never credited to another generation.     *)
ConfirmedIsServed ==
  \A x \in Servers : served[x].n >= z.PublishedGeneration

(* A zone that NeedsSign leaves alone is signed with the keys its rollover *)
(* phase calls for: no key transition is ever forgotten.                   *)
OutputMatchesState ==
  NeedsSign(z) \/ output.keys = loadKeysForSigning(z)

(* Whatever was saved, in whatever order saves failed, LoadState accepts:  *)
(* a restart never meets a rollover record the signer refuses.             *)
DiskLoads == validateRolloverState(disk) /\ validateRolloverState(z)

(* Once it has been removed, the DS of an old key never comes back: a DS   *)
(* added at the registrar is the live KSK's (IncludesOldDS).               *)
OldDSNotResurrected == [][\A k \in regDS' \ regDS : k = z'.KSK]_regDS

(* Where the registrar is automated, a rollover ends with the registrar    *)
(* holding the DS of the live KSK and no other: a failed update is retried *)
(* until it succeeds (pushOldDSRemoval and its callers).                   *)
AutomationSettles ==
  [][/\ AutoPublish
      /\ z.Rollover.type \in {"ksk", "algorithm"} /\ z'.Rollover.type = "none"
      => regDS' = {z'.KSK}]_z

(* A new algorithm's DS reaches the registrar only when every answer a     *)
(* resolver may hold has the new algorithm's keys and signatures           *)
(* (advanceAlgorithmDSAdd).                                                *)
NewAlgorithmDSWaits ==
  [][z.Rollover.type = "algorithm" =>
       \A k \in regDS' \ regDS, keys \in DNSKEYsHeld, sigs \in RRSIGsHeld :
         Validates({k}, keys, sigs)]_regDS
=============================================================================
