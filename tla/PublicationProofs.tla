-------------------------- MODULE PublicationProofs --------------------------
(***************************************************************************)
(* A theorem about publication, for every value of the constants: what the *)
(* signer records as published is served.                                  *)
(*                                                                         *)
(* Of all the operations only signing and confirming change what a zone    *)
(* record says about publication.  The first part proves that of the       *)
(* others, once; the invariant, and that of HorizonProofs, then need only  *)
(* a few cases.                                                            *)
(***************************************************************************)
EXTENDS RolloverProofs

(* The two records say the same about publication.                         *)
SamePub(q, r) ==
  /\ q.LastSigned = r.LastSigned
  /\ q.PublishedGeneration = r.PublishedGeneration
  /\ q.PublishedDNSKEYTTL = r.PublishedDNSKEYTTL
  /\ q.PublishedMaxRRSIGTTL = r.PublishedMaxRRSIGTTL
  /\ q.ServedDNSKEYTTL = r.ServedDNSKEYTTL
  /\ q.ServedMaxRRSIGTTL = r.ServedMaxRRSIGTTL
  /\ q.DNSKEYCacheHorizon = r.DNSKEYCacheHorizon
  /\ q.RRSIGCacheHorizon = r.RRSIGCacheHorizon

(* An update of Rollover, and of fields other than those of SamePub.       *)
LEMMA RolloverUpdatePub ==
  ASSUME NEW r \in ZoneRecord, NEW ro, NEW k, NEW zk, NEW e, NEW f
  PROVE  /\ SamePub([r EXCEPT !.Rollover = ro], r)
         /\ SamePub([r EXCEPT !.Rollover = ro, !.ForceResign = f], r)
         /\ SamePub([r EXCEPT !.Rollover = ro, !.KSK = k, !.ForceResign = f], r)
         /\ SamePub([r EXCEPT !.Rollover = ro, !.KSK = k, !.ZSK = zk, !.ZSKExpires = e,
                              !.ForceResign = f], r)
         /\ SamePub([r EXCEPT !.ForceResign = f], r)
BY DEF SamePub, ZoneRecord

(* The functions of the rollover phases leave publication alone.           *)
LEMMA RecordFunctionsPub ==
  ASSUME NEW r \in ZoneRecord
  PROVE  /\ \A h : SamePub([r EXCEPT !.Rollover.PhaseHorizon = h], r)
         /\ SamePub(stampNewKeyPropagation(r), r)
         /\ \A f, c : SamePub(stampPhasePublication(r, f, c), r)
         /\ SamePub(ZSKSwitched(r), r)
         /\ SamePub(ZSKCompleted(r), r)
         /\ \A st : SamePub(EnterPhase(r, st), r)
         /\ \A b : SamePub([r EXCEPT !.Rollover.DSAddPushed = b], r)
         /\ SamePub([r EXCEPT !.Rollover.DSRemovalPushed = TRUE], r)
         /\ \A t, ttl : SamePub([r EXCEPT !.Rollover.OldDSRemovedAt = t,
                                          !.Rollover.ParentDSTTL = ttl], r)
<1>1. \A h : SamePub([r EXCEPT !.Rollover.PhaseHorizon = h], r)
  BY DEF SamePub, ZoneRecord
<1>2. SamePub(r, r)
  BY DEF SamePub
<1>3. SamePub(stampNewKeyPropagation(r), r)
  BY <1>1, <1>2 DEF stampNewKeyPropagation
<1>4. \A f, c : SamePub(stampPhasePublication(r, f, c), r)
  BY <1>1, <1>2 DEF stampPhasePublication
<1>5. SamePub(ZSKSwitched(r), r)
  BY DEF SamePub, ZoneRecord, ZSKSwitched
<1>6. SamePub(ZSKCompleted(r), r)
  BY DEF SamePub, ZoneRecord, ZSKCompleted
<1>7. \A st : SamePub(EnterPhase(r, st), r)
  BY DEF SamePub, ZoneRecord, EnterPhase
<1>8. \A b : SamePub([r EXCEPT !.Rollover.DSAddPushed = b], r)
  BY DEF SamePub, ZoneRecord
<1>9. SamePub([r EXCEPT !.Rollover.DSRemovalPushed = TRUE], r)
  BY DEF SamePub, ZoneRecord
<1>10. \A t, ttl : SamePub([r EXCEPT !.Rollover.OldDSRemovedAt = t,
                                     !.Rollover.ParentDSTTL = ttl], r)
  BY DEF SamePub, ZoneRecord
<1> QED
  BY <1>1, <1>3, <1>4, <1>5, <1>6, <1>7, <1>8, <1>9, <1>10, Zenon

-----------------------------------------------------------------------------
(* Steps after which both zone records say about publication what one of   *)
(* them said before.                                                       *)

Quiet ==
  /\ SamePub(z', z) \/ SamePub(z', disk)
  /\ SamePub(disk', z) \/ SamePub(disk', disk)

(* A save of a record that says the same, whatever it does, is quiet.      *)
LEMMA QuietSave ==
  ASSUME NEW new, NEW mid, SamePub(new, z), SamePub(mid, z),
         \/ SaveOver(new, DiskAfter(mid)) \/ SaveFails(new, DiskAfter(mid))
         \/ Save(new) \/ SaveFails(new, disk) \/ Commit(new)
  PROVE  Quiet
BY DEF Quiet, SamePub, SaveOver, Save, SaveFails, Commit, DiskAfter

(* Saying the same about publication is transitive.                        *)
LEMMA SamePubTransitive ==
  ASSUME NEW q, NEW r, NEW s, SamePub(q, r), SamePub(r, s)
  PROVE  SamePub(q, s)
BY DEF SamePub

(* pushOldDSRemoval leaves publication alone.                              *)
LEMMA OldDSRemovalPub ==
  ASSUME NEW r \in ZoneRecord, NEW o \in OldDSRemoval(r)
  PROVE  SamePub(o.z, r)
<1>1. o.z \in {r, [r EXCEPT !.Rollover.DSRemovalPushed = TRUE]}
  BY DEF OldDSRemoval
<1>2. SamePub(r, r)
  BY DEF SamePub
<1> QED
  BY <1>1, <1>2, RecordFunctionsPub, Zenon

(* So does the retirement of a key.                                        *)
LEMMA RetirePub ==
  ASSUME NEW n \in Nat, NEW r \in SoundRecord(n), NEW state, Here \in Stamp,
         \/ r.Rollover.type = "ksk" /\ state \in KSKStates
         \/ r.Rollover.type = "algorithm" /\ state \in AlgoStates
  PROVE  SamePub(Retire(r, state), r)
<1>1. EnterPhase(r, state) \in ZoneRecord /\ r \in ZoneRecord
  BY RetireSound DEF SoundRecord
<1>2. SamePub(EnterPhase(r, state), r)
  BY <1>1, RecordFunctionsPub, Zenon
<1>3. SamePub(Retire(r, state), EnterPhase(r, state))
  BY <1>1, RolloverUpdatePub, Zenon DEF Retire
<1> QED
  BY <1>2, <1>3, SamePubTransitive

(* The ZSK rollover.                                                       *)
LEMMA QuietZSK ==
  ASSUME SoundInv, StartZSKRollover \/ ZSKPrePublish \/ ZSKSigning
  PROVE  Quiet
<1>0. z \in ZoneRecord /\ SamePub(z, z) /\ SamePub(disk, disk)
  BY DEF SoundInv, TypeOK, SamePub
<1>t. minted \in Nat /\ z \in SoundRecord(minted)
  BY DEF SoundInv, TypeOK
<1>h. z.DNSKEYCacheHorizon \in Nat /\ z.RRSIGCacheHorizon \in Nat
  BY <1>0 DEF ZoneRecord
<1>1. CASE StartZSKRollover
  <2> DEFINE q == ZSKStarted(z, [id |-> minted + 1, alg |-> z.ZSK.alg])
  <2>1. SamePub(q, z) /\ SamePub([z EXCEPT !.ForceResign = FALSE], z)
    BY <1>0, RolloverUpdatePub, Zenon DEF ZSKStarted
  <2>2. \/ Commit(q)
        \/ z' = [z EXCEPT !.ForceResign = FALSE] /\ disk' = disk
    BY <1>1 DEF StartZSKRollover
  <2> HIDE DEF q
  <2> QED
    BY <1>0, <2>1, <2>2, QuietSave, Zenon DEF Quiet
<1>2. ASSUME NEW f \in Nat, NEW c \in Nat,
             LET p == stampPhasePublication(z, f, c)
             IN  \/ ZSKPhaseWait(p)
                 \/ SaveOver(ZSKSwitched(p), DiskAfter(p))
                 \/ SaveOver(ZSKCompleted(p), DiskAfter(p))
      PROVE  Quiet
  <2> DEFINE p == stampPhasePublication(z, f, c)
  <2>1. SamePub(p, z)
    BY <1>0, RecordFunctionsPub, Zenon
  <2>2. p \in ZoneRecord
    BY <1>t, StampPhaseSound DEF SoundRecord
  <2>3. \/ Save(p) \/ SaveFails(p, disk)
        \/ SaveOver(ZSKSwitched(p), DiskAfter(p))
        \/ SaveOver(ZSKCompleted(p), DiskAfter(p))
    BY <1>2 DEF ZSKPhaseWait
  <2> HIDE DEF p
  <2>4. SamePub(ZSKSwitched(p), p) /\ SamePub(ZSKCompleted(p), p)
    BY <2>2, RecordFunctionsPub, Zenon
  <2>5. SamePub(ZSKSwitched(p), z) /\ SamePub(ZSKCompleted(p), z)
    BY <2>1, <2>4, SamePubTransitive
  <2> QED
    BY <2>1, <2>3, <2>5, QuietSave
<1>3. CASE ZSKPrePublish
  <2>1. dnskeyTTLFloor(z) \in Nat
    BY <1>0, FloorTypes
  <2> QED
    BY <1>h, <1>2, <1>3, <2>1 DEF ZSKPrePublish
<1>4. CASE ZSKSigning
  <2>1. zskRetireFloor(z) \in Nat
    BY <1>0, FloorTypes
  <2>2. Later(z.DNSKEYCacheHorizon, z.RRSIGCacheHorizon) \in Nat
    BY <1>h DEF Later
  <2> QED
    BY <1>2, <1>4, <2>1, <2>2 DEF ZSKSigning
<1> QED
  BY <1>1, <1>3, <1>4

(* The automatic phases of a KSK rollover.                                 *)
LEMMA QuietKSK ==
  ASSUME SoundInv, KSKDSAddWait \/ KSKDSPropagation \/ KSKRetiring
  PROVE  Quiet
<1> DEFINE p == stampNewKeyPropagation(z)
<1>0. minted \in Nat /\ z \in SoundRecord(minted) /\ z \in ZoneRecord /\ now \in Nat
      /\ Here \in Stamp /\ regDS \subseteq Key
  BY DEF SoundInv, TypeOK, Here, Stamp, Generation
<1>1. p \in SoundRecord(minted) /\ p.Rollover.type = z.Rollover.type
  BY <1>0, StampKeySound
<1>2. SamePub(p, z)
  BY <1>0, RecordFunctionsPub, Zenon
<1>3. StampFails => Quiet
  BY <1>2, QuietSave DEF StampFails
<1>4. (KSKDSAddWait => Save(p))
      /\ (KSKDSPropagation => /\ z.Rollover.type = "ksk"
                              /\ \/ StampFails \/ RemovalUnsaved(p)
                                 \/ \E o \in OldDSRemoval(p) :
                                      \/ Commit(o.z)
                                      \/ SaveOver(Retire(o.z, "retiring"), DiskAfter(o.z)))
      /\ (KSKRetiring => \/ StampFails \/ RemovalUnsaved(p)
                         \/ \E o \in OldDSRemoval(p) :
                              \/ Commit(o.z)
                              \/ SaveOver([o.z EXCEPT !.Rollover = NoRollover],
                                          DiskAfter(o.z)))
  BY DEF KSKDSAddWait, KSKDSPropagation, KSKRetiring, CheckKSK
<1> HIDE DEF p
<1>5. ASSUME NEW o \in OldDSRemoval(p)
      PROVE  /\ o.z \in SoundRecord(minted) /\ o.z \in ZoneRecord /\ SamePub(o.z, z)
             /\ o.z.Rollover.type = z.Rollover.type
  <2>1. o.z \in SoundRecord(minted) /\ o.z.Rollover.type = z.Rollover.type
    BY <1>0, <1>1, OldDSRemovalSound
  <2>2. p \in ZoneRecord /\ o.z \in ZoneRecord
    BY <1>1, <2>1 DEF SoundRecord
  <2>3. SamePub(o.z, z)
    BY <1>2, <2>2, OldDSRemovalPub, SamePubTransitive
  <2> QED
    BY <2>1, <2>2, <2>3
<1>6. RemovalUnsaved(p) => Quiet
  BY <1>2, <1>5, QuietSave DEF RemovalUnsaved
<1>7. CASE KSKDSAddWait
  BY <1>2, <1>4, <1>7, QuietSave
<1>8. CASE KSKDSPropagation
  <2>1. SUFFICES ASSUME NEW o \in OldDSRemoval(p),
                        Commit(o.z) \/ SaveOver(Retire(o.z, "retiring"), DiskAfter(o.z))
                 PROVE  Quiet
    BY <1>3, <1>4, <1>6, <1>8
  <2>2. o.z.Rollover.type = "ksk" /\ o.z \in SoundRecord(minted) /\ SamePub(o.z, z)
    BY <1>4, <1>5, <1>8
  <2>3. SamePub(Retire(o.z, "retiring"), o.z)
    BY <1>0, <2>2, RetirePub DEF KSKStates
  <2>4. SamePub(Retire(o.z, "retiring"), z)
    BY <2>2, <2>3, SamePubTransitive
  <2> QED
    BY <2>1, <2>2, <2>4, QuietSave
<1>9. CASE KSKRetiring
  <2>1. SUFFICES ASSUME NEW o \in OldDSRemoval(p),
                        \/ Commit(o.z)
                        \/ SaveOver([o.z EXCEPT !.Rollover = NoRollover], DiskAfter(o.z))
                 PROVE  Quiet
    BY <1>3, <1>4, <1>6, <1>9, Zenon
  <2>2. o.z \in ZoneRecord /\ SamePub(o.z, z)
    BY <1>5
  <2>3. SamePub([o.z EXCEPT !.Rollover = NoRollover], o.z)
    BY <2>2, RolloverUpdatePub, Zenon
  <2>4. SamePub([o.z EXCEPT !.Rollover = NoRollover], z)
    BY <2>2, <2>3, SamePubTransitive
  <2> QED
    BY <2>1, <2>2, <2>4, QuietSave
<1> QED
  BY <1>7, <1>8, <1>9

(* The automatic phases of an algorithm rollover.                          *)
LEMMA QuietAlgorithm ==
  ASSUME SoundInv,
         \/ AlgoDSAddWait \/ AlgoDSPropagation \/ AlgoOldDSRemoval \/ OldDSAbsent
         \/ AlgoRetire \/ AlgoRetiring
  PROVE  Quiet
<1> DEFINE p == stampNewKeyPropagation(z)
           w == EnterPhase(p, "algo_old_ds_removal_wait")
<1>0. minted \in Nat /\ z \in SoundRecord(minted) /\ z \in ZoneRecord /\ now \in Nat
      /\ Here \in Stamp /\ regDS \subseteq Key
  BY DEF SoundInv, TypeOK, Here, Stamp, Generation
<1>1. p \in SoundRecord(minted) /\ p.Rollover.type = z.Rollover.type
  BY <1>0, StampKeySound
<1>2. SamePub(p, z) /\ p \in ZoneRecord
  BY <1>0, <1>1, RecordFunctionsPub, Zenon DEF SoundRecord
<1>3. StampFails => Quiet
  BY <1>2, QuietSave DEF StampFails
<1>4. ASSUME NEW q \in SoundRecord(minted), SamePub(q, z), NEW o \in OldDSRemoval(q)
      PROVE  SamePub(o.z, z)
  <2>1. SamePub(o.z, q)
    BY OldDSRemovalPub DEF SoundRecord
  <2> QED
    BY <1>4, <2>1, SamePubTransitive
<1>5. ASSUME NEW q \in SoundRecord(minted), SamePub(q, z), RemovalUnsaved(q)
      PROVE  Quiet
  BY <1>4, <1>5, QuietSave DEF RemovalUnsaved
<1>6. CASE AlgoDSAddWait
  <2>1. PICK b \in BOOLEAN :
          \/ Save(p)
          \/ SaveOver([p EXCEPT !.Rollover.DSAddPushed = b], DiskAfter(p))
    BY <1>6, Zenon DEF AlgoDSAddWait
  <2> HIDE DEF p
  <2>2. SamePub([p EXCEPT !.Rollover.DSAddPushed = b], p)
    BY <1>2, RecordFunctionsPub, Zenon
  <2>3. SamePub([p EXCEPT !.Rollover.DSAddPushed = b], z)
    BY <1>2, <2>2, SamePubTransitive
  <2> QED
    BY <1>2, <2>1, <2>3, QuietSave
<1>7. CASE AlgoDSPropagation
  <2>1. z.Rollover.type = "algorithm"
        /\ (\/ StampFails \/ Save(p) \/ SaveFails(w, DiskAfter(p)) \/ RemovalUnsaved(w)
            \/ \E o \in OldDSRemoval(w) : Commit(o.z))
    BY <1>7 DEF AlgoDSPropagation, CheckAlgorithm
  <2> HIDE DEF p
  <2>2. w \in SoundRecord(minted)
    BY <1>0, <1>1, <2>1, RetireSound DEF AlgoStates
  <2>3. SamePub(w, p)
    BY <1>2, RecordFunctionsPub, Zenon
  <2>4. SamePub(w, z)
    BY <1>2, <2>3, SamePubTransitive
  <2> HIDE DEF w
  <2>5. (\E o \in OldDSRemoval(w) : Commit(o.z)) => Quiet
    BY <1>4, <2>2, <2>4, QuietSave
  <2> QED
    BY <1>2, <1>3, <1>5, <2>1, <2>2, <2>4, <2>5, QuietSave
<1>8. CASE AlgoOldDSRemoval
  <2>1. StampFails \/ RemovalUnsaved(p) \/ \E o \in OldDSRemoval(p) : Commit(o.z)
    BY <1>8 DEF AlgoOldDSRemoval
  <2> HIDE DEF p
  <2>2. (\E o \in OldDSRemoval(p) : Commit(o.z)) => Quiet
    BY <1>1, <1>2, <1>4, QuietSave
  <2> QED
    BY <1>1, <1>2, <1>3, <1>5, <2>1, <2>2
<1>9. CASE OldDSAbsent
  <2>1. PICK ttl : Save([z EXCEPT !.Rollover.OldDSRemovedAt = probe.at,
                                  !.Rollover.ParentDSTTL = ttl])
    BY <1>9, Zenon DEF OldDSAbsent
  <2>2. SamePub([z EXCEPT !.Rollover.OldDSRemovedAt = probe.at,
                          !.Rollover.ParentDSTTL = ttl], z)
    BY <1>0, RecordFunctionsPub, Zenon
  <2> QED
    BY <2>1, <2>2, QuietSave
<1>10. CASE AlgoRetire
  <2>1. StampFails \/ Commit(p) \/ SaveOver(Retire(p, "algo_retiring"), DiskAfter(p))
    BY <1>10, Zenon DEF AlgoRetire
  <2>t. p.Rollover.type = "algorithm"
    BY <1>1, <1>10, Zenon DEF AlgoRetire, CheckAlgorithm
  <2> HIDE DEF p
  <2>2. SamePub(Retire(p, "algo_retiring"), p)
    BY <1>0, <1>1, <2>t, RetirePub DEF AlgoStates
  <2>3. SamePub(Retire(p, "algo_retiring"), z)
    BY <1>2, <2>2, SamePubTransitive
  <2> QED
    BY <1>2, <1>3, <2>1, <2>3, QuietSave
<1>11. CASE AlgoRetiring
  <2>1. StampFails \/ Commit(p) \/ SaveOver([p EXCEPT !.Rollover = NoRollover], DiskAfter(p))
    BY <1>11, Zenon DEF AlgoRetiring
  <2> HIDE DEF p
  <2>2. SamePub([p EXCEPT !.Rollover = NoRollover], p)
    BY <1>2, RolloverUpdatePub, Zenon
  <2>3. SamePub([p EXCEPT !.Rollover = NoRollover], z)
    BY <1>2, <2>2, SamePubTransitive
  <2> QED
    BY <1>2, <1>3, <2>1, <2>3, QuietSave
<1> QED
  BY <1>6, <1>7, <1>8, <1>9, <1>10, <1>11

(* A rollover command's own transition is quiet; a signing may follow.     *)
CommandSigns ==
  \E q \in ZoneRecord : SamePub(q, z) /\ SignAfter(q)

(* The four commands that change the record and then sign.                 *)
LEMMA CommandPub ==
  ASSUME SoundInv,
         StartKSKRollover \/ StartAlgorithmRollover \/ NewDSPresent \/ ForceComplete
  PROVE  CommandSigns
<1>0. minted \in Nat /\ z \in SoundRecord(minted) /\ z \in ZoneRecord /\ now \in Nat
      /\ Here \in Stamp /\ probe.at \in Nat
  BY DEF SoundInv, TypeOK, Here, Stamp, Generation, Probe
<1>1. \A n \in Nat : SoundRecord(n) \subseteq ZoneRecord
  BY DEF SoundRecord
<1>2. CASE StartKSKRollover
  <2> DEFINE q == KSKStarted(z, [id |-> minted + 1, alg |-> z.KSK.alg])
  <2>1. SignAfter(q)
    BY <1>2 DEF StartKSKRollover
  <2>2. q \in ZoneRecord
    BY <1>0, <1>1, KSKStartedSound
  <2>3. SamePub(q, z)
    BY <1>0, RolloverUpdatePub, Zenon DEF KSKStarted
  <2> HIDE DEF q
  <2> QED
    BY <2>1, <2>2, <2>3 DEF CommandSigns
<1>3. CASE StartAlgorithmRollover
  <2> DEFINE q == AlgorithmStarted(z, [id |-> minted + 1, alg |-> z.KSK.alg + 1],
                                      [id |-> minted + 2, alg |-> z.KSK.alg + 1])
  <2>1. SignAfter(q)
    BY <1>3 DEF StartAlgorithmRollover
  <2>2. q \in SoundRecord(minted + 2) /\ minted + 2 \in Nat
    BY <1>0, AlgorithmStartedSound
  <2>3. SamePub(q, z)
    BY <1>0, RolloverUpdatePub, ZenonT(60) DEF AlgorithmStarted
  <2> HIDE DEF q
  <2> QED
    BY <1>1, <2>1, <2>2, <2>3 DEF CommandSigns
<1>4. ASSUME NEW t \in Nat, NEW ttl \in Nat, z.Rollover.State \in AddWait,
             SignAfter(DSObserved(z, t, ttl))
      PROVE  CommandSigns
  <2> DEFINE p == stampNewKeyPropagation(z)
             q == DSObserved(z, t, ttl)
  <2>1. q \in ZoneRecord
    BY <1>0, <1>1, <1>4, DSObservedSound
  <2>2. p \in ZoneRecord /\ SamePub(p, z)
    BY <1>0, <1>1, StampKeySound, RecordFunctionsPub, Zenon
  <2>3. \E st : q = [p EXCEPT !.Rollover.State = st, !.Rollover.DSObservedAt = t,
                              !.Rollover.ParentDSTTL = ttl, !.Rollover.PhaseStarted = Here]
    BY Zenon DEF DSObserved
  <2> HIDE DEF p, q
  <2>4. SamePub(q, p)
    BY <2>2, <2>3 DEF SamePub, ZoneRecord
  <2>5. SamePub(q, z)
    BY <2>2, <2>4, SamePubTransitive
  <2> QED
    BY <1>4, <2>1, <2>5 DEF CommandSigns, q
<1>5. CASE NewDSPresent
  BY <1>0, <1>4, <1>5, ConstantTypes DEF NewDSPresent
<1>6. CASE ForceComplete
  BY <1>0, <1>4, <1>6, ConstantTypes DEF ForceComplete
<1> QED
  BY <1>2, <1>3, <1>5, <1>6

-----------------------------------------------------------------------------
(* The steps that matter for publication, by kind.                         *)

(* A generation is signed, from a record q, and its record may be saved.   *)
Signs ==
  \E q \in ZoneRecord, d \in DnskeyTTLs, s \in RrsigTTLs :
    /\ SamePub(q, z)
    /\ WriteOutput(q, d, s)
    /\ z' \in {q, Signed(q, d, s)}
    /\ disk' \in {q, disk, Signed(q, d, s)}

(* The latest generation is confirmed, at a time t.                        *)
Confirms ==
  /\ UNCHANGED <<output, served, left>>
  /\ \E t : /\ Save(ConfirmPublication(z, z.LastSigned, t))
            /\ \/ t = now /\ \A x \in Servers : served[x].n >= z.LastSigned
               \/ t = probe.at /\ probe.kind = "publication" /\ probe.seen = Servers

(* Every step is of one of five kinds.                                     *)
LEMMA StepKinds ==
  ASSUME SoundInv, [Next]_vars
  PROVE  \/ Signs /\ now' = now
         \/ Confirms /\ now' = now
         \/ Quiet /\ UNCHANGED <<now, output, served, left>>
         \/ \E x \in Servers : Transfer(x)
         \/ Tick
<1>0. z \in ZoneRecord /\ SamePub(z, z) /\ SamePub(disk, disk)
  BY DEF SoundInv, TypeOK, SamePub
<1>1. CASE SignZone
  <2>1. PICK d \in DnskeyTTLs, s \in RrsigTTLs :
               WriteOutput(z, d, s) /\ Save(Signed(z, d, s))
    BY <1>1 DEF SignZone
  <2>2. z' = Signed(z, d, s) /\ disk' \in {disk, Signed(z, d, s)} /\ now' = now
    BY <1>1, <2>1 DEF SignZone, Save, SaveOver, Commit, SaveFails
  <2> QED
    BY <1>0, <2>1, <2>2 DEF Signs
<1>2. CASE StartKSKRollover \/ StartAlgorithmRollover \/ NewDSPresent \/ ForceComplete
  <2>1. PICK q \in ZoneRecord : SamePub(q, z) /\ SignAfter(q)
    BY <1>2, CommandPub DEF CommandSigns
  <2>2. now' = now
    BY <1>2 DEF StartKSKRollover, StartAlgorithmRollover, NewDSPresent, ForceComplete
  <2>3. \/ Commit(q) /\ UNCHANGED <<output, served, left>>
        \/ \E d \in DnskeyTTLs, s \in RrsigTTLs :
             /\ WriteOutput(q, d, s)
             /\ z' \in {q, Signed(q, d, s)} /\ disk' \in {q, disk, Signed(q, d, s)}
    BY <2>1 DEF SignAfter, Commit
  <2>4. Commit(q) => Quiet
    BY <2>1, QuietSave
  <2> QED
    BY <2>1, <2>2, <2>3, <2>4 DEF Signs
<1>3. ASSUME NEW g \in hooks, HookSucceeds(g)
      PROVE  /\ UNCHANGED <<now, output, served, left>>
             /\ Confirms \/ Quiet
  <2>1. UNCHANGED <<now, output, served, left>> /\ \A x \in Servers : served[x].n >= g
    BY <1>3 DEF HookSucceeds
  <2>2. \/ g = z.LastSigned /\ Save(ConfirmPublication(z, g, now))
        \/ Save(z)
    BY <1>3 DEF HookSucceeds
  <2>3. Save(z) => Quiet
    BY <1>0, QuietSave
  <2> QED
    BY <2>1, <2>2, <2>3 DEF Confirms
<1>4. CASE PublicationConfirmed
  BY <1>4 DEF PublicationConfirmed, Confirms, deployment
<1>5. CASE SaveCycle \/ Restart
  BY <1>0, <1>5 DEF SaveCycle, Restart, Quiet, deployment
<1>6. ASSUME \/ StartZSKRollover \/ ZSKPrePublish \/ ZSKSigning
             \/ KSKDSAddWait \/ KSKDSPropagation \/ KSKRetiring
             \/ AlgoDSAddWait \/ AlgoDSPropagation \/ AlgoOldDSRemoval \/ OldDSAbsent
             \/ AlgoRetire \/ AlgoRetiring
      PROVE  Quiet /\ UNCHANGED <<now, output, served, left>>
  <2>1. Quiet
    BY <1>6, QuietZSK, QuietKSK, QuietAlgorithm
  <2> QED
    BY <1>6, <2>1 DEF StartZSKRollover, ZSKPrePublish, ZSKSigning, CheckZSK, KSKDSAddWait,
         KSKDSPropagation, KSKRetiring, CheckKSK, AlgoDSAddWait, AlgoDSPropagation,
         AlgoOldDSRemoval, OldDSAbsent, AlgoRetire, AlgoRetiring, CheckAlgorithm,
         deployment
<1>7. ASSUME \/ (\E x \in Servers : ProbePublishedSerial(x))
             \/ LaunchHook \/ (\E g \in hooks : HookFails(g))
             \/ ProbeFails \/ ProbePublication \/ RolloverComplete \/ PublishDSSet
             \/ (\E p \in Parents : ParentUpdate(p) \/ ProbeParentDS(p))
             \/ UNCHANGED vars
      PROVE  Quiet /\ UNCHANGED <<now, output, served, left>>
  <2>1. UNCHANGED <<z, disk, now, output, served, left>>
    BY <1>7 DEF ProbePublishedSerial, LaunchHook, HookFails, ProbeFails,
         ProbePublication, RolloverComplete, PublishDSSet, ParentUpdate, ProbeParentDS,
         deployment, zone, vars
  <2> QED
    BY <1>0, <2>1 DEF Quiet
<1> QED
  BY <1>1, <1>2, <1>3, <1>4, <1>5, <1>6, <1>7 DEF Next

-----------------------------------------------------------------------------
(* What is recorded as published is served.                                *)

(* A record that is behind what was written, and confirms only what every  *)
(* server serves.                                                          *)
Behind(r) ==
  /\ r.LastSigned <= output.n /\ r.PublishedGeneration <= output.n
  /\ \A x \in Servers : r.PublishedGeneration <= served[x].n

(* Inductive: the record on disk must satisfy it too, since a restart      *)
(* loads it, and so must the answers a running probe has collected.        *)
ServedInv ==
  /\ Behind(z) /\ Behind(disk)
  /\ \A x \in Servers : served[x].n <= output.n
  /\ probe.kind = "publication" =>
       \A x \in Servers : x \in probe.seen => z.LastSigned <= served[x].n

(* What the proofs use of the types.                                       *)
PublicationTypes ==
  /\ now \in Nat /\ output.n \in Nat /\ probe.at \in Nat
  /\ \A x \in Servers : served[x].n \in Nat
  /\ z \in ZoneRecord /\ disk \in ZoneRecord

(* They follow from the type invariant.                                    *)
LEMMA PublicationTyped == SoundInv => PublicationTypes
BY DEF SoundInv, TypeOK, Generation, Probe, PublicationTypes

(* The numbers that confirming and signing leave in a record.              *)
LEMMA ConfirmNumbers ==
  ASSUME NEW r \in ZoneRecord, NEW g \in Nat, NEW t \in Nat
  PROVE  /\ ConfirmPublication(r, g, t).LastSigned = r.LastSigned
         /\ \/ ConfirmPublication(r, g, t).PublishedGeneration = r.PublishedGeneration
            \/ ConfirmPublication(r, g, t).PublishedGeneration = g
BY DEF ConfirmPublication, ZoneRecord

(* A signing numbers its generation after the last one written.            *)
LEMMA SignedNumbers ==
  ASSUME NEW q \in ZoneRecord, NEW d \in Nat, NEW s \in Nat,
         now \in Nat, output.n \in Nat
  PROVE  /\ Signed(q, d, s).LastSigned = output.n + 1
         /\ \/ Signed(q, d, s).PublishedGeneration = q.PublishedGeneration
            \/ /\ Mode = "immediate"
               /\ Signed(q, d, s).PublishedGeneration = output.n + 1
<1> DEFINE g == output.n + 1
           p == [q EXCEPT !.LastSigned = g, !.ForceResign = FALSE,
                          !.PublishedDNSKEYTTL = d, !.PublishedMaxRRSIGTTL = s]
           w == [p EXCEPT !.PendingPublication = TRUE]
<1>1. Signed(q, d, s) = IF Mode = "immediate" THEN ConfirmPublication(p, g, now) ELSE w
  BY DEF Signed, RecordSigned
<1>2. g \in Nat
  OBVIOUS
<1> HIDE DEF g
<1>3. p \in ZoneRecord /\ p.LastSigned = g /\ p.PublishedGeneration = q.PublishedGeneration
  BY <1>2, Zenon DEF ZoneRecord
<1> HIDE DEF p
<1>4. w.LastSigned = p.LastSigned /\ w.PublishedGeneration = p.PublishedGeneration
  BY <1>3 DEF ZoneRecord
<1> HIDE DEF w
<1>5. /\ Signed(q, d, s).LastSigned = g
      /\ \/ Signed(q, d, s).PublishedGeneration = q.PublishedGeneration
         \/ Mode = "immediate" /\ Signed(q, d, s).PublishedGeneration = g
  BY <1>1, <1>2, <1>3, <1>4, ConfirmNumbers
<1> QED
  BY <1>5 DEF g

(* A signing: its generation is the latest, and served in immediate mode.  *)
LEMMA SignsServed ==
  ASSUME ServedInv, PublicationTypes, Signs
  PROVE  /\ Behind(z)' /\ Behind(disk)'
         /\ \A x \in Servers : served'[x].n <= output'.n
<1>1. PICK q \in ZoneRecord, d \in DnskeyTTLs, s \in RrsigTTLs :
        /\ SamePub(q, z) /\ WriteOutput(q, d, s)
        /\ z' \in {q, Signed(q, d, s)} /\ disk' \in {q, disk, Signed(q, d, s)}
  BY DEF Signs
<1> DEFINE w == Signed(q, d, s)
<1>2. now \in Nat /\ output.n \in Nat /\ d \in Nat /\ s \in Nat
  BY ConstantTypes DEF PublicationTypes
<1>3. /\ w.LastSigned = output.n + 1
      /\ \/ w.PublishedGeneration = q.PublishedGeneration
         \/ Mode = "immediate" /\ w.PublishedGeneration = output.n + 1
  BY <1>2, SignedNumbers
<1>4. /\ output'.n = output.n + 1
      /\ \/ Mode # "immediate" /\ \A x \in Servers : served'[x].n = served[x].n
         \/ Mode = "immediate" /\ \A x \in Servers : served'[x].n = output.n + 1
  BY <1>1 DEF WriteOutput
<1> HIDE DEF w
<1>5. ASSUME NEW r \in ZoneRecord, Behind(r)
      PROVE  /\ r.LastSigned <= output'.n /\ r.PublishedGeneration <= output'.n
             /\ \A x \in Servers : r.PublishedGeneration <= served'[x].n
  <2>1. r.LastSigned \in Nat /\ r.PublishedGeneration \in Nat
    BY DEF ZoneRecord
  <2> QED
    BY <1>2, <1>4, <1>5, <2>1 DEF Behind, ServedInv, PublicationTypes
<1>6. Behind(q)
  BY <1>1 DEF ServedInv, Behind, SamePub
<1>7. /\ w.LastSigned <= output'.n /\ w.PublishedGeneration <= output'.n
      /\ \A x \in Servers : w.PublishedGeneration <= served'[x].n
  <2>1. q.PublishedGeneration \in Nat
    BY DEF ZoneRecord
  <2> QED
    BY <1>2, <1>3, <1>4, <1>5, <1>6
<1>8. z' \in {q, w} /\ disk' \in {q, disk, w}
  BY <1>1 DEF w
<1>9. disk \in ZoneRecord /\ Behind(disk)
  BY DEF PublicationTypes, ServedInv
<1>10. \A x \in Servers : served'[x].n <= output'.n
  BY <1>2, <1>4 DEF ServedInv, PublicationTypes
<1> QED
  BY <1>5, <1>6, <1>7, <1>8, <1>9, <1>10 DEF Behind

(* A confirmation: every server was seen to serve the generation.          *)
LEMMA ConfirmsServed ==
  ASSUME ServedInv, PublicationTypes, Confirms
  PROVE  Behind(z)' /\ Behind(disk)'
<1> DEFINE w(t) == ConfirmPublication(z, z.LastSigned, t)
<1>1. PICK t \in Nat :
        /\ Save(w(t))
        /\ \A x \in Servers : z.LastSigned <= served[x].n
  <2>1. z.LastSigned \in Nat
    BY DEF PublicationTypes, ZoneRecord
  <2> QED
    BY <2>1 DEF Confirms, ServedInv, PublicationTypes
<1>2. z \in ZoneRecord /\ z.LastSigned \in Nat
  BY DEF PublicationTypes, ZoneRecord
<1>3. /\ w(t).LastSigned = z.LastSigned
      /\ \/ w(t).PublishedGeneration = z.PublishedGeneration
         \/ w(t).PublishedGeneration = z.LastSigned
  BY <1>2, ConfirmNumbers
<1> HIDE DEF w
<1>4. Behind(w(t))
  BY <1>1, <1>3 DEF ServedInv, Behind
<1>5. z' = w(t) /\ disk' \in {disk, w(t)}
  BY <1>1 DEF Save, SaveOver, Commit, SaveFails
<1>6. Behind(disk) /\ UNCHANGED <<output, served>>
  BY DEF ServedInv, Confirms
<1> QED
  BY <1>4, <1>5, <1>6 DEF Behind

(* A server never goes back to an earlier generation.                      *)
LEMMA TransferServed ==
  ASSUME ServedInv, PublicationTypes, NEW y \in Servers, Transfer(y),
         served \in [Servers -> Generation]
  PROVE  /\ Behind(z)' /\ Behind(disk)'
         /\ \A x \in Servers : /\ served'[x].n <= output'.n
                               /\ served[x].n <= served'[x].n
<1>1. UNCHANGED <<z, disk, output>>
      /\ \A x \in Servers : served'[x] = IF x = y THEN output ELSE served[x]
  BY DEF Transfer, zone
<1>2. \A x \in Servers : served'[x].n <= output'.n /\ served[x].n <= served'[x].n
  BY <1>1 DEF ServedInv, PublicationTypes
<1>3. ASSUME NEW r \in ZoneRecord, Behind(r), NEW x \in Servers
      PROVE  r.PublishedGeneration <= served'[x].n
  <2>1. r.PublishedGeneration \in Nat /\ r.PublishedGeneration <= served[x].n
    BY <1>3 DEF Behind, ZoneRecord
  <2>2. served'[x].n \in Nat /\ served[x].n \in Nat
    BY <1>1 DEF PublicationTypes
  <2> QED
    BY <1>2, <2>1, <2>2
<1>4. z \in ZoneRecord /\ disk \in ZoneRecord /\ Behind(z) /\ Behind(disk)
  BY DEF ServedInv, PublicationTypes
<1> QED
  BY <1>1, <1>2, <1>3, <1>4 DEF Behind

(* What a step may do to the answers of a publication probe.               *)
LEMMA ProbeKinds ==
  ASSUME [Next]_vars, probe \in Probe
  PROVE  \/ probe'.kind # "publication"
         \/ /\ z' = z /\ probe' = probe
            /\ \/ UNCHANGED <<now, served>>
               \/ UNCHANGED served /\ Tick
               \/ UNCHANGED now /\ \E x \in Servers : Transfer(x)
         \/ /\ z' = z /\ UNCHANGED <<now, served>>
            /\ Mode = "probe" /\ probe'.seen = {} /\ probe'.at = now
         \/ /\ z' = z /\ UNCHANGED <<now, served>>
            /\ \E x \in Servers : ProbePublishedSerial(x)
<1>0. NoProbe.kind # "publication"
  BY DEF NoProbe
<1>1. CASE Restart \/ ProbeFails \/ PublicationConfirmed \/ NewDSPresent \/ OldDSAbsent
  BY <1>0, <1>1 DEF Restart, ProbeFails, PublicationConfirmed, NewDSPresent, OldDSAbsent
<1>2. CASE RolloverComplete
  BY <1>2 DEF RolloverComplete, BeginProbe
<1>3. CASE AlgoOldDSRemoval
  BY <1>0, <1>3 DEF AlgoOldDSRemoval, CheckAlgorithm, Unlocked, BeginProbe
<1>4. CASE ProbePublication
  BY <1>4 DEF ProbePublication, BeginProbe, zone, deployment
<1>5. CASE \E x \in Servers : ProbePublishedSerial(x)
  BY <1>5 DEF ProbePublishedSerial, zone, deployment
<1>6. ASSUME NEW p \in Parents, ProbeParentDS(p)
      PROVE  probe'.kind # "publication"
  BY <1>6 DEF ProbeParentDS, Answered, Probe
<1>7. ASSUME \/ SignZone \/ SaveCycle \/ LaunchHook \/ (\E g \in hooks : HookSucceeds(g))
             \/ StartKSKRollover \/ StartAlgorithmRollover \/ ForceComplete
             \/ StartZSKRollover \/ ZSKPrePublish \/ ZSKSigning
             \/ KSKDSAddWait \/ KSKDSPropagation \/ KSKRetiring
             \/ AlgoDSAddWait \/ AlgoDSPropagation \/ AlgoRetire \/ AlgoRetiring
             \/ PublishDSSet
      PROVE  probe' = NoProbe
  BY <1>7 DEF SignZone, SaveCycle, LaunchHook, HookSucceeds, StartKSKRollover,
       StartAlgorithmRollover, ForceComplete, CommandReady, StartZSKRollover,
       ZSKPrePublish, ZSKSigning, CheckZSK, KSKDSAddWait, KSKDSPropagation, KSKRetiring,
       CheckKSK, AlgoDSAddWait, AlgoDSPropagation, AlgoRetire, AlgoRetiring,
       CheckAlgorithm, PublishDSSet, Unlocked
<1>8. CASE \/ (\E g \in hooks : HookFails(g)) \/ (\E p \in Parents : ParentUpdate(p))
           \/ UNCHANGED vars
  BY <1>8 DEF HookFails, ParentUpdate, zone, deployment, vars
<1>9. CASE Tick \/ \E x \in Servers : Transfer(x)
  BY <1>9, Zenon DEF Tick, Transfer, zone
<1> QED
  BY <1>0, <1>1, <1>2, <1>3, <1>4, <1>5, <1>6, <1>7, <1>8, <1>9, Zenon DEF Next

(* Initially the first generation is served and confirmed.                 *)
LEMMA ServedInit == Init => ServedInv
<1> SUFFICES ASSUME Init PROVE ServedInv
  OBVIOUS
<1>1. PICK d \in DnskeyTTLs, s \in RrsigTTLs :
        /\ z = ConfirmPublication(RecordSigned(AddedZone, 1, d, s, FALSE, 1), 1, 1)
        /\ output = [n |-> 1, keys |-> loadKeysForSigning(AddedZone),
                     dnskeyTTL |-> d, rrsigTTL |-> s]
  BY Zenon DEF Init
<1> DEFINE q == RecordSigned(AddedZone, 1, d, s, FALSE, 1)
<1>q. q \in ZoneRecord /\ AddedZone \in ZoneRecord
  BY AddedZoneSound, Zenon DEF SoundRecord
<1>r. AddedZone.PublishedGeneration = 0
  BY DEF AddedZone
<1>s. q.LastSigned = 1 /\ q.PublishedGeneration = AddedZone.PublishedGeneration
  BY <1>q DEF RecordSigned, ZoneRecord
<1>t. z = ConfirmPublication(q, 1, 1)
  BY <1>1
<1> HIDE DEF q
<1>2. z.LastSigned = 1 /\ z.PublishedGeneration \in {0, 1}
  BY <1>q, <1>r, <1>s, <1>t, ConfirmNumbers
<1>3. output.n = 1
  BY <1>1
<1>4. disk = z /\ \A x \in Servers : served[x].n = 1
  BY <1>3 DEF Init
<1>5. probe.kind # "publication"
  BY DEF Init, NoProbe
<1>6. Behind(z) /\ Behind(disk) /\ \A x \in Servers : served[x].n <= output.n
  BY <1>2, <1>3, <1>4 DEF Behind
<1> QED
  BY <1>5, <1>6 DEF ServedInv

(* Every step preserves the invariant.                                     *)
LEMMA ServedNext == SoundInv /\ ServedInv /\ [Next]_vars => ServedInv'
<1> SUFFICES ASSUME SoundInv, ServedInv, [Next]_vars PROVE ServedInv'
  OBVIOUS
<1>0. PublicationTypes /\ probe \in Probe /\ served \in [Servers -> Generation]
  BY PublicationTyped DEF SoundInv, TypeOK
<1>1. /\ Behind(z)' /\ Behind(disk)'
      /\ \A x \in Servers : served'[x].n <= output'.n
  <2>1. CASE Signs
    BY <1>0, <2>1, SignsServed
  <2>2. CASE Confirms
    <3>1. UNCHANGED <<served, output>>
      BY <2>2 DEF Confirms
    <3> QED
      BY <1>0, <2>2, <3>1, ConfirmsServed DEF ServedInv
  <2>3. CASE Quiet /\ UNCHANGED <<output, served>>
    BY <2>3 DEF Quiet, SamePub, ServedInv, Behind
  <2>4. CASE \E x \in Servers : Transfer(x)
    BY <1>0, <2>4, TransferServed
  <2>5. CASE Tick
    BY <2>5 DEF Tick, zone, ServedInv, Behind
  <2> QED
    BY <2>1, <2>2, <2>3, <2>4, <2>5, StepKinds
<1>2. ASSUME probe'.kind = "publication", NEW x \in Servers, x \in probe'.seen
      PROVE  z'.LastSigned <= served'[x].n
  <2>0. z.LastSigned \in Nat /\ served[x].n \in Nat /\ output.n \in Nat
    BY <1>0 DEF PublicationTypes, ZoneRecord
  <2>1. CASE z' = z /\ probe' = probe /\ served' = served
    BY <1>2, <2>1 DEF ServedInv
  <2>2. CASE z' = z /\ probe' = probe /\ \E y \in Servers : Transfer(y)
    <3>1. served'[x] \in {served[x], output}
      BY <1>0, <2>2 DEF Transfer
    <3> QED
      BY <1>2, <2>0, <2>2, <3>1 DEF ServedInv, Behind
  <2>3. CASE probe'.seen = {}
    BY <1>2, <2>3
  <2>4. ASSUME NEW y \in Servers, ProbePublishedSerial(y), z' = z, served' = served
        PROVE  z'.LastSigned <= served'[x].n
    <3>1. /\ served[y].n = z.LastSigned /\ probe.kind = "publication"
          /\ probe'.seen = probe.seen \cup {y}
      BY <1>0, <2>4 DEF ProbePublishedSerial, Answered, Probe
    <3> QED
      BY <1>2, <2>0, <2>4, <3>1 DEF ServedInv
  <2> QED
    BY <1>0, <1>2, <2>1, <2>2, <2>3, <2>4, ProbeKinds
<1> QED
  BY <1>1, <1>2 DEF ServedInv

(* So it always holds.                                                     *)
LEMMA ServedAlways == Spec => []ServedInv
BY ServedInit, ServedNext, Soundness, PTL DEF Spec

(* Whatever fails, restarts or overtakes, a generation is recorded as      *)
(* published only if every server serves it or a later one.                *)
THEOREM PublishedIsServed == Spec => []ConfirmedIsServed
<1>1. SoundInv /\ ServedInv => ConfirmedIsServed
  BY PublicationTyped DEF ServedInv, Behind, PublicationTypes, ZoneRecord, ConfirmedIsServed
<1> QED
  BY <1>1, ServedAlways, Soundness, PTL
=============================================================================
