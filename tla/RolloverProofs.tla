--------------------------- MODULE RolloverProofs ---------------------------
(***************************************************************************)
(* Theorems about Rollover, for every value of the constants: the type     *)
(* invariant, and that every zone record ever saved or held is one         *)
(* LoadState accepts.                                                      *)
(*                                                                         *)
(* A zone record is changed by a handful of functions on records.  The     *)
(* lemmas of the first part say what those functions preserve; the proofs  *)
(* about actions only combine them.                                        *)
(***************************************************************************)
EXTENDS Rollover, TLAPS

(* The types of the constants, as the proofs use them.                     *)
LEMMA ConstantTypes ==
  /\ ZSKLifetime \in Nat /\ ParentTTL \in Nat /\ ParentDSTTL \in Nat
  /\ CfgDnskeyTTL \in Nat /\ Day \in Nat
  /\ DnskeyTTLs \subseteq Nat /\ RrsigTTLs \subseteq Nat
BY RolloverAssumption, ZoneAssumption DEF RolloverAssumption, ZoneAssumption

-----------------------------------------------------------------------------
(* Sound records: of the right type, accepted by LoadState, and naming     *)
(* only keys that have been minted.                                        *)

Tagged(r, n) == r.KSK.id <= n /\ r.ZSK.id <= n /\ r.Rollover.new.id <= n

SoundRecord(n) == {r \in ZoneRecord : validateRolloverState(r) /\ Tagged(r, n)}

(* A record stays sound when more keys have been minted.                   *)
LEMMA SoundGrows ==
  ASSUME NEW m \in Nat, NEW n \in Nat, m <= n
  PROVE  SoundRecord(m) \subseteq SoundRecord(n)
BY DEF SoundRecord, Tagged, ZoneRecord, RolloverRecord, Key

(* The functions that leave the keys and the rollover's identity alone     *)
(* preserve soundness as soon as they preserve the type.                   *)
LEMMA SameKeysSound ==
  ASSUME NEW n \in Nat, NEW r \in SoundRecord(n), NEW s \in ZoneRecord,
         s.KSK = r.KSK, s.ZSK = r.ZSK,
         s.Rollover.type = r.Rollover.type, s.Rollover.State = r.Rollover.State,
         s.Rollover.old = r.Rollover.old, s.Rollover.new = r.Rollover.new,
         s.Rollover.oldZSK = r.Rollover.oldZSK, s.Rollover.newZSK = r.Rollover.newZSK
  PROVE  s \in SoundRecord(n)
BY DEF SoundRecord, Tagged, validateRolloverState

(* ConfirmPublication keeps a record sound.                                *)
LEMMA ConfirmSound ==
  ASSUME NEW n \in Nat, NEW r \in SoundRecord(n), NEW g \in Nat, NEW t \in Nat
  PROVE  ConfirmPublication(r, g, t) \in SoundRecord(n)
<1> DEFINE pd == IF r.ServedDNSKEYTTL = 0 THEN r.PublishedDNSKEYTTL
                                          ELSE r.ServedDNSKEYTTL
           pr == IF r.ServedMaxRRSIGTTL = 0 THEN r.PublishedMaxRRSIGTTL
                                            ELSE r.ServedMaxRRSIGTTL
           d == Later(r.DNSKEYCacheHorizon, t + pd)
           s == Later(r.RRSIGCacheHorizon, t + pr)
           b == r.PendingPublication /\ r.LastSigned > g
           new(c) == [r EXCEPT !.DNSKEYCacheHorizon = d, !.RRSIGCacheHorizon = s,
                               !.ServedDNSKEYTTL = r.PublishedDNSKEYTTL,
                               !.ServedMaxRRSIGTTL = r.PublishedMaxRRSIGTTL,
                               !.PublishedAt = t, !.PublishedGeneration = g,
                               !.PendingPublication = c]
<1>0. r \in ZoneRecord
  BY DEF SoundRecord
<1>1. pd \in Nat /\ pr \in Nat /\ r.DNSKEYCacheHorizon \in Nat /\ r.RRSIGCacheHorizon \in Nat
  BY <1>0 DEF ZoneRecord
<1>2. ConfirmPublication(r, g, t) = IF g < r.PublishedGeneration THEN r ELSE new(b)
  BY DEF ConfirmPublication
<1> HIDE DEF pd, pr
<1>3. d \in Nat /\ s \in Nat
  BY <1>1 DEF Later
<1>4. b \in BOOLEAN
  OBVIOUS
<1> HIDE DEF d, s, b
<1>5. \A c \in BOOLEAN : new(c) \in ZoneRecord
  BY <1>0, <1>3, Zenon DEF ZoneRecord
<1>6. \A c \in BOOLEAN : /\ new(c).KSK = r.KSK /\ new(c).ZSK = r.ZSK
                         /\ new(c).Rollover = r.Rollover
  BY <1>0 DEF ZoneRecord
<1> HIDE DEF new
<1>7. \A c \in BOOLEAN : new(c) \in SoundRecord(n)
  BY <1>5, <1>6, SameKeysSound
<1> QED
  BY <1>2, <1>4, <1>7

(* So does recording a signing.                                            *)
LEMMA SignedSound ==
  ASSUME NEW n \in Nat, NEW r \in SoundRecord(n), NEW g \in Nat, NEW t \in Nat,
         NEW d \in Nat, NEW s \in Nat, NEW immediate \in BOOLEAN
  PROVE  RecordSigned(r, g, d, s, immediate, t) \in SoundRecord(n)
<1> DEFINE q == [r EXCEPT !.LastSigned = g, !.ForceResign = FALSE,
                          !.PublishedDNSKEYTTL = d, !.PublishedMaxRRSIGTTL = s]
           p == [q EXCEPT !.PendingPublication = TRUE]
<1>1. r \in ZoneRecord
  BY DEF SoundRecord
<1>2. q \in ZoneRecord /\ q.KSK = r.KSK /\ q.ZSK = r.ZSK /\ q.Rollover = r.Rollover
  BY <1>1, Zenon DEF ZoneRecord
<1>3. RecordSigned(r, g, d, s, immediate, t)
        = IF immediate THEN ConfirmPublication(q, g, t) ELSE p
  BY DEF RecordSigned
<1> HIDE DEF q
<1>4. p \in ZoneRecord /\ p.KSK = r.KSK /\ p.ZSK = r.ZSK /\ p.Rollover = r.Rollover
  BY <1>2, Zenon DEF ZoneRecord
<1> HIDE DEF p
<1>5. q \in SoundRecord(n) /\ p \in SoundRecord(n)
  BY <1>2, <1>4, SameKeysSound
<1> QED
  BY <1>3, <1>5, ConfirmSound

(* The waits are natural numbers.                                          *)
LEMMA FloorTypes ==
  ASSUME NEW r \in ZoneRecord
  PROVE  /\ dnskeyTTLFloor(r) \in Nat /\ zskRetireFloor(r) \in Nat
         /\ newKeyFloor(r) \in Nat
<1>1. r.PublishedDNSKEYTTL \in Nat /\ r.PublishedMaxRRSIGTTL \in Nat
  BY DEF ZoneRecord
<1>2. dnskeyTTLFloor(r) \in Nat
  BY <1>1, ConstantTypes DEF dnskeyTTLFloor, Later
<1>3. zskRetireFloor(r) \in Nat
  BY <1>1, <1>2 DEF zskRetireFloor, Later
<1> QED
  BY <1>2, <1>3 DEF newKeyFloor

(* An update of PhaseHorizon alone keeps a record sound.                   *)
LEMMA HorizonSound ==
  ASSUME NEW n \in Nat, NEW r \in SoundRecord(n), NEW h \in Nat
  PROVE  [r EXCEPT !.Rollover.PhaseHorizon = h] \in SoundRecord(n)
<1> DEFINE q == [r EXCEPT !.Rollover.PhaseHorizon = h]
<1>1. r \in ZoneRecord
  BY DEF SoundRecord
<1>2. q \in ZoneRecord
  BY <1>1 DEF ZoneRecord, RolloverRecord
<1>3. /\ q.KSK = r.KSK /\ q.ZSK = r.ZSK
      /\ q.Rollover = [r.Rollover EXCEPT !.PhaseHorizon = h]
  BY <1>1 DEF ZoneRecord
<1>4. /\ q.Rollover.type = r.Rollover.type /\ q.Rollover.State = r.Rollover.State
      /\ q.Rollover.old = r.Rollover.old /\ q.Rollover.new = r.Rollover.new
      /\ q.Rollover.oldZSK = r.Rollover.oldZSK /\ q.Rollover.newZSK = r.Rollover.newZSK
  BY <1>1, <1>3 DEF ZoneRecord, RolloverRecord
<1> HIDE DEF q
<1>5. q \in SoundRecord(n)
  BY <1>2, <1>3, <1>4, SameKeysSound, Zenon
<1> QED
  BY <1>5 DEF q

(* The stamp of a KSK or algorithm rollover keeps a record sound, and      *)
(* changes neither the phase nor the rollover's type.                      *)
LEMMA StampKeySound ==
  ASSUME NEW n \in Nat, NEW r \in SoundRecord(n)
  PROVE  /\ stampNewKeyPropagation(r) \in SoundRecord(n)
         /\ stampNewKeyPropagation(r).Rollover.State = r.Rollover.State
         /\ stampNewKeyPropagation(r).Rollover.type = r.Rollover.type
<1> DEFINE d == Later(r.PublishedAt + newKeyFloor(r), r.DNSKEYCacheHorizon)
           h == IF r.Rollover.type = "algorithm" THEN Later(d, r.RRSIGCacheHorizon) ELSE d
           q == [r EXCEPT !.Rollover.PhaseHorizon = h]
<1>1. r \in ZoneRecord
  BY DEF SoundRecord
<1>2. /\ r.PublishedAt \in Nat /\ r.DNSKEYCacheHorizon \in Nat
      /\ r.RRSIGCacheHorizon \in Nat /\ newKeyFloor(r) \in Nat
  BY <1>1, FloorTypes DEF ZoneRecord
<1>3. stampNewKeyPropagation(r) = q \/ stampNewKeyPropagation(r) = r
  BY DEF stampNewKeyPropagation
<1>4. d \in Nat
  BY <1>2 DEF Later
<1>5. h \in Nat
  BY <1>2, <1>4 DEF Later
<1> HIDE DEF h
<1>6. q \in SoundRecord(n)
  BY <1>5, HorizonSound
<1>7. q.Rollover.State = r.Rollover.State /\ q.Rollover.type = r.Rollover.type
  BY <1>1 DEF ZoneRecord, RolloverRecord
<1> QED
  BY <1>3, <1>6, <1>7, Zenon

(* So does the stamp of a ZSK phase.                                       *)
LEMMA StampPhaseSound ==
  ASSUME NEW n \in Nat, NEW r \in SoundRecord(n), NEW f \in Nat, NEW c \in Nat
  PROVE  /\ stampPhasePublication(r, f, c) \in SoundRecord(n)
         /\ stampPhasePublication(r, f, c).Rollover.State = r.Rollover.State
         /\ stampPhasePublication(r, f, c).Rollover.type = r.Rollover.type
<1> DEFINE h == Later(r.PublishedAt + f, c)
           q == [r EXCEPT !.Rollover.PhaseHorizon = h]
<1>1. r \in ZoneRecord /\ r.PublishedAt \in Nat
  BY DEF SoundRecord, ZoneRecord
<1>2. h \in Nat
  BY <1>1 DEF Later
<1>3. stampPhasePublication(r, f, c) = q \/ stampPhasePublication(r, f, c) = r
  BY DEF stampPhasePublication
<1> HIDE DEF h
<1>4. q \in SoundRecord(n)
  BY <1>2, HorizonSound
<1>5. q.Rollover.State = r.Rollover.State /\ q.Rollover.type = r.Rollover.type
  BY <1>1 DEF ZoneRecord, RolloverRecord
<1> QED
  BY <1>3, <1>4, <1>5, Zenon

(* A change of phase within a KSK or an algorithm rollover.                *)
LEMMA PhaseSound ==
  ASSUME NEW n \in Nat, NEW r \in SoundRecord(n), NEW s \in ZoneRecord,
         s.KSK = r.KSK, s.ZSK = r.ZSK,
         s.Rollover.type = r.Rollover.type,
         s.Rollover.old = r.Rollover.old, s.Rollover.new = r.Rollover.new,
         s.Rollover.oldZSK = r.Rollover.oldZSK, s.Rollover.newZSK = r.Rollover.newZSK,
         \/ r.Rollover.type = "ksk" /\ s.Rollover.State \in KSKStates
         \/ r.Rollover.type = "algorithm" /\ s.Rollover.State \in AlgoStates
  PROVE  s \in SoundRecord(n)
BY DEF SoundRecord, Tagged, validateRolloverState

(* In particular the entry into a phase, with or without a forced signing. *)
LEMMA RetireSound ==
  ASSUME NEW n \in Nat, NEW r \in SoundRecord(n), NEW state, Here \in Stamp,
         \/ r.Rollover.type = "ksk" /\ state \in KSKStates
         \/ r.Rollover.type = "algorithm" /\ state \in AlgoStates
  PROVE  EnterPhase(r, state) \in SoundRecord(n) /\ Retire(r, state) \in SoundRecord(n)
<1> DEFINE q == EnterPhase(r, state)
           w == [q EXCEPT !.ForceResign = TRUE]
<1>1. r \in ZoneRecord
  BY DEF SoundRecord
<1>2. q \in ZoneRecord
  BY <1>1, Zenon DEF EnterPhase, ZoneRecord, RolloverRecord
<1>3. /\ q.KSK = r.KSK /\ q.ZSK = r.ZSK
      /\ q.Rollover = [r.Rollover EXCEPT !.State = state, !.PhaseStarted = Here]
  BY <1>1 DEF EnterPhase, ZoneRecord
<1>4. /\ q.Rollover.type = r.Rollover.type /\ q.Rollover.State = state
      /\ q.Rollover.old = r.Rollover.old /\ q.Rollover.new = r.Rollover.new
      /\ q.Rollover.oldZSK = r.Rollover.oldZSK /\ q.Rollover.newZSK = r.Rollover.newZSK
  BY <1>1, <1>3 DEF ZoneRecord, RolloverRecord
<1> HIDE DEF q
<1>5. q \in SoundRecord(n)
  BY <1>2, <1>3, <1>4, PhaseSound, Zenon
<1>6. w \in ZoneRecord /\ w.KSK = q.KSK /\ w.ZSK = q.ZSK /\ w.Rollover = q.Rollover
  BY <1>2, Zenon DEF ZoneRecord
<1>7. w = Retire(r, state)
  BY DEF Retire, q
<1> HIDE DEF w
<1>8. w \in SoundRecord(n)
  BY <1>5, <1>6, SameKeysSound
<1> QED
  BY <1>5, <1>7, <1>8 DEF q

(* The end of a rollover.                                                  *)
LEMMA NoRolloverSound ==
  ASSUME NEW n \in Nat, NEW r \in SoundRecord(n)
  PROVE  /\ [r EXCEPT !.Rollover = NoRollover] \in SoundRecord(n)
         /\ ZSKCompleted(r) \in SoundRecord(n)
<1>1. r \in ZoneRecord /\ r.KSK.id <= n /\ r.ZSK.id <= n
  BY DEF SoundRecord, Tagged
<1>2. NoRollover \in RolloverRecord
  BY DEF NoRollover, RolloverRecord, NoKey, Key, NoStamp, Stamp
<1>3. NoRollover.type = "none" /\ NoRollover.new.id <= n
  BY DEF NoRollover, NoKey
<1> DEFINE q == [r EXCEPT !.Rollover = NoRollover]
           w == ZSKCompleted(r)
<1>4. q \in ZoneRecord /\ q.KSK = r.KSK /\ q.ZSK = r.ZSK /\ q.Rollover = NoRollover
  BY <1>1, <1>2 DEF ZoneRecord
<1>5. w \in ZoneRecord /\ w.KSK = r.KSK /\ w.ZSK = r.ZSK /\ w.Rollover = NoRollover
  BY <1>1, <1>2, Zenon DEF ZoneRecord, ZSKCompleted
<1> HIDE DEF q, w
<1>6. q \in SoundRecord(n) /\ w \in SoundRecord(n)
  BY <1>1, <1>3, <1>4, <1>5 DEF SoundRecord, Tagged, validateRolloverState
<1> QED
  BY <1>6 DEF q, w

(* A KSK rollover starts with a key whose tag is new.                      *)
LEMMA KSKStartedSound ==
  ASSUME NEW n \in Nat, NEW r \in SoundRecord(n), Here \in Stamp
  PROVE  KSKStarted(r, [id |-> n + 1, alg |-> r.KSK.alg]) \in SoundRecord(n + 1)
<1> DEFINE new == [id |-> n + 1, alg |-> r.KSK.alg]
           ro == [NoRollover EXCEPT !.type = "ksk", !.State = "ds_add_wait",
                                    !.old = r.KSK, !.new = new, !.Started = Here]
           q == KSKStarted(r, new)
<1>1. /\ r \in ZoneRecord /\ r.KSK.id <= n /\ r.ZSK.id <= n
      /\ r.KSK \in Key /\ r.ZSK \in Key
  BY DEF SoundRecord, Tagged, ZoneRecord
<1>2. new \in Key /\ new.id = n + 1 /\ new # r.KSK /\ n <= n + 1
  BY <1>1 DEF Key
<1>3. r.ZSK.id <= n + 1
  BY <1>1 DEF Key
<1> HIDE DEF new
<1>4. ro \in RolloverRecord /\ ro.type = "ksk" /\ ro.State \in KSKStates
      /\ ro.old = r.KSK /\ ro.new = new
  BY <1>1, <1>2, Zenon DEF NoRollover, RolloverRecord, KSKStates, NoKey, Key, NoStamp, Stamp
<1>5. q = [r EXCEPT !.Rollover = ro, !.KSK = new, !.ForceResign = TRUE]
  BY DEF KSKStarted
<1> HIDE DEF ro, q
<1>6. q \in ZoneRecord /\ q.KSK = new /\ q.ZSK = r.ZSK /\ q.Rollover = ro
  BY <1>1, <1>2, <1>4, <1>5, Zenon DEF ZoneRecord
<1>7. q \in SoundRecord(n + 1)
  BY <1>2, <1>3, <1>4, <1>6 DEF SoundRecord, Tagged, validateRolloverState
<1> QED
  BY <1>7 DEF q, new

(* An algorithm rollover starts with two such keys of another algorithm.   *)
LEMMA AlgorithmStartedSound ==
  ASSUME NEW n \in Nat, NEW r \in SoundRecord(n), Here \in Stamp, now \in Nat
  PROVE  AlgorithmStarted(r, [id |-> n + 1, alg |-> r.KSK.alg + 1],
                             [id |-> n + 2, alg |-> r.KSK.alg + 1])
           \in SoundRecord(n + 2)
<1> DEFINE newK == [id |-> n + 1, alg |-> r.KSK.alg + 1]
           newZ == [id |-> n + 2, alg |-> r.KSK.alg + 1]
           ro == [NoRollover EXCEPT
                    !.type = "algorithm", !.State = "algo_ds_add_wait",
                    !.old = r.KSK, !.new = newK,
                    !.oldZSK = r.ZSK, !.newZSK = newZ, !.Started = Here]
           q == AlgorithmStarted(r, newK, newZ)
<1>1. /\ r \in ZoneRecord /\ r.KSK.id <= n /\ r.ZSK.id <= n
      /\ r.KSK \in Key /\ r.ZSK \in Key
  BY DEF SoundRecord, Tagged, ZoneRecord
<1>2. /\ newK \in Key /\ newK.id <= n + 2 /\ newK # r.KSK /\ newK.alg # r.KSK.alg
      /\ newZ \in Key /\ newZ.id <= n + 2 /\ newZ # r.ZSK
  BY <1>1 DEF Key
<1> HIDE DEF newK, newZ
<1>3. /\ ro \in RolloverRecord /\ ro.type = "algorithm" /\ ro.State \in AlgoStates
      /\ ro.old = r.KSK /\ ro.new = newK /\ ro.oldZSK = r.ZSK /\ ro.newZSK = newZ
  BY <1>1, <1>2, Zenon DEF NoRollover, RolloverRecord, AlgoStates, NoKey, Key, NoStamp, Stamp
<1>4. /\ q = [r EXCEPT !.Rollover = ro, !.KSK = newK, !.ZSK = newZ,
                       !.ZSKExpires = now + ZSKLifetime, !.ForceResign = TRUE]
      /\ now + ZSKLifetime \in Nat
  BY ConstantTypes DEF AlgorithmStarted
<1> HIDE DEF ro, q
<1>5. q \in ZoneRecord /\ q.KSK = newK /\ q.ZSK = newZ /\ q.Rollover = ro
  BY <1>1, <1>2, <1>3, <1>4, Zenon DEF ZoneRecord
<1>6. q \in SoundRecord(n + 2)
  BY <1>2, <1>3, <1>5 DEF SoundRecord, Tagged, validateRolloverState
<1> QED
  BY <1>6 DEF q, newK, newZ

(* A ZSK rollover starts with a new key that is not live yet.              *)
LEMMA ZSKStartedSound ==
  ASSUME NEW n \in Nat, NEW r \in SoundRecord(n), Here \in Stamp
  PROVE  ZSKStarted(r, [id |-> n + 1, alg |-> r.ZSK.alg]) \in SoundRecord(n + 1)
<1> DEFINE new == [id |-> n + 1, alg |-> r.ZSK.alg]
           ro == [NoRollover EXCEPT !.type = "zsk", !.State = "pre_publish",
                                    !.old = r.ZSK, !.new = new, !.Started = Here]
           q == ZSKStarted(r, new)
<1>1. /\ r \in ZoneRecord /\ r.KSK.id <= n /\ r.ZSK.id <= n
      /\ r.KSK \in Key /\ r.ZSK \in Key
  BY DEF SoundRecord, Tagged, ZoneRecord
<1>2. new \in Key /\ new.id <= n + 1 /\ new # r.ZSK
  BY <1>1 DEF Key
<1>3. r.ZSK.id <= n + 1 /\ r.KSK.id <= n + 1
  BY <1>1 DEF Key
<1> HIDE DEF new
<1>4. ro \in RolloverRecord /\ ro.type = "zsk" /\ ro.State = "pre_publish"
      /\ ro.old = r.ZSK /\ ro.new = new
  BY <1>1, <1>2, Zenon DEF NoRollover, RolloverRecord, ZSKStates, NoKey, Key, NoStamp, Stamp
<1>5. q = [r EXCEPT !.Rollover = ro, !.ForceResign = TRUE]
  BY DEF ZSKStarted
<1> HIDE DEF ro, q
<1>6. q \in ZoneRecord /\ q.KSK = r.KSK /\ q.ZSK = r.ZSK /\ q.Rollover = ro
  BY <1>1, <1>4, <1>5, Zenon DEF ZoneRecord
<1>7. q \in SoundRecord(n + 1)
  BY <1>2, <1>3, <1>4, <1>6 DEF SoundRecord, Tagged, validateRolloverState
<1> QED
  BY <1>7 DEF q, new

(* The switch to the new ZSK makes it the live key.                        *)
LEMMA ZSKSwitchedSound ==
  ASSUME NEW n \in Nat, NEW r \in SoundRecord(n), Here \in Stamp,
         r.Rollover.type = "zsk", r.Rollover.State = "pre_publish"
  PROVE  ZSKSwitched(r) \in SoundRecord(n)
<1> DEFINE q == ZSKSwitched(r)
<1>1. /\ r \in ZoneRecord /\ r.KSK.id <= n /\ r.Rollover.new.id <= n
      /\ r.Rollover.old # r.Rollover.new
  BY DEF SoundRecord, Tagged, validateRolloverState
<1>2. r.Rollover.Started.at + ZSKLifetime \in Nat /\ r.Rollover.new \in Key
  BY <1>1, ConstantTypes DEF ZoneRecord, RolloverRecord, Stamp
<1>3. q \in ZoneRecord
  BY <1>1, <1>2, Zenon DEF ZSKSwitched, ZoneRecord, RolloverRecord, ZSKStates
<1>4. /\ q.KSK = r.KSK /\ q.ZSK = r.Rollover.new
      /\ q.Rollover = [r.Rollover EXCEPT !.State = "signing", !.PhaseStarted = Here,
                                         !.PhaseHorizon = 0]
  BY <1>1 DEF ZSKSwitched, ZoneRecord
<1>5. /\ q.Rollover.type = "zsk" /\ q.Rollover.State = "signing"
      /\ q.Rollover.old = r.Rollover.old /\ q.Rollover.new = r.Rollover.new
  BY <1>1, <1>4 DEF ZoneRecord, RolloverRecord
<1> HIDE DEF q
<1>6. q \in SoundRecord(n)
  BY <1>1, <1>3, <1>4, <1>5, Zenon DEF SoundRecord, Tagged, validateRolloverState
<1> QED
  BY <1>6 DEF q

(* `rollover complete`.                                                    *)
LEMMA DSObservedSound ==
  ASSUME NEW n \in Nat, NEW r \in SoundRecord(n), Here \in Stamp,
         NEW t \in Nat, NEW ttl \in Nat, r.Rollover.State \in AddWait
  PROVE  DSObserved(r, t, ttl) \in SoundRecord(n)
<1> DEFINE p == stampNewKeyPropagation(r)
           next == IF r.Rollover.type = "ksk" THEN "ds_propagation_wait"
                                              ELSE "algo_ds_propagation_wait"
           q == [p EXCEPT !.Rollover.State = next, !.Rollover.DSObservedAt = t,
                          !.Rollover.ParentDSTTL = ttl, !.Rollover.PhaseStarted = Here]
<1>1. p \in SoundRecord(n) /\ p.Rollover.State = r.Rollover.State
      /\ p.Rollover.type = r.Rollover.type
  BY StampKeySound
<1>2. DSObserved(r, t, ttl) = q
  BY DEF DSObserved
<1> HIDE DEF p
<1>3. p \in ZoneRecord
  BY <1>1 DEF SoundRecord
<1>4. \/ p.Rollover.type = "ksk" /\ next \in KSKStates
      \/ p.Rollover.type = "algorithm" /\ next \in AlgoStates
      \/ p.Rollover.type = "none"
  BY <1>1 DEF SoundRecord, validateRolloverState, AddWait, KSKStates, AlgoStates
<1>5. next \in KSKStates \cup AlgoStates
  BY DEF KSKStates, AlgoStates
<1> HIDE DEF next
<1>6. q \in ZoneRecord
  BY <1>3, <1>5, Zenon DEF ZoneRecord, RolloverRecord
<1>7. /\ q.KSK = p.KSK /\ q.ZSK = p.ZSK
      /\ q.Rollover = [p.Rollover EXCEPT !.State = next, !.DSObservedAt = t,
                         !.ParentDSTTL = ttl, !.PhaseStarted = Here]
  BY <1>3 DEF ZoneRecord
<1>8. /\ q.Rollover.type = p.Rollover.type /\ q.Rollover.State = next
      /\ q.Rollover.old = p.Rollover.old /\ q.Rollover.new = p.Rollover.new
      /\ q.Rollover.oldZSK = p.Rollover.oldZSK /\ q.Rollover.newZSK = p.Rollover.newZSK
  BY <1>3, <1>7, Zenon DEF ZoneRecord, RolloverRecord
<1> HIDE DEF q
<1>9. CASE p.Rollover.type = "none"
  BY <1>1, <1>2, <1>6, <1>7, <1>8, <1>9, Zenon DEF SoundRecord, Tagged, validateRolloverState
<1>10. CASE p.Rollover.type # "none"
  BY <1>1, <1>2, <1>4, <1>6, <1>7, <1>8, <1>10, PhaseSound, Zenon
<1> QED
  BY <1>9, <1>10

(* The remaining updates of a record touch neither keys nor phase.         *)
LEMMA FlagsSound ==
  ASSUME NEW n \in Nat, NEW r \in SoundRecord(n)
  PROVE  /\ [r EXCEPT !.ForceResign = FALSE] \in SoundRecord(n)
         /\ \A b \in BOOLEAN : [r EXCEPT !.Rollover.DSAddPushed = b] \in SoundRecord(n)
         /\ [r EXCEPT !.Rollover.DSRemovalPushed = TRUE] \in SoundRecord(n)
         /\ \A t, ttl \in Nat : [r EXCEPT !.Rollover.OldDSRemovedAt = t,
                                          !.Rollover.ParentDSTTL = ttl] \in SoundRecord(n)
<1> DEFINE q1 == [r EXCEPT !.ForceResign = FALSE]
           q2(b) == [r EXCEPT !.Rollover.DSAddPushed = b]
           q3 == [r EXCEPT !.Rollover.DSRemovalPushed = TRUE]
           q4(t, ttl) == [r EXCEPT !.Rollover.OldDSRemovedAt = t,
                                   !.Rollover.ParentDSTTL = ttl]
           Same(q) == /\ q \in ZoneRecord /\ q.KSK = r.KSK /\ q.ZSK = r.ZSK
                      /\ q.Rollover.type = r.Rollover.type
                      /\ q.Rollover.State = r.Rollover.State
                      /\ q.Rollover.old = r.Rollover.old
                      /\ q.Rollover.new = r.Rollover.new
                      /\ q.Rollover.oldZSK = r.Rollover.oldZSK
                      /\ q.Rollover.newZSK = r.Rollover.newZSK
<1>0. r \in ZoneRecord
  BY DEF SoundRecord
<1>1. Same(q1)
  BY <1>0, Zenon DEF ZoneRecord, RolloverRecord
<1>2. \A b \in BOOLEAN : Same(q2(b))
  BY <1>0 DEF ZoneRecord, RolloverRecord
<1>3. Same(q3)
  BY <1>0, Zenon DEF ZoneRecord, RolloverRecord
<1>4. ASSUME NEW t \in Nat, NEW ttl \in Nat PROVE Same(q4(t, ttl))
  BY <1>0, Zenon DEF ZoneRecord, RolloverRecord
<1> HIDE DEF q1, q2, q3, q4
<1>5. \A q : Same(q) => q \in SoundRecord(n)
  BY SameKeysSound
<1> HIDE DEF Same
<1>6. q1 \in SoundRecord(n) /\ q3 \in SoundRecord(n)
  BY <1>1, <1>3, <1>5
<1>7. \A b \in BOOLEAN : q2(b) \in SoundRecord(n)
  BY <1>2, <1>5
<1>8. \A t, ttl \in Nat : q4(t, ttl) \in SoundRecord(n)
  BY <1>4, <1>5
<1> QED
  BY <1>6, <1>7, <1>8, Zenon DEF q1, q2, q3, q4

(* A DS set is a set of keys.                                              *)
LEMMA BuildDSSetType ==
  ASSUME NEW r \in ZoneRecord, NEW t \in Nat
  PROVE  BuildDSSet(r, t) \subseteq Key
BY DEF BuildDSSet, ZoneRecord, RolloverRecord

(* pushOldDSRemoval.                                                       *)
LEMMA OldDSRemovalSound ==
  ASSUME NEW n \in Nat, NEW r \in SoundRecord(n), regDS \subseteq Key, now \in Nat,
         NEW o \in OldDSRemoval(r)
  PROVE  /\ o.z \in SoundRecord(n) /\ o.ds \subseteq Key
         /\ o.z.Rollover.type = r.Rollover.type
<1> DEFINE q == [r EXCEPT !.Rollover.DSRemovalPushed = TRUE]
<1>1. r \in ZoneRecord
  BY DEF SoundRecord
<1>2. /\ o.z \in {r, q}
      /\ o.ds \in {regDS, BuildDSSet(r, now), regDS \cup BuildDSSet(r, now), {}}
  BY DEF OldDSRemoval
<1>3. q \in SoundRecord(n)
  BY FlagsSound, Zenon
<1>4. q.Rollover.type = r.Rollover.type
  BY <1>1 DEF ZoneRecord, RolloverRecord
<1>5. BuildDSSet(r, now) \subseteq Key
  BY <1>1, BuildDSSetType
<1> HIDE DEF q
<1> QED
  BY <1>2, <1>3, <1>4, <1>5

(* Whatever a save does, memory and disk hold a record that was already    *)
(* there, the new one, or one that an earlier save of the operation wrote. *)
LEMMA SaveKeeps ==
  ASSUME NEW S, z \in S, disk \in S, NEW new \in S, NEW mid \in S
  PROVE  /\ DiskAfter(mid) \in S
         /\ SaveOver(new, mid) \/ SaveFails(new, mid) \/ Commit(new)
              \/ Save(new) \/ SaveFails(new, disk)
              => z' \in S /\ disk' \in S
BY DEF SaveOver, Save, Commit, SaveFails, DiskAfter

(* A signing keeps a record sound.                                         *)
LEMMA SigningSound ==
  ASSUME NEW n \in Nat, NEW r \in SoundRecord(n), now \in Nat, output.n \in Nat,
         NEW d \in DnskeyTTLs, NEW s \in RrsigTTLs
  PROVE  Signed(r, d, s) \in SoundRecord(n)
<1>1. output.n + 1 \in Nat /\ d \in Nat /\ s \in Nat /\ (Mode = "immediate") \in BOOLEAN
  BY ConstantTypes
<1> QED
  BY <1>1, SignedSound, Zenon DEF Signed

(* So does a command that signs after its own transition.                  *)
LEMMA SignAfterKeeps ==
  ASSUME NEW n \in Nat, z \in SoundRecord(n), disk \in SoundRecord(n),
         NEW new \in SoundRecord(n), now \in Nat, output.n \in Nat, SignAfter(new)
  PROVE  z' \in SoundRecord(n) /\ disk' \in SoundRecord(n)
BY SigningSound DEF SignAfter, Commit

-----------------------------------------------------------------------------
(* Both zone records stay sound.                                           *)

SoundInv == TypeOK /\ z \in SoundRecord(minted) /\ disk \in SoundRecord(minted)

(* The checks of a ZSK rollover.                                           *)
LEMMA SoundZSK ==
  ASSUME SoundInv, StartZSKRollover \/ ZSKPrePublish \/ ZSKSigning
  PROVE  minted' \in Nat /\ z' \in SoundRecord(minted') /\ disk' \in SoundRecord(minted')
<1>0. /\ minted \in Nat /\ now \in Nat /\ Here \in Stamp /\ z \in ZoneRecord
      /\ z.DNSKEYCacheHorizon \in Nat /\ z.RRSIGCacheHorizon \in Nat
      /\ z \in SoundRecord(minted) /\ disk \in SoundRecord(minted)
  BY DEF SoundInv, TypeOK, Here, Stamp, Generation, ZoneRecord
<1>s. minted \in Nat /\ z \in SoundRecord(minted)
  BY <1>0
<1>f. dnskeyTTLFloor(z) \in Nat /\ zskRetireFloor(z) \in Nat
  BY <1>0, FloorTypes
<1>1. CASE StartZSKRollover
  <2>1. minted' = minted + 1 /\ minted + 1 \in Nat /\ minted <= minted + 1
    BY <1>0, <1>1 DEF StartZSKRollover
  <2>2. z \in SoundRecord(minted + 1) /\ disk \in SoundRecord(minted + 1)
    BY <1>0, <2>1, SoundGrows
  <2>3. ZSKStarted(z, [id |-> minted + 1, alg |-> z.ZSK.alg]) \in SoundRecord(minted + 1)
    BY <1>0, ZSKStartedSound
  <2>4. [z EXCEPT !.ForceResign = FALSE] \in SoundRecord(minted + 1)
    BY <2>1, <2>2, FlagsSound, Zenon
  <2> QED
    BY <1>1, <2>1, <2>2, <2>3, <2>4, Zenon DEF StartZSKRollover, Commit
<1>2. CASE ZSKPrePublish
  <2> DEFINE f == dnskeyTTLFloor(z)
             c == z.DNSKEYCacheHorizon
             p == stampPhasePublication(z, f, c)
  <2>0. f \in Nat /\ c \in Nat
    BY <1>0, <1>f
  <2> HIDE DEF f, c
  <2>1. p \in SoundRecord(minted) /\ p.Rollover.State = z.Rollover.State
        /\ p.Rollover.type = z.Rollover.type
    BY <1>s, <2>0, StampPhaseSound
  <2> USE DEF f, c
  <2>2. minted' = minted /\ z.Rollover.type = "zsk" /\ z.Rollover.State = "pre_publish"
        /\ (ZSKPhaseWait(p) \/ SaveOver(ZSKSwitched(p), DiskAfter(p)))
    BY <1>2 DEF ZSKPrePublish
  <2> HIDE DEF p
  <2>3. ZSKSwitched(p) \in SoundRecord(minted)
    BY <1>0, <2>1, <2>2, ZSKSwitchedSound
  <2>4. DiskAfter(p) \in SoundRecord(minted)
    BY <1>0, <2>1, SaveKeeps
  <2> QED
    BY <1>0, <2>1, <2>2, <2>3, <2>4, SaveKeeps DEF ZSKPhaseWait
<1>3. CASE ZSKSigning
  <2> DEFINE c == Later(z.DNSKEYCacheHorizon, z.RRSIGCacheHorizon)
             p == stampPhasePublication(z, zskRetireFloor(z), c)
  <2>1. c \in Nat
    BY <1>0 DEF Later
  <2>2. p \in SoundRecord(minted)
    BY <1>0, <1>f, <2>1, StampPhaseSound
  <2>3. minted' = minted
        /\ (ZSKPhaseWait(p) \/ SaveOver(ZSKCompleted(p), DiskAfter(p)))
    BY <1>3 DEF ZSKSigning
  <2> HIDE DEF p
  <2>4. ZSKCompleted(p) \in SoundRecord(minted) /\ DiskAfter(p) \in SoundRecord(minted)
    BY <1>0, <2>2, NoRolloverSound, SaveKeeps, Zenon
  <2> QED
    BY <1>0, <2>2, <2>3, <2>4, SaveKeeps DEF ZSKPhaseWait
<1> QED
  BY <1>1, <1>2, <1>3

(* The checks of a KSK rollover.                                           *)
LEMMA SoundKSK ==
  ASSUME SoundInv, KSKDSAddWait \/ KSKDSPropagation \/ KSKRetiring
  PROVE  minted' \in Nat /\ z' \in SoundRecord(minted') /\ disk' \in SoundRecord(minted')
<1> DEFINE S == SoundRecord(minted)
           p == stampNewKeyPropagation(z)
<1>0. minted \in Nat /\ z \in S /\ disk \in S /\ minted' = minted
  BY DEF SoundInv, TypeOK, KSKDSAddWait, KSKDSPropagation, KSKRetiring, CheckKSK
<1>1. now \in Nat /\ Here \in Stamp /\ regDS \subseteq Key
  BY DEF SoundInv, TypeOK, Here, Stamp, Generation
<1>2. p \in S /\ p.Rollover.type = z.Rollover.type
  BY <1>0, StampKeySound
<1>3. ASSUME NEW o \in OldDSRemoval(p)
      PROVE  o.z \in S /\ o.z.Rollover.type = z.Rollover.type
  <2> HIDE DEF p
  <2> QED
    BY <1>0, <1>1, <1>2, OldDSRemovalSound
<1>4. DiskAfter(p) \in S
  BY <1>0, <1>2, SaveKeeps
<1>5. StampFails \/ RemovalUnsaved(p) => z' \in S /\ disk' \in S
  <2>1. CASE StampFails
    BY <1>0, <1>2, <2>1, SaveKeeps DEF StampFails
  <2>2. CASE RemovalUnsaved(p)
    BY <1>0, <1>3, <1>4, <2>2, SaveKeeps DEF RemovalUnsaved
  <2> QED
    BY <2>1, <2>2
<1>6. CASE KSKDSAddWait
  BY <1>0, <1>2, <1>6, SaveKeeps DEF KSKDSAddWait
<1>7. CASE KSKDSPropagation
  <2>1. SUFFICES ASSUME NEW o \in OldDSRemoval(p),
                        Commit(o.z) \/ SaveOver(Retire(o.z, "retiring"), DiskAfter(o.z))
                 PROVE  z' \in S /\ disk' \in S
    BY <1>0, <1>5, <1>7 DEF KSKDSPropagation
  <2>2. o.z \in S /\ o.z.Rollover.type = "ksk"
    BY <1>3, <1>7 DEF KSKDSPropagation, CheckKSK
  <2>3. Retire(o.z, "retiring") \in S
    BY <1>0, <1>1, <2>2, RetireSound DEF KSKStates
  <2>4. DiskAfter(o.z) \in S
    BY <1>0, <2>2, SaveKeeps
  <2> QED
    BY <1>0, <2>1, <2>2, <2>3, <2>4, SaveKeeps
<1>8. CASE KSKRetiring
  <2>1. SUFFICES ASSUME NEW o \in OldDSRemoval(p),
                        \/ Commit(o.z)
                        \/ SaveOver([o.z EXCEPT !.Rollover = NoRollover], DiskAfter(o.z))
                 PROVE  z' \in S /\ disk' \in S
    BY <1>0, <1>5, <1>8, Zenon DEF KSKRetiring
  <2>2. o.z \in S
    BY <1>3
  <2>3. [o.z EXCEPT !.Rollover = NoRollover] \in S
    BY <1>0, <2>2, NoRolloverSound
  <2>4. DiskAfter(o.z) \in S
    BY <1>0, <2>2, SaveKeeps
  <2> QED
    BY <1>0, <2>1, <2>2, <2>3, <2>4, SaveKeeps
<1> QED
  BY <1>0, <1>6, <1>7, <1>8

(* The checks of an algorithm rollover.                                    *)
LEMMA SoundAlgorithm ==
  ASSUME SoundInv,
         \/ AlgoDSAddWait \/ AlgoDSPropagation \/ AlgoOldDSRemoval \/ OldDSAbsent
         \/ AlgoRetire \/ AlgoRetiring
  PROVE  minted' \in Nat /\ z' \in SoundRecord(minted') /\ disk' \in SoundRecord(minted')
<1> DEFINE S == SoundRecord(minted)
           p == stampNewKeyPropagation(z)
<1>0. minted \in Nat /\ z \in S /\ disk \in S /\ minted' = minted
  BY DEF SoundInv, TypeOK, AlgoDSAddWait, AlgoDSPropagation, AlgoOldDSRemoval,
         OldDSAbsent, AlgoRetire, AlgoRetiring, CheckAlgorithm
<1>1. now \in Nat /\ Here \in Stamp /\ regDS \subseteq Key
  BY DEF SoundInv, TypeOK, Here, Stamp, Generation
<1>2. p \in S /\ p.Rollover.type = z.Rollover.type
  BY <1>0, StampKeySound
<1>3. ASSUME NEW q \in S, NEW o \in OldDSRemoval(q)
      PROVE  o.z \in S
  BY <1>0, <1>1, OldDSRemovalSound
<1>4. ASSUME NEW q \in S
      PROVE  RemovalUnsaved(q) => z' \in S /\ disk' \in S
  <2>1. DiskAfter(q) \in S
    BY <1>0, SaveKeeps
  <2> QED
    BY <1>0, <1>3, <2>1, SaveKeeps DEF RemovalUnsaved
<1>5. StampFails => z' \in S /\ disk' \in S
  BY <1>0, <1>2, SaveKeeps DEF StampFails
<1>6. CASE AlgoDSAddWait
  <2>1. SUFFICES ASSUME NEW b \in BOOLEAN,
                        \/ Save(p)
                        \/ SaveOver([p EXCEPT !.Rollover.DSAddPushed = b], DiskAfter(p))
                 PROVE  z' \in S /\ disk' \in S
    BY <1>0, <1>6, Zenon DEF AlgoDSAddWait
  <2>2. [p EXCEPT !.Rollover.DSAddPushed = b] \in S
    BY <1>0, <1>2, FlagsSound, Zenon
  <2>3. DiskAfter(p) \in S
    BY <1>0, <1>2, SaveKeeps
  <2> QED
    BY <1>0, <1>2, <2>1, <2>2, <2>3, SaveKeeps
<1>7. CASE AlgoDSPropagation
  <2> DEFINE w == EnterPhase(p, "algo_old_ds_removal_wait")
  <2>1. w \in S
    <3>1. p.Rollover.type = "algorithm"
      BY <1>2, <1>7, Zenon DEF AlgoDSPropagation, CheckAlgorithm
    <3> QED
      BY <1>0, <1>1, <1>2, <3>1, RetireSound DEF AlgoStates
  <2>2. \/ StampFails
        \/ Save(p)
        \/ SaveFails(w, DiskAfter(p))
        \/ RemovalUnsaved(w)
        \/ \E o \in OldDSRemoval(w) : Commit(o.z)
    BY <1>7 DEF AlgoDSPropagation
  <2> HIDE DEF w, p
  <2>3. DiskAfter(p) \in S
    BY <1>0, <1>2, SaveKeeps
  <2>4. (\E o \in OldDSRemoval(w) : Commit(o.z)) => z' \in S /\ disk' \in S
    BY <1>0, <1>3, <2>1, SaveKeeps
  <2> QED
    BY <1>0, <1>2, <1>4, <1>5, <2>1, <2>2, <2>3, <2>4, SaveKeeps
<1>8. CASE AlgoOldDSRemoval
  <2>1. \/ StampFails \/ RemovalUnsaved(p)
        \/ \E o \in OldDSRemoval(p) : Commit(o.z)
    BY <1>8 DEF AlgoOldDSRemoval
  <2> HIDE DEF p
  <2>2. (\E o \in OldDSRemoval(p) : Commit(o.z)) => z' \in S /\ disk' \in S
    BY <1>0, <1>2, <1>3, SaveKeeps
  <2> QED
    BY <1>0, <1>2, <1>4, <1>5, <2>1, <2>2
<1>9. CASE OldDSAbsent
  <2> DEFINE seen == IF \E x \in Parents : parent[x] # {} THEN ParentTTL
                                                          ELSE z.Rollover.ParentDSTTL
             ttl == Later(seen, z.Rollover.ParentDSTTL)
             q == [z EXCEPT !.Rollover.OldDSRemovedAt = probe.at,
                            !.Rollover.ParentDSTTL = ttl]
  <2>1. z.Rollover.ParentDSTTL \in Nat /\ probe.at \in Nat
    BY DEF SoundInv, TypeOK, ZoneRecord, RolloverRecord, Probe
  <2>2. seen \in Nat
    BY <2>1, ConstantTypes
  <2>3. Save(q)
    BY <1>9 DEF OldDSAbsent
  <2> HIDE DEF seen
  <2>4. ttl \in Nat
    BY <2>1, <2>2 DEF Later
  <2> HIDE DEF ttl
  <2>5. q \in S
    BY <1>0, <2>1, <2>4, FlagsSound, Zenon
  <2> QED
    BY <1>0, <2>3, <2>5, SaveKeeps
<1>10. CASE AlgoRetire
  <2> DEFINE w == Retire(p, "algo_retiring")
  <2>1. StampFails \/ Commit(p) \/ SaveOver(w, DiskAfter(p))
    BY <1>10, Zenon DEF AlgoRetire
  <2>2. w \in S
    <3>1. p.Rollover.type = "algorithm"
      BY <1>2, <1>10, Zenon DEF AlgoRetire, CheckAlgorithm
    <3> QED
      BY <1>0, <1>1, <1>2, <3>1, RetireSound DEF AlgoStates
  <2> HIDE DEF w, p
  <2>3. DiskAfter(p) \in S
    BY <1>0, <1>2, SaveKeeps
  <2> QED
    BY <1>0, <1>2, <1>5, <2>1, <2>2, <2>3, SaveKeeps
<1>11. CASE AlgoRetiring
  <2> DEFINE w == [p EXCEPT !.Rollover = NoRollover]
  <2>1. StampFails \/ Commit(p) \/ SaveOver(w, DiskAfter(p))
    BY <1>11, Zenon DEF AlgoRetiring
  <2> HIDE DEF p
  <2>2. w \in S
    BY <1>0, <1>2, NoRolloverSound
  <2> HIDE DEF w
  <2>3. DiskAfter(p) \in S
    BY <1>0, <1>2, SaveKeeps
  <2> QED
    BY <1>0, <1>2, <1>5, <2>1, <2>2, <2>3, SaveKeeps
<1> QED
  BY <1>0, <1>6, <1>7, <1>8, <1>9, <1>10, <1>11

(* The operator's commands.                                                *)
LEMMA SoundCommand ==
  ASSUME SoundInv,
         \/ StartKSKRollover \/ StartAlgorithmRollover
         \/ NewDSPresent \/ ForceComplete
  PROVE  minted' \in Nat /\ z' \in SoundRecord(minted') /\ disk' \in SoundRecord(minted')
<1>0. minted \in Nat /\ z \in SoundRecord(minted) /\ disk \in SoundRecord(minted)
  BY DEF SoundInv, TypeOK
<1>1. now \in Nat /\ Here \in Stamp /\ output.n \in Nat /\ probe.at \in Nat
  BY DEF SoundInv, TypeOK, Here, Stamp, Generation, Probe
<1>2. ASSUME NEW k \in Nat
      PROVE  z \in SoundRecord(minted + k) /\ disk \in SoundRecord(minted + k)
  <2>1. minted + k \in Nat /\ minted <= minted + k
    BY <1>0
  <2> QED
    BY <1>0, <2>1, SoundGrows
<1>3. CASE StartKSKRollover
  <2> DEFINE q == KSKStarted(z, [id |-> minted + 1, alg |-> z.KSK.alg])
  <2>1. minted' = minted + 1 /\ SignAfter(q)
    BY <1>3 DEF StartKSKRollover
  <2>2. q \in SoundRecord(minted + 1)
    BY <1>0, <1>1, KSKStartedSound
  <2>3. minted + 1 \in Nat
    BY <1>0
  <2> HIDE DEF q
  <2> QED
    BY <1>1, <1>2, <2>1, <2>2, <2>3, SignAfterKeeps
<1>4. CASE StartAlgorithmRollover
  <2> DEFINE q == AlgorithmStarted(z, [id |-> minted + 1, alg |-> z.KSK.alg + 1],
                                      [id |-> minted + 2, alg |-> z.KSK.alg + 1])
  <2>1. minted' = minted + 2 /\ SignAfter(q)
    BY <1>4 DEF StartAlgorithmRollover
  <2>2. q \in SoundRecord(minted + 2)
    BY <1>0, <1>1, AlgorithmStartedSound
  <2>3. minted + 2 \in Nat
    BY <1>0
  <2> HIDE DEF q
  <2> QED
    BY <1>1, <1>2, <2>1, <2>2, <2>3, SignAfterKeeps
<1>5. CASE ForceComplete
  <2>1. /\ minted' = minted /\ SignAfter(DSObserved(z, now, ParentDSTTL))
        /\ z.Rollover.State \in AddWait
    BY <1>5 DEF ForceComplete
  <2>2. DSObserved(z, now, ParentDSTTL) \in SoundRecord(minted)
    BY <1>0, <1>1, <2>1, ConstantTypes, DSObservedSound
  <2> QED
    BY <1>0, <1>1, <2>1, <2>2, SignAfterKeeps
<1>6. CASE NewDSPresent
  <2>1. /\ minted' = minted /\ SignAfter(DSObserved(z, probe.at, ParentTTL))
        /\ z.Rollover.State \in AddWait
    BY <1>6 DEF NewDSPresent
  <2>2. DSObserved(z, probe.at, ParentTTL) \in SoundRecord(minted)
    BY <1>0, <1>1, <2>1, ConstantTypes, DSObservedSound
  <2> QED
    BY <1>0, <1>1, <2>1, <2>2, SignAfterKeeps
<1> QED
  BY <1>3, <1>4, <1>5, <1>6

(* Every step.                                                             *)
LEMMA SoundStep ==
  ASSUME SoundInv, [Next]_vars
  PROVE  minted' \in Nat /\ z' \in SoundRecord(minted') /\ disk' \in SoundRecord(minted')
<1>0. minted \in Nat /\ z \in SoundRecord(minted) /\ disk \in SoundRecord(minted)
  BY DEF SoundInv, TypeOK
<1>1. /\ now \in Nat /\ output.n \in Nat /\ probe.at \in Nat /\ z.LastSigned \in Nat
      /\ hooks \subseteq Nat
  BY DEF SoundInv, TypeOK, Generation, Probe, ZoneRecord
<1>2. CASE SignZone
  <2>1. PICK d \in DnskeyTTLs, s \in RrsigTTLs : Save(Signed(z, d, s))
    BY <1>2 DEF SignZone
  <2>2. minted' = minted
    BY <1>2 DEF SignZone
  <2>3. Signed(z, d, s) \in SoundRecord(minted)
    BY <1>0, <1>1, SigningSound
  <2> QED
    BY <1>0, <2>1, <2>2, <2>3, SaveKeeps
<1>3. ASSUME NEW g \in hooks, HookSucceeds(g)
      PROVE  minted' = minted /\ z' \in SoundRecord(minted) /\ disk' \in SoundRecord(minted)
  <2>1. g \in Nat
    BY <1>1
  <2>2. Save(ConfirmPublication(z, g, now)) \/ Save(z)
    BY <1>3 DEF HookSucceeds
  <2>3. ConfirmPublication(z, g, now) \in SoundRecord(minted)
    BY <1>0, <1>1, <2>1, ConfirmSound
  <2>4. minted' = minted
    BY <1>3 DEF HookSucceeds
  <2> QED
    BY <1>0, <2>2, <2>3, <2>4, SaveKeeps
<1>4. CASE PublicationConfirmed
  <2>1. Save(ConfirmPublication(z, z.LastSigned, probe.at)) /\ minted' = minted
    BY <1>4 DEF PublicationConfirmed
  <2>2. ConfirmPublication(z, z.LastSigned, probe.at) \in SoundRecord(minted)
    BY <1>0, <1>1, ConfirmSound
  <2> QED
    BY <1>0, <2>1, <2>2, SaveKeeps
<1>5. CASE SaveCycle \/ Restart
  BY <1>0, <1>5 DEF SaveCycle, Restart
<1>6. ASSUME \/ \E x \in Servers : Transfer(x) \/ ProbePublishedSerial(x)
             \/ LaunchHook \/ (\E g \in hooks : HookFails(g))
             \/ ProbeFails \/ ProbePublication \/ RolloverComplete \/ PublishDSSet
             \/ (\E p \in Parents : ParentUpdate(p) \/ ProbeParentDS(p))
             \/ Tick \/ UNCHANGED vars
      PROVE  UNCHANGED <<z, disk, minted>>
  BY <1>6, Zenon DEF Transfer, ProbePublishedSerial, LaunchHook, HookFails, ProbeFails,
       ProbePublication, RolloverComplete, PublishDSSet, ParentUpdate, ProbeParentDS,
       Tick, zone, vars
<1> QED
  BY <1>0, <1>2, <1>3, <1>4, <1>5, <1>6, SoundZSK, SoundKSK, SoundAlgorithm, SoundCommand
  DEF Next

-----------------------------------------------------------------------------
(* Everything else keeps its type.                                         *)

(* The keys of a generation are sets of keys.                              *)
LEMMA KeySetType ==
  ASSUME NEW r \in ZoneRecord
  PROVE  loadKeysForSigning(r) \in [ksk : SUBSET Key, zsk : SUBSET Key, sig : SUBSET Key]
BY DEF loadKeysForSigning, KeySet, ZoneRecord, RolloverRecord

DeploymentOK ==
  /\ output \in Generation
  /\ served \in [Servers -> Generation]
  /\ left \subseteq [gen : Generation, at : Nat]

(* Writing the signed zone.                                                *)
LEMMA WriteOutputType ==
  ASSUME DeploymentOK, now \in Nat, NEW r \in ZoneRecord,
         NEW d \in DnskeyTTLs, NEW s \in RrsigTTLs, WriteOutput(r, d, s)
  PROVE  DeploymentOK'
<1>1. output' \in Generation
  <2>1. output.n \in Nat /\ d \in Nat /\ s \in Nat
    BY ConstantTypes DEF DeploymentOK, Generation
  <2>2. output' = [n |-> output.n + 1, keys |-> loadKeysForSigning(r),
                   dnskeyTTL |-> d, rrsigTTL |-> s]
    BY DEF WriteOutput
  <2> QED
    BY <2>1, <2>2, KeySetType DEF Generation
<1>2. CASE Mode = "immediate"
  <2>1. /\ served' = [x \in Servers |-> output']
        /\ left' = StopServing({served[x] : x \in Servers})
    BY <1>2 DEF WriteOutput
  <2>2. {served[x] : x \in Servers} \subseteq Generation
    BY DEF DeploymentOK
  <2>3. left' \subseteq [gen : Generation, at : Nat]
    BY <2>1, <2>2 DEF StopServing, DeploymentOK
  <2> QED
    BY <1>1, <2>1, <2>3 DEF DeploymentOK
<1>3. CASE Mode # "immediate"
  BY <1>1, <1>3 DEF WriteOutput, DeploymentOK
<1> QED
  BY <1>2, <1>3

(* A command's signing, whether it happens or not.                         *)
LEMMA SignAfterType ==
  ASSUME DeploymentOK, now \in Nat, faults \in Nat, NEW r \in ZoneRecord, SignAfter(r)
  PROVE  DeploymentOK' /\ faults' \in Nat
BY WriteOutputType DEF SignAfter, Commit, DeploymentOK

(* A transfer.                                                             *)
LEMMA TransferType ==
  ASSUME DeploymentOK, now \in Nat, NEW x \in Servers, Transfer(x)
  PROVE  DeploymentOK'
<1>1. served[x] \in Generation
  BY DEF DeploymentOK
<1>2. left' \subseteq [gen : Generation, at : Nat]
  BY <1>1 DEF Transfer, StopServing, DeploymentOK
<1>3. served' \in [Servers -> Generation] /\ output' \in Generation
  BY DEF Transfer, DeploymentOK
<1> QED
  BY <1>2, <1>3 DEF DeploymentOK

(* What the signer writes and the servers serve keeps its type.            *)
LEMMA DeploymentStep ==
  ASSUME SoundInv, [Next]_vars
  PROVE  DeploymentOK' /\ now' \in Nat /\ hooks' \subseteq Nat
<1>0. DeploymentOK /\ now \in Nat /\ hooks \subseteq Nat /\ z \in ZoneRecord /\ faults \in Nat
  BY DEF SoundInv, TypeOK, DeploymentOK
<1>1. minted \in Nat /\ z \in SoundRecord(minted) /\ Here \in Stamp /\ probe.at \in Nat
  BY DEF SoundInv, TypeOK, Here, Stamp, Generation, Probe
<1>2. \A n \in Nat : SoundRecord(n) \subseteq ZoneRecord
  BY DEF SoundRecord
<1>3. CASE SignZone
  BY <1>0, <1>3, WriteOutputType DEF SignZone
<1>4. CASE StartKSKRollover
  <2> DEFINE q == KSKStarted(z, [id |-> minted + 1, alg |-> z.KSK.alg])
  <2>1. SignAfter(q) /\ now' = now /\ hooks' = hooks
    BY <1>4 DEF StartKSKRollover
  <2>2. q \in ZoneRecord
    BY <1>1, <1>2, KSKStartedSound
  <2> HIDE DEF q
  <2> QED
    BY <1>0, <2>1, <2>2, SignAfterType
<1>5. CASE StartAlgorithmRollover
  <2> DEFINE q == AlgorithmStarted(z, [id |-> minted + 1, alg |-> z.KSK.alg + 1],
                                      [id |-> minted + 2, alg |-> z.KSK.alg + 1])
  <2>1. SignAfter(q) /\ now' = now /\ hooks' = hooks
    BY <1>5 DEF StartAlgorithmRollover
  <2>2. q \in SoundRecord(minted + 2) /\ minted + 2 \in Nat
    BY <1>0, <1>1, AlgorithmStartedSound
  <2> HIDE DEF q
  <2> QED
    BY <1>0, <1>2, <2>1, <2>2, SignAfterType
<1>6. CASE ForceComplete
  <2>1. /\ SignAfter(DSObserved(z, now, ParentDSTTL)) /\ now' = now /\ hooks' = hooks
        /\ z.Rollover.State \in AddWait
    BY <1>6 DEF ForceComplete
  <2>2. DSObserved(z, now, ParentDSTTL) \in ZoneRecord
    BY <1>0, <1>1, <1>2, <2>1, ConstantTypes, DSObservedSound
  <2> QED
    BY <1>0, <2>1, <2>2, SignAfterType
<1>7. CASE NewDSPresent
  <2>1. /\ SignAfter(DSObserved(z, probe.at, ParentTTL)) /\ now' = now /\ hooks' = hooks
        /\ z.Rollover.State \in AddWait
    BY <1>7 DEF NewDSPresent
  <2>2. DSObserved(z, probe.at, ParentTTL) \in ZoneRecord
    BY <1>1, <1>2, <2>1, ConstantTypes, DSObservedSound
  <2> QED
    BY <1>0, <2>1, <2>2, SignAfterType
<1>8. ASSUME NEW x \in Servers, Transfer(x)
      PROVE  DeploymentOK' /\ now' \in Nat /\ hooks' \subseteq Nat
  BY <1>0, <1>8, TransferType, Zenon DEF Transfer
<1>9. CASE Tick
  BY <1>0, <1>9 DEF Tick, DeploymentOK
<1>10. CASE LaunchHook
  BY <1>0, <1>10, Zenon DEF LaunchHook, DeploymentOK, ZoneRecord
<1>11. ASSUME NEW g \in hooks, HookSucceeds(g) \/ HookFails(g)
       PROVE  DeploymentOK' /\ now' \in Nat /\ hooks' \subseteq Nat
  BY <1>0, <1>11, Zenon DEF HookSucceeds, HookFails, DeploymentOK
<1>12. CASE Restart
  BY <1>0, <1>12 DEF Restart, DeploymentOK
<1>13. ASSUME \/ SaveCycle \/ (\E x \in Servers : ProbePublishedSerial(x))
              \/ ProbeFails \/ ProbePublication \/ PublicationConfirmed
              \/ RolloverComplete \/ StartZSKRollover \/ ZSKPrePublish \/ ZSKSigning
              \/ KSKDSAddWait \/ KSKDSPropagation \/ KSKRetiring
              \/ AlgoDSAddWait \/ AlgoDSPropagation \/ AlgoOldDSRemoval \/ OldDSAbsent
              \/ AlgoRetire \/ AlgoRetiring \/ PublishDSSet
              \/ (\E p \in Parents : ParentUpdate(p) \/ ProbeParentDS(p))
              \/ UNCHANGED vars
       PROVE  UNCHANGED <<now, output, served, left, hooks>>
  BY <1>13, Zenon DEF SaveCycle, ProbePublishedSerial, ProbeFails, ProbePublication,
       PublicationConfirmed, RolloverComplete, StartZSKRollover, ZSKPrePublish,
       ZSKSigning, CheckZSK, KSKDSAddWait, KSKDSPropagation, KSKRetiring, CheckKSK,
       AlgoDSAddWait, AlgoDSPropagation, AlgoOldDSRemoval, OldDSAbsent, AlgoRetire,
       AlgoRetiring, CheckAlgorithm, PublishDSSet, ParentUpdate, ProbeParentDS,
       deployment, vars
<1>14. UNCHANGED <<now, output, served, left, hooks>>
         => DeploymentOK' /\ now' \in Nat /\ hooks' \subseteq Nat
  BY <1>0 DEF DeploymentOK
<1> QED
  BY <1>3, <1>4, <1>5, <1>6, <1>7, <1>8, <1>9, <1>10, <1>11, <1>12, <1>13, <1>14 DEF Next

(* Every step counts at most one fault.                                    *)
LEMMA FaultStep ==
  ASSUME faults \in Nat, [Next]_vars
  PROVE  faults' \in Nat
<1>1. \A new, mid : /\ Save(new) => faults' \in Nat
                    /\ SaveOver(new, mid) => faults' \in Nat
                    /\ SaveFails(new, mid) => faults' \in Nat
                    /\ Commit(new) => faults' \in Nat
                    /\ RemovalUnsaved(new) => faults' \in Nat
                    /\ ZSKPhaseWait(new) => faults' \in Nat
                    /\ SignAfter(new) => faults' \in Nat
  <2>1. ASSUME NEW new PROVE Commit(new) => faults' \in Nat
    BY DEF Commit
  <2>2. ASSUME NEW new, NEW mid PROVE SaveFails(new, mid) => faults' \in Nat
    BY DEF SaveFails
  <2>3. ASSUME NEW new PROVE SignAfter(new) => faults' \in Nat
    BY <2>1 DEF SignAfter
  <2>4. ASSUME NEW new PROVE RemovalUnsaved(new) => faults' \in Nat
    BY <2>2, Zenon DEF RemovalUnsaved
  <2>5. ASSUME NEW new, NEW mid PROVE SaveOver(new, mid) => faults' \in Nat
    BY <2>1, <2>2, Zenon DEF SaveOver
  <2>6. ASSUME NEW new PROVE Save(new) => faults' \in Nat
    BY <2>5, Zenon DEF Save
  <2>7. ASSUME NEW new PROVE ZSKPhaseWait(new) => faults' \in Nat
    BY <2>2, <2>6, Zenon DEF ZSKPhaseWait
  <2> QED
    BY <2>1, <2>2, <2>3, <2>4, <2>5, <2>6, <2>7, Zenon
<1>2. StampFails => faults' \in Nat
  BY <1>1 DEF StampFails
<1>3. CASE \/ SignZone \/ (\E g \in hooks : HookSucceeds(g)) \/ PublicationConfirmed
           \/ StartKSKRollover \/ StartAlgorithmRollover \/ NewDSPresent \/ ForceComplete
  BY <1>1, <1>3, Zenon DEF SignZone, HookSucceeds, PublicationConfirmed, StartKSKRollover,
       StartAlgorithmRollover, NewDSPresent, ForceComplete
<1>4. CASE StartZSKRollover \/ ZSKPrePublish \/ ZSKSigning \/ KSKDSAddWait
  BY <1>1, <1>4 DEF StartZSKRollover, ZSKPrePublish, ZSKSigning, KSKDSAddWait
<1>5. CASE KSKDSPropagation \/ KSKRetiring
  BY <1>1, <1>2, <1>5, Zenon DEF KSKDSPropagation, KSKRetiring
<1>6. CASE AlgoDSAddWait \/ AlgoDSPropagation \/ AlgoOldDSRemoval
  BY <1>1, <1>2, <1>6, Zenon DEF AlgoDSAddWait, AlgoDSPropagation, AlgoOldDSRemoval
<1>7. CASE OldDSAbsent \/ AlgoRetire \/ AlgoRetiring
  BY <1>1, <1>2, <1>7, Zenon DEF OldDSAbsent, AlgoRetire, AlgoRetiring
<1>8. CASE Restart
  BY <1>8 DEF Restart
<1>9. ASSUME \/ SaveCycle \/ (\E x \in Servers : Transfer(x) \/ ProbePublishedSerial(x))
             \/ LaunchHook \/ (\E g \in hooks : HookFails(g))
             \/ ProbeFails \/ ProbePublication \/ RolloverComplete \/ PublishDSSet
             \/ (\E p \in Parents : ParentUpdate(p) \/ ProbeParentDS(p))
             \/ Tick \/ UNCHANGED vars
      PROVE  faults' = faults
  BY <1>9, Zenon DEF SaveCycle, Transfer, ProbePublishedSerial, LaunchHook, HookFails,
       ProbeFails, ProbePublication, RolloverComplete, PublishDSSet, ParentUpdate,
       ProbeParentDS, Tick, zone, vars
<1> QED
  BY <1>3, <1>4, <1>5, <1>6, <1>7, <1>8, <1>9 DEF Next

DelegationOK ==
  /\ regDS \subseteq Key
  /\ parent \in [Parents -> SUBSET Key]
  /\ dsLeft \subseteq [ds : SUBSET Key, at : Nat]

(* The registrar and the parent's servers hold sets of keys.               *)
LEMMA DelegationStep ==
  ASSUME SoundInv, [Next]_vars
  PROVE  DelegationOK'
<1>0. DelegationOK /\ now \in Nat /\ minted \in Nat /\ z \in SoundRecord(minted)
  BY DEF SoundInv, TypeOK, DelegationOK
<1>k. regDS \subseteq Key
  BY <1>0 DEF DelegationOK
<1>1. ASSUME NEW r \in SoundRecord(minted)
      PROVE  BuildDSSet(r, now) \subseteq Key /\ \A o \in OldDSRemoval(r) : o.ds \subseteq Key
  BY <1>0, <1>k, OldDSRemovalSound, BuildDSSetType, Zenon DEF SoundRecord
<1> DEFINE p == stampNewKeyPropagation(z)
           w == EnterPhase(p, "algo_old_ds_removal_wait")
<1>2. p \in SoundRecord(minted) /\ p.Rollover.type = z.Rollover.type
  BY <1>0, StampKeySound
<1>3. CASE KSKDSPropagation \/ KSKRetiring
  <2>1. UNCHANGED <<parent, dsLeft>>
        /\ (regDS' = regDS \/ \E o \in OldDSRemoval(p) : regDS' = o.ds)
    BY <1>3, Zenon DEF KSKDSPropagation, KSKRetiring, CheckKSK, StampFails, RemovalUnsaved,
                delegation
  <2> HIDE DEF p
  <2> QED
    BY <1>0, <1>1, <1>2, <2>1 DEF DelegationOK
<1>4. CASE AlgoDSAddWait
  <2>1. UNCHANGED <<parent, dsLeft>>
        /\ (regDS' = regDS \/ regDS' = regDS \cup BuildDSSet(p, now))
    BY <1>4 DEF AlgoDSAddWait, CheckAlgorithm, delegation
  <2> HIDE DEF p
  <2> QED
    BY <1>0, <1>1, <1>2, <2>1 DEF DelegationOK
<1>5. CASE AlgoDSPropagation
  <2>1. UNCHANGED <<parent, dsLeft>> /\ z.Rollover.type = "algorithm"
        /\ (regDS' = regDS \/ \E o \in OldDSRemoval(w) : regDS' = o.ds)
    BY <1>5, Zenon DEF AlgoDSPropagation, CheckAlgorithm, StampFails, RemovalUnsaved, delegation
  <2> HIDE DEF p
  <2>2. Here \in Stamp
    BY DEF SoundInv, TypeOK, Here, Stamp, Generation
  <2>3. w \in SoundRecord(minted)
    BY <1>0, <1>2, <2>1, <2>2, RetireSound DEF AlgoStates
  <2> HIDE DEF w
  <2> QED
    BY <1>0, <1>1, <2>1, <2>3 DEF DelegationOK
<1>6. CASE AlgoOldDSRemoval
  <2>1. UNCHANGED <<parent, dsLeft>>
        /\ (regDS' = regDS \/ \E o \in OldDSRemoval(p) : regDS' = o.ds)
    BY <1>6 DEF AlgoOldDSRemoval, CheckAlgorithm, StampFails, RemovalUnsaved, delegation
  <2> HIDE DEF p
  <2> QED
    BY <1>0, <1>1, <1>2, <2>1 DEF DelegationOK
<1>7. CASE PublishDSSet
  <2>1. UNCHANGED <<parent, dsLeft>>
        /\ (\/ regDS' = BuildDSSet(z, now)
            \/ regDS' = regDS \cup BuildDSSet(z, now)
            \/ regDS' = {})
    BY <1>7 DEF PublishDSSet, delegation
  <2> QED
    BY <1>0, <1>1, <2>1 DEF DelegationOK
<1>8. ASSUME NEW q \in Parents, ParentUpdate(q)
      PROVE  DelegationOK'
  <2>1. parent[q] \in SUBSET Key
    BY <1>0 DEF DelegationOK
  <2>2. dsLeft' \subseteq [ds : SUBSET Key, at : Nat]
    BY <1>0, <1>8, <2>1 DEF ParentUpdate, DelegationOK
  <2>3. parent' \in [Parents -> SUBSET Key] /\ regDS' = regDS
    BY <1>0, <1>8 DEF ParentUpdate, DelegationOK
  <2> QED
    BY <1>k, <2>2, <2>3 DEF DelegationOK
<1>9. CASE Tick
  BY <1>0, <1>9 DEF Tick, DelegationOK
<1>10. ASSUME \/ SignZone \/ SaveCycle \/ Restart
              \/ (\E x \in Servers : Transfer(x) \/ ProbePublishedSerial(x))
              \/ LaunchHook \/ (\E g \in hooks : HookSucceeds(g) \/ HookFails(g))
              \/ ProbeFails \/ ProbePublication \/ PublicationConfirmed
              \/ StartKSKRollover \/ StartAlgorithmRollover \/ RolloverComplete
              \/ NewDSPresent \/ ForceComplete
              \/ StartZSKRollover \/ ZSKPrePublish \/ ZSKSigning
              \/ KSKDSAddWait \/ OldDSAbsent \/ AlgoRetire \/ AlgoRetiring
              \/ (\E q \in Parents : ProbeParentDS(q)) \/ UNCHANGED vars
       PROVE  UNCHANGED <<regDS, parent, dsLeft>>
  BY <1>10, Zenon DEF SignZone, SaveCycle, Restart, Transfer, ProbePublishedSerial, LaunchHook,
       HookSucceeds, HookFails, ProbeFails, ProbePublication, PublicationConfirmed,
       StartKSKRollover, StartAlgorithmRollover, RolloverComplete, NewDSPresent,
       ForceComplete, StartZSKRollover, ZSKPrePublish, ZSKSigning, CheckZSK,
       KSKDSAddWait, CheckKSK, OldDSAbsent, AlgoRetire, AlgoRetiring, CheckAlgorithm,
       ProbeParentDS, delegation, vars
<1>11. UNCHANGED <<regDS, parent, dsLeft>> => DelegationOK'
  BY <1>0 DEF DelegationOK
<1> QED
  BY <1>3, <1>4, <1>5, <1>6, <1>7, <1>8, <1>9, <1>10, <1>11 DEF Next

(* A probe collects the answers of servers.                                *)
LEMMA ProbeStep ==
  ASSUME now \in Nat, probe \in Probe, [Next]_vars
  PROVE  probe' \in Probe
<1>1. NoProbe \in Probe
  BY DEF NoProbe, Probe
<1>2. \A kind \in {"publication", "new_ds", "old_ds"} : BeginProbe(kind) => probe' \in Probe
  BY DEF BeginProbe, Probe
<1>3. \A who \in Servers \cup Parents : Answered(who) => probe' \in Probe
  BY DEF Answered, Probe
<1>4. CASE Restart \/ ProbeFails \/ PublicationConfirmed \/ NewDSPresent \/ OldDSAbsent
  BY <1>1, <1>4 DEF Restart, ProbeFails, PublicationConfirmed, NewDSPresent, OldDSAbsent
<1>5. CASE ProbePublication \/ RolloverComplete \/ AlgoOldDSRemoval
  BY <1>2, <1>5 DEF ProbePublication, RolloverComplete, AlgoOldDSRemoval
<1>6. CASE \/ (\E x \in Servers : ProbePublishedSerial(x))
           \/ (\E p \in Parents : ProbeParentDS(p))
  BY <1>3, <1>6 DEF ProbePublishedSerial, ProbeParentDS
<1>7. ASSUME \/ SignZone \/ SaveCycle \/ (\E x \in Servers : Transfer(x))
             \/ LaunchHook \/ (\E g \in hooks : HookSucceeds(g) \/ HookFails(g))
             \/ StartKSKRollover \/ StartAlgorithmRollover \/ ForceComplete
             \/ StartZSKRollover \/ ZSKPrePublish \/ ZSKSigning
             \/ KSKDSAddWait \/ KSKDSPropagation \/ KSKRetiring
             \/ AlgoDSAddWait \/ AlgoDSPropagation \/ AlgoRetire \/ AlgoRetiring
             \/ PublishDSSet \/ (\E p \in Parents : ParentUpdate(p)) \/ Tick
             \/ UNCHANGED vars
      PROVE  probe' = probe
  BY <1>7, Zenon DEF SignZone, SaveCycle, Transfer, LaunchHook, HookSucceeds, HookFails,
       StartKSKRollover, StartAlgorithmRollover, ForceComplete, StartZSKRollover,
       ZSKPrePublish, ZSKSigning, CheckZSK, KSKDSAddWait, KSKDSPropagation, KSKRetiring,
       CheckKSK, AlgoDSAddWait, AlgoDSPropagation, AlgoRetire, AlgoRetiring,
       PublishDSSet, ParentUpdate, Tick, vars
<1> QED
  BY <1>4, <1>5, <1>6, <1>7 DEF Next

(* The zone as it was added, and after its first signing, is sound.        *)
LEMMA AddedZoneSound ==
  /\ AddedZone \in SoundRecord(2)
  /\ \A d \in DnskeyTTLs, s \in RrsigTTLs :
       RecordSigned(AddedZone, 1, d, s, FALSE, 1) \in SoundRecord(2)
<1>1. FirstKSK \in Key /\ FirstZSK \in Key
  BY DEF FirstKSK, FirstZSK, Key
<1>2. NoRollover \in RolloverRecord
  BY DEF NoRollover, RolloverRecord, NoKey, Key, NoStamp, Stamp
<1>3. AddedZone \in ZoneRecord
  BY <1>1, <1>2, ConstantTypes DEF AddedZone, ZoneRecord
<1>4. AddedZone \in SoundRecord(2)
  <2>1. /\ AddedZone.KSK.id = 1 /\ AddedZone.ZSK.id = 2
        /\ AddedZone.Rollover.new.id = 0 /\ AddedZone.Rollover.type = "none"
    BY DEF AddedZone, FirstKSK, FirstZSK, NoRollover, NoKey
  <2>2. Tagged(AddedZone, 2)
    BY <2>1 DEF Tagged
  <2>3. validateRolloverState(AddedZone)
    BY <2>1, Zenon DEF validateRolloverState
  <2> QED
    BY <1>3, <2>2, <2>3, Zenon DEF SoundRecord
<1> QED
  BY <1>4, ConstantTypes, SignedSound, Zenon

(* The initial state.                                                      *)
LEMMA SoundInit == Init => SoundInv
<1> SUFFICES ASSUME Init PROVE SoundInv
  OBVIOUS
<1>1. PICK d \in DnskeyTTLs, s \in RrsigTTLs :
        /\ z = ConfirmPublication(RecordSigned(AddedZone, 1, d, s, FALSE, 1), 1, 1)
        /\ output = [n |-> 1, keys |-> loadKeysForSigning(AddedZone),
                     dnskeyTTL |-> d, rrsigTTL |-> s]
  BY Zenon DEF Init
<1>2. FirstKSK \in Key
  BY DEF FirstKSK, Key
<1>3. AddedZone \in ZoneRecord
  BY AddedZoneSound DEF SoundRecord
<1>4. z \in SoundRecord(2)
  BY <1>1, AddedZoneSound, ConfirmSound, Zenon
<1>5. z \in ZoneRecord
  BY <1>4 DEF SoundRecord
<1>6. output \in Generation
  BY <1>1, <1>3, KeySetType, ConstantTypes DEF Generation
<1>7. NoProbe \in Probe
  BY DEF NoProbe, Probe
<1>8. /\ now = 1 /\ disk = z /\ minted = 2 /\ served = [x \in Servers |-> output]
      /\ left = {} /\ dsLeft = {} /\ hooks = {} /\ regDS = {FirstKSK}
      /\ parent = [p \in Parents |-> regDS] /\ probe = NoProbe /\ faults = 0
  BY DEF Init
<1>9. TypeOK
  BY <1>2, <1>5, <1>6, <1>7, <1>8 DEF TypeOK
<1> QED
  BY <1>4, <1>8, <1>9 DEF SoundInv

(* Every step preserves the invariant.                                     *)
LEMMA SoundNext == SoundInv /\ [Next]_vars => SoundInv'
<1> SUFFICES ASSUME SoundInv, [Next]_vars PROVE SoundInv'
  OBVIOUS
<1>1. now \in Nat /\ probe \in Probe /\ faults \in Nat
  BY DEF SoundInv, TypeOK
<1>2. minted' \in Nat /\ z' \in SoundRecord(minted') /\ disk' \in SoundRecord(minted')
  BY SoundStep
<1>3. z' \in ZoneRecord /\ disk' \in ZoneRecord
  BY <1>2 DEF SoundRecord
<1>4. DeploymentOK' /\ now' \in Nat /\ hooks' \subseteq Nat /\ DelegationOK'
  BY DeploymentStep, DelegationStep
<1>5. faults' \in Nat /\ probe' \in Probe
  BY <1>1, FaultStep, ProbeStep
<1>6. TypeOK'
  BY <1>2, <1>3, <1>4, <1>5 DEF TypeOK, DeploymentOK, DelegationOK
<1>7. SoundRecord(minted)' = SoundRecord(minted')
  BY DEF SoundRecord, Tagged, validateRolloverState, ZoneRecord
<1> QED
  BY <1>2, <1>6, <1>7 DEF SoundInv

-----------------------------------------------------------------------------
(* So it always holds.                                                     *)
LEMMA Soundness == Spec => []SoundInv
BY SoundInit, SoundNext, PTL DEF Spec

(* The model keeps its types: in particular no step of the signer makes a  *)
(* record with a rollover phase or type the code does not have.            *)
THEOREM TypeCorrect == Spec => []TypeOK
<1>1. SoundInv => TypeOK
  BY DEF SoundInv
<1> QED
  BY <1>1, Soundness, PTL

(* LoadState accepts every record the signer ever saves or holds, whatever *)
(* saves fail and whenever it restarts (validateRolloverState).            *)
THEOREM DiskAlwaysLoads == Spec => []DiskLoads
<1>1. SoundInv => DiskLoads
  BY DEF SoundInv, SoundRecord, DiskLoads
<1> QED
  BY <1>1, Soundness, PTL
=============================================================================
