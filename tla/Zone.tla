-------------------------------- MODULE Zone --------------------------------
(***************************************************************************)
(* The persisted record of one signed zone (state.ZoneState) and the       *)
(* operations of the signer that compute on it without acting: what        *)
(* confirming a publication does to the record, which keys a rollover      *)
(* phase publishes and signs with, how long a phase has to wait, and which *)
(* DS set the parent should hold.                                          *)
(*                                                                         *)
(* Time.  The program's timestamps serve two purposes.  Some are compared  *)
(* with the time a generation was signed; only their order matters, and    *)
(* the order of signings is their number.  Others measure waits, on a      *)
(* clock.  A Stamp carries both: the clock reading "at" and "gen", the     *)
(* number of the last generation signed before it.  A clock reading of 0   *)
(* is Go's zero time ("never").                                            *)
(***************************************************************************)
EXTENDS Integers

CONSTANTS
  CfgDnskeyTTL,   \* [dnssec] dnskey_ttl; 0 = take the SOA's TTL
  Day             \* 24 hours: the conservative wait when no TTL is recorded

ASSUME ZoneAssumption == CfgDnskeyTTL \in Nat /\ Day \in Nat \ {0}

Stamp == [at : Nat, gen : Nat]
Key == [id : Nat, alg : Nat]

NoStamp == [at |-> 0, gen |-> 0]
NoKey == [id |-> 0, alg |-> 0]

Later(a, b) == IF a >= b THEN a ELSE b

-----------------------------------------------------------------------------
(* state.RolloverState.  PhaseFirstSigned and PhaseHorizon are always set  *)
(* and cleared together, so PhaseHorizon stands for both.                  *)

KSKStates == {"ds_add_wait", "ds_propagation_wait", "retiring"}
ZSKStates == {"pre_publish", "signing"}
AlgoStates == {"algo_ds_add_wait", "algo_ds_propagation_wait",
               "algo_old_ds_removal_wait", "algo_retiring"}

RolloverRecord ==
  [type : {"none", "zsk", "ksk", "algorithm"},
   State : {"active"} \cup KSKStates \cup ZSKStates \cup AlgoStates,
   old : Key, new : Key,          \* OldKeyID, NewKeyID
   oldZSK : Key, newZSK : Key,    \* OldZSKID, NewZSKID (algorithm rollover)
   Started : Stamp, PhaseStarted : Stamp,
   PhaseHorizon : Nat,
   DSObservedAt : Nat, ParentDSTTL : Nat, OldDSRemovedAt : Nat,
   DSAddPushed : BOOLEAN, DSRemovalPushed : BOOLEAN]

NoRollover ==
  [type |-> "none", State |-> "active",
   old |-> NoKey, new |-> NoKey, oldZSK |-> NoKey, newZSK |-> NoKey,
   Started |-> NoStamp, PhaseStarted |-> NoStamp, PhaseHorizon |-> 0,
   DSObservedAt |-> 0, ParentDSTTL |-> 0, OldDSRemovedAt |-> 0,
   DSAddPushed |-> FALSE, DSRemovalPushed |-> FALSE]

(* state.ZoneState, without the fields no rollover decision reads.         *)
ZoneRecord ==
  [KSK : Key, ZSK : Key, ZSKExpires : Nat,
   Rollover : RolloverRecord, ForceResign : BOOLEAN,
   LastSigned : Nat, PendingPublication : BOOLEAN,
   PublishedGeneration : Nat, PublishedAt : Nat,
   PublishedDNSKEYTTL : Nat, PublishedMaxRRSIGTTL : Nat,
   ServedDNSKEYTTL : Nat, ServedMaxRRSIGTTL : Nat,
   DNSKEYCacheHorizon : Nat, RRSIGCacheHorizon : Nat]

(* What LoadState accepts of a rollover record.  The signer stops on any   *)
(* other.                                                                  *)
validateRolloverState(z) ==
  LET r == z.Rollover
  IN  \/ r.type = "none"
      \/ /\ r.old # r.new
         /\ \/ r.type = "ksk" /\ r.State \in KSKStates /\ z.KSK = r.new
            \/ r.type = "zsk" /\ r.State = "pre_publish" /\ z.ZSK = r.old
            \/ r.type = "zsk" /\ r.State = "signing" /\ z.ZSK = r.new
            \/ /\ r.type = "algorithm" /\ r.State \in AlgoStates
               /\ r.oldZSK # r.newZSK /\ r.old.alg # r.new.alg
               /\ z.KSK = r.new /\ z.ZSK = r.newZSK

-----------------------------------------------------------------------------
(* Publication.                                                            *)

PublishedSince(z, stamp) == z.PublishedGeneration > stamp.gen

(* Mutant of ConfirmPublication: the horizons count from the previous      *)
(* confirmation.                                                           *)
ConfirmFromPrevious(z, gen, now) ==
  IF gen < z.PublishedGeneration THEN z
  ELSE [z EXCEPT
         !.DNSKEYCacheHorizon = Later(@, z.PublishedAt + z.ServedDNSKEYTTL),
         !.RRSIGCacheHorizon = Later(@, z.PublishedAt + z.ServedMaxRRSIGTTL),
         !.ServedDNSKEYTTL = z.PublishedDNSKEYTTL,
         !.ServedMaxRRSIGTTL = z.PublishedMaxRRSIGTTL,
         !.PublishedAt = now,
         !.PublishedGeneration = gen,
         !.PendingPublication = @ /\ z.LastSigned > gen]

(* Mutant of ConfirmPublication: the horizons forget earlier generations.  *)
ConfirmForgets(z, gen, now) ==
  IF gen < z.PublishedGeneration THEN z
  ELSE [z EXCEPT
         !.DNSKEYCacheHorizon = now + z.ServedDNSKEYTTL,
         !.RRSIGCacheHorizon = now + z.ServedMaxRRSIGTTL,
         !.ServedDNSKEYTTL = z.PublishedDNSKEYTTL,
         !.ServedMaxRRSIGTTL = z.PublishedMaxRRSIGTTL,
         !.PublishedAt = now,
         !.PublishedGeneration = gen,
         !.PendingPublication = @ /\ z.LastSigned > gen]

ConfirmPublication(z, gen, now) ==
  LET prevDNSKEY == IF z.ServedDNSKEYTTL = 0 THEN z.PublishedDNSKEYTTL
                                             ELSE z.ServedDNSKEYTTL
      prevRRSIG  == IF z.ServedMaxRRSIGTTL = 0 THEN z.PublishedMaxRRSIGTTL
                                               ELSE z.ServedMaxRRSIGTTL
  IN  IF gen < z.PublishedGeneration THEN z
      ELSE [z EXCEPT
             !.DNSKEYCacheHorizon = Later(@, now + prevDNSKEY),
             !.RRSIGCacheHorizon = Later(@, now + prevRRSIG),
             !.ServedDNSKEYTTL = z.PublishedDNSKEYTTL,
             !.ServedMaxRRSIGTTL = z.PublishedMaxRRSIGTTL,
             !.PublishedAt = now,
             !.PublishedGeneration = gen,
             !.PendingPublication = @ /\ z.LastSigned > gen]

(* recordSignedZone: generation gen, with these TTLs, is the signed output. *)
RecordSigned(z, gen, dnskeyTTL, rrsigTTL, immediate, now) ==
  LET s == [z EXCEPT !.LastSigned = gen,
                     !.ForceResign = FALSE,
                     !.PublishedDNSKEYTTL = dnskeyTTL,
                     !.PublishedMaxRRSIGTTL = rrsigTTL]
  IN  IF immediate THEN ConfirmPublication(s, gen, now)
                   ELSE [s EXCEPT !.PendingPublication = TRUE]

-----------------------------------------------------------------------------
(* Keys.  Every published KSK signs the DNSKEY RRset in every phase, so a  *)
(* key set is the published KSKs, the published ZSKs and the ZSKs that     *)
(* sign the other RRsets.                                                  *)

KeySet(ksk, zsk, sig) == [ksk |-> ksk, zsk |-> zsk, sig |-> sig]

loadKeysForSigning(z) ==
  LET r == z.Rollover
  IN  CASE r.type = "ksk" /\ r.State \in {"ds_add_wait", "ds_propagation_wait"}
             -> KeySet({z.KSK, r.old}, {z.ZSK}, {z.ZSK})
        [] r.type = "zsk" /\ r.State = "pre_publish"
             -> KeySet({z.KSK}, {r.new, r.old}, {r.old})
        [] r.type = "zsk" /\ r.State = "signing"
             -> KeySet({z.KSK}, {z.ZSK, r.old}, {z.ZSK})
        [] r.type = "algorithm" /\ r.State # "algo_retiring"
             -> KeySet({z.KSK, r.old}, {z.ZSK, r.oldZSK}, {z.ZSK, r.oldZSK})
        [] OTHER
             -> KeySet({z.KSK}, {z.ZSK}, {z.ZSK})

(* NeedsSign, the rollover part: the key set to publish has changed, or no *)
(* signing has happened since the rollover began.                          *)
NeedsSign(z) ==
  \/ z.ForceResign
  \/ z.Rollover.type # "none" /\ z.LastSigned <= z.Rollover.Started.gen

-----------------------------------------------------------------------------
(* Waits.                                                                  *)

dnskeyTTLFloor(z) ==
  LET ttl == Later(z.PublishedDNSKEYTTL, CfgDnskeyTTL)
  IN  IF ttl = 0 THEN Day ELSE ttl

zskRetireFloor(z) == Later(dnskeyTTLFloor(z), z.PublishedMaxRRSIGTTL)

newKeyFloor(z) ==
  IF z.Rollover.type = "algorithm" THEN zskRetireFloor(z) ELSE dnskeyTTLFloor(z)

(* Mutant of effectiveParentDSTTL: no wait for the parent's caches.        *)
NoParentWait(ttl) == 0

effectiveParentDSTTL(ttl) == IF ttl = 0 THEN Day ELSE ttl

(* Mutant of stampNewKeyPropagation: every confirmation moves the instant. *)
StampEveryTime(z) ==
  IF z.Rollover.type \in {"ksk", "algorithm"} /\ PublishedSince(z, z.Rollover.Started)
  THEN [z EXCEPT !.Rollover.PhaseHorizon = Later(z.PublishedAt + newKeyFloor(z),
                                                 z.DNSKEYCacheHorizon)]
  ELSE z

(* Once per KSK or algorithm rollover: the instant from which the parent's *)
(* DS set may change.                                                      *)
stampNewKeyPropagation(z) ==
  LET r == z.Rollover
      dnskeys == Later(z.PublishedAt + newKeyFloor(z), z.DNSKEYCacheHorizon)
      horizon == IF r.type = "algorithm" THEN Later(dnskeys, z.RRSIGCacheHorizon)
                                         ELSE dnskeys
  IN  IF /\ r.type \in {"ksk", "algorithm"}
         /\ r.PhaseHorizon = 0
         /\ PublishedSince(z, r.Started)
      THEN [z EXCEPT !.Rollover.PhaseHorizon = horizon]
      ELSE z

(* Mutant of stampPhasePublication: the phase ends when it is published.   *)
StampWithoutWait(z, floor, cacheHorizon) ==
  [z EXCEPT !.Rollover.PhaseHorizon = z.PublishedAt]

(* Once per ZSK phase: the instant until which the phase must wait.        *)
stampPhasePublication(z, floor, cacheHorizon) ==
  IF z.Rollover.PhaseHorizon # 0 THEN z
  ELSE [z EXCEPT !.Rollover.PhaseHorizon =
                     Later(z.PublishedAt + floor, cacheHorizon)]

(* Mutant of newKeysPropagated: published is taken for propagated.         *)
NewKeysPublished(z, now) ==
  z.Rollover.type # "none" /\ PublishedSince(z, z.Rollover.Started)

newKeysPropagated(z, now) ==
  LET r == z.Rollover
  IN  /\ r.type # "none"
      /\ PublishedSince(z, r.Started)
      /\ r.PhaseHorizon # 0
      /\ now >= r.PhaseHorizon

-----------------------------------------------------------------------------
(* The DS set of the parent.                                               *)

NewKeysPropagatedBy(r, now) ==
  /\ r.type \in {"ksk", "algorithm"}
  /\ r.PhaseHorizon # 0
  /\ now >= r.PhaseHorizon

IncludesOldDS(r, now) ==
  /\ r.type \in {"ksk", "algorithm"}
  /\ \/ r.State \in {"ds_add_wait", "algo_ds_add_wait", "algo_ds_propagation_wait"}
     \/ ~ NewKeysPropagatedBy(r, now)

BuildDSSet(z, now) ==
  {z.KSK} \cup (IF IncludesOldDS(z.Rollover, now) THEN {z.Rollover.old} ELSE {})
=============================================================================
