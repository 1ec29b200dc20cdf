---------------------------- MODULE HorizonProofs ----------------------------
(***************************************************************************)
(* The cache horizons cover every cached answer of an earlier generation,  *)
(* for every value of the constants, when TTLs are only ever lowered and   *)
(* an observation is made at the time it is dated.  (Model checking shows  *)
(* that neither condition can be dropped: the runs unconfirmed_ttl and     *)
(* slow_publication_probe.)                                                *)
(***************************************************************************)
EXTENDS PublicationProofs

(* The generations G were written, the entries L have left the servers.    *)
(* A record whose last signing is "last", whose confirmed generation is    *)
(* "pubgen" and whose TTLs are "pub" and "srv" covers them: "pub" bounds   *)
(* the TTLs from "last" on, "srv" those from "pubgen" on, and the horizon  *)
(* "hor" everything before.                                                *)
Cov(G, L, ttl, last, pubgen, pub, srv, hor) ==
  /\ pub >= 1 /\ srv >= 1
  /\ \A g \in G : /\ g.n >= last => ttl[g] <= pub
                  /\ g.n >= pubgen => ttl[g] <= srv
  /\ \A l \in L : l.gen.n < pubgen => l.at + ttl[l.gen] <= hor

Entry == [gen : Generation, at : Nat]

(* A confirmation at time t of the last generation signed.                 *)
LEMMA CovConfirm ==
  ASSUME NEW G \in SUBSET Generation, NEW L \in SUBSET Entry,
         NEW ttl \in [Generation -> Nat],
         NEW last \in Nat, NEW pubgen \in Nat, NEW pub \in Nat, NEW srv \in Nat,
         NEW hor \in Nat, NEW t \in Nat,
         Cov(G, L, ttl, last, pubgen, pub, srv, hor),
         \A l \in L : l.at <= t /\ l.gen \in G
  PROVE  Cov(G, L, ttl, last, last, pub, pub, Later(hor, t + srv))
<1>1. ASSUME NEW l \in L PROVE l.at + ttl[l.gen] <= Later(hor, t + srv)
  <2>1. /\ l.gen \in G /\ l.at \in Nat /\ l.at <= t
        /\ ttl[l.gen] \in Nat /\ l.gen.n \in Nat
    BY Zenon DEF Entry, Generation
  <2>2. CASE l.gen.n < pubgen
    BY <2>1, <2>2 DEF Cov, Later
  <2>3. CASE l.gen.n >= pubgen
    <3>1. ttl[l.gen] <= srv
      BY <2>1, <2>3 DEF Cov
    <3> QED
      BY <2>1, <3>1 DEF Later
  <2> QED
    BY <2>1, <2>2, <2>3
<1> QED
  BY <1>1 DEF Cov

(* Generation e is written after o, the last of G; what is there then is   *)
(* H, and what has left the servers is M.                                  *)
Writes(G, L, H, M, o, e, last, pubgen) ==
  /\ o \in G /\ \A g \in G : g.n <= o.n
  /\ last <= o.n /\ pubgen <= o.n /\ e.n = o.n + 1
  /\ H \subseteq G \cup {e}
  /\ \A l \in M : l \in L \/ l.gen.n >= pubgen

(* A new generation e, with a TTL not above that of the last output o.     *)
LEMMA CovSign ==
  ASSUME NEW G \in SUBSET Generation, NEW L \in SUBSET Entry,
         NEW H \in SUBSET Generation, NEW M \in SUBSET Entry,
         NEW ttl \in [Generation -> Nat],
         NEW last \in Nat, NEW pubgen \in Nat, NEW pub \in Nat, NEW srv \in Nat,
         NEW hor \in Nat,
         NEW o \in Generation, NEW e \in Generation,
         Cov(G, L, ttl, last, pubgen, pub, srv, hor),
         Writes(G, L, H, M, o, e, last, pubgen), ttl[e] <= ttl[o], 1 <= ttl[e]
  PROVE  /\ Cov(H, M, ttl, last, pubgen, pub, srv, hor)
         /\ Cov(H, M, ttl, e.n, pubgen, ttl[e], srv, hor)
<1>0. /\ o \in G /\ \A g \in G : g.n <= o.n
      /\ last <= o.n /\ pubgen <= o.n /\ e.n = o.n + 1
      /\ H \subseteq G \cup {e}
      /\ \A l \in M : l \in L \/ l.gen.n >= pubgen
  BY DEF Writes
<1>1. ttl[o] <= pub /\ ttl[o] <= srv /\ pub >= 1 /\ srv >= 1
  BY <1>0 DEF Cov, Generation
<1>2. ttl[e] \in Nat /\ ttl[o] \in Nat
  OBVIOUS
<1>3. ttl[e] <= pub /\ ttl[e] <= srv
  BY <1>1, <1>2
<1>4. \A l \in M : l.gen.n < pubgen => l.at + ttl[l.gen] <= hor
  <2> SUFFICES ASSUME NEW l \in M, l.gen.n < pubgen PROVE l.at + ttl[l.gen] <= hor
    OBVIOUS
  <2>1. l.gen.n \in Nat
    BY DEF Entry, Generation
  <2> QED
    BY <1>0, <2>1 DEF Cov
<1>5. ASSUME NEW g \in H
      PROVE  /\ g.n >= last => ttl[g] <= pub
             /\ g.n >= pubgen => ttl[g] <= srv
             /\ g.n >= e.n => ttl[g] <= ttl[e]
  <2>1. CASE g = e
    BY <1>2, <1>3, <2>1
  <2>2. CASE g \in G
    <3>1. g.n \in Nat /\ o.n \in Nat /\ g.n <= o.n
      BY <1>0, <2>2 DEF Generation
    <3>2. ~ (g.n >= e.n)
      BY <1>0, <3>1
    <3> QED
      BY <2>2, <3>2 DEF Cov
  <2> QED
    BY <1>0, <2>1, <2>2
<1> QED
  BY <1>1, <1>2, <1>4, <1>5 DEF Cov

-----------------------------------------------------------------------------
(* The invariant.                                                          *)

DnskeyTTL == [g \in Generation |-> g.dnskeyTTL]
RrsigTTL == [g \in Generation |-> g.rrsigTTL]

Gens == {output} \cup {served[x] : x \in Servers} \cup {l.gen : l \in left}

Covers(G, L, r) ==
  /\ Cov(G, L, DnskeyTTL, r.LastSigned, r.PublishedGeneration,
         r.PublishedDNSKEYTTL, r.ServedDNSKEYTTL, r.DNSKEYCacheHorizon)
  /\ Cov(G, L, RrsigTTL, r.LastSigned, r.PublishedGeneration,
         r.PublishedMaxRRSIGTTL, r.ServedMaxRRSIGTTL, r.RRSIGCacheHorizon)

(* Inductive, with ServedInv: HorizonCoversCaches says nothing of the TTLs *)
(* that the next confirmation will use, nor of the record on disk.         *)
HorizonInv ==
  /\ Covers(Gens, left, z) /\ Covers(Gens, left, disk)
  /\ \A g \in Gens : g.n <= output.n
  /\ \A l \in left : l.at <= now
  /\ probe.kind = "publication" => Mode = "probe" /\ probe.at = now

(* The two TTLs of a generation, as functions.                             *)
LEMMA TTLTypes ==
  /\ DnskeyTTL \in [Generation -> Nat] /\ RrsigTTL \in [Generation -> Nat]
  /\ \A g \in Generation : DnskeyTTL[g] = g.dnskeyTTL /\ RrsigTTL[g] = g.rrsigTTL
BY DEF DnskeyTTL, RrsigTTL, Generation

(* The types of the generations and of the entries.                        *)
LEMMA GensTyped ==
  ASSUME SoundInv
  PROVE  /\ Gens \in SUBSET Generation /\ left \in SUBSET Entry
         /\ output \in Gens /\ \A l \in left : l.gen \in Gens
BY DEF SoundInv, TypeOK, Gens, Entry

(* The publication fields of a record are numbers.                         *)
LEMMA PubFieldTypes ==
  ASSUME NEW r \in ZoneRecord
  PROVE  /\ r.LastSigned \in Nat /\ r.PublishedGeneration \in Nat
         /\ r.PublishedDNSKEYTTL \in Nat /\ r.ServedDNSKEYTTL \in Nat
         /\ r.DNSKEYCacheHorizon \in Nat /\ r.PublishedMaxRRSIGTTL \in Nat
         /\ r.ServedMaxRRSIGTTL \in Nat /\ r.RRSIGCacheHorizon \in Nat
BY DEF ZoneRecord

(* What is covered stays so when generations and entries are forgotten.    *)
LEMMA CoversFewer ==
  ASSUME NEW G, NEW L, NEW r, NEW H \in SUBSET G, NEW M \in SUBSET L, Covers(G, L, r)
  PROVE  Covers(H, M, r)
BY DEF Covers, Cov

(* The fields that a confirmation leaves in a record.                      *)
LEMMA ConfirmFields ==
  ASSUME NEW r \in ZoneRecord, NEW g \in Nat, NEW t \in Nat,
         r.ServedDNSKEYTTL # 0, r.ServedMaxRRSIGTTL # 0
  PROVE  \/ ConfirmPublication(r, g, t) = r
         \/ /\ ConfirmPublication(r, g, t).LastSigned = r.LastSigned
            /\ ConfirmPublication(r, g, t).PublishedGeneration = g
            /\ ConfirmPublication(r, g, t).PublishedDNSKEYTTL = r.PublishedDNSKEYTTL
            /\ ConfirmPublication(r, g, t).PublishedMaxRRSIGTTL = r.PublishedMaxRRSIGTTL
            /\ ConfirmPublication(r, g, t).ServedDNSKEYTTL = r.PublishedDNSKEYTTL
            /\ ConfirmPublication(r, g, t).ServedMaxRRSIGTTL = r.PublishedMaxRRSIGTTL
            /\ ConfirmPublication(r, g, t).DNSKEYCacheHorizon
                 = Later(r.DNSKEYCacheHorizon, t + r.ServedDNSKEYTTL)
            /\ ConfirmPublication(r, g, t).RRSIGCacheHorizon
                 = Later(r.RRSIGCacheHorizon, t + r.ServedMaxRRSIGTTL)
<1> DEFINE d == Later(r.DNSKEYCacheHorizon, t + r.ServedDNSKEYTTL)
           s == Later(r.RRSIGCacheHorizon, t + r.ServedMaxRRSIGTTL)
           b == r.PendingPublication /\ r.LastSigned > g
           w == [r EXCEPT !.DNSKEYCacheHorizon = d, !.RRSIGCacheHorizon = s,
                          !.ServedDNSKEYTTL = r.PublishedDNSKEYTTL,
                          !.ServedMaxRRSIGTTL = r.PublishedMaxRRSIGTTL,
                          !.PublishedAt = t, !.PublishedGeneration = g,
                          !.PendingPublication = b]
<1>1. ConfirmPublication(r, g, t) \in {r, w}
  BY DEF ConfirmPublication
<1> HIDE DEF d, s, b
<1>2. /\ w.LastSigned = r.LastSigned /\ w.PublishedGeneration = g
      /\ w.PublishedDNSKEYTTL = r.PublishedDNSKEYTTL
      /\ w.PublishedMaxRRSIGTTL = r.PublishedMaxRRSIGTTL
      /\ w.ServedDNSKEYTTL = r.PublishedDNSKEYTTL
      /\ w.ServedMaxRRSIGTTL = r.PublishedMaxRRSIGTTL
      /\ w.DNSKEYCacheHorizon = d /\ w.RRSIGCacheHorizon = s
  BY DEF ZoneRecord
<1> HIDE DEF w
<1> QED
  BY <1>1, <1>2 DEF d, s

(* A confirmed record covers what it covered before.                       *)
LEMMA CoversConfirm ==
  ASSUME NEW G \in SUBSET Generation, NEW L \in SUBSET Entry, NEW r \in ZoneRecord,
         NEW t \in Nat, Covers(G, L, r), \A l \in L : l.at <= t /\ l.gen \in G
  PROVE  Covers(G, L, ConfirmPublication(r, r.LastSigned, t))
<1> DEFINE w == ConfirmPublication(r, r.LastSigned, t)
<1>1. /\ r.LastSigned \in Nat /\ r.PublishedGeneration \in Nat
      /\ r.PublishedDNSKEYTTL \in Nat /\ r.ServedDNSKEYTTL \in Nat
      /\ r.DNSKEYCacheHorizon \in Nat /\ r.PublishedMaxRRSIGTTL \in Nat
      /\ r.ServedMaxRRSIGTTL \in Nat /\ r.RRSIGCacheHorizon \in Nat
  BY PubFieldTypes
<1>2. r.ServedDNSKEYTTL # 0 /\ r.ServedMaxRRSIGTTL # 0
  BY <1>1 DEF Covers, Cov
<1>3. CASE w = r
  BY <1>3
<1>4. CASE w # r
  <2>1. /\ w.LastSigned = r.LastSigned /\ w.PublishedGeneration = r.LastSigned
        /\ w.PublishedDNSKEYTTL = r.PublishedDNSKEYTTL
        /\ w.PublishedMaxRRSIGTTL = r.PublishedMaxRRSIGTTL
        /\ w.ServedDNSKEYTTL = r.PublishedDNSKEYTTL
        /\ w.ServedMaxRRSIGTTL = r.PublishedMaxRRSIGTTL
        /\ w.DNSKEYCacheHorizon = Later(r.DNSKEYCacheHorizon, t + r.ServedDNSKEYTTL)
        /\ w.RRSIGCacheHorizon = Later(r.RRSIGCacheHorizon, t + r.ServedMaxRRSIGTTL)
    BY <1>1, <1>2, <1>4, ConfirmFields
  <2> HIDE DEF w
  <2>2. Cov(G, L, DnskeyTTL, r.LastSigned, r.LastSigned, r.PublishedDNSKEYTTL,
            r.PublishedDNSKEYTTL, Later(r.DNSKEYCacheHorizon, t + r.ServedDNSKEYTTL))
    BY <1>1, TTLTypes, CovConfirm DEF Covers
  <2>3. Cov(G, L, RrsigTTL, r.LastSigned, r.LastSigned, r.PublishedMaxRRSIGTTL,
            r.PublishedMaxRRSIGTTL, Later(r.RRSIGCacheHorizon, t + r.ServedMaxRRSIGTTL))
    BY <1>1, TTLTypes, CovConfirm DEF Covers
  <2>4. Covers(G, L, w)
    BY <2>1, <2>2, <2>3 DEF Covers
  <2> QED
    BY <2>4 DEF w
<1> QED
  BY <1>3, <1>4

(* The record w says that generation g was signed from the record r.       *)
SignedFrom(w, r, g) ==
  /\ w.LastSigned = g.n
  /\ w.PublishedGeneration = r.PublishedGeneration
  /\ w.PublishedDNSKEYTTL = g.dnskeyTTL /\ w.PublishedMaxRRSIGTTL = g.rrsigTTL
  /\ w.ServedDNSKEYTTL = r.ServedDNSKEYTTL
  /\ w.ServedMaxRRSIGTTL = r.ServedMaxRRSIGTTL
  /\ w.DNSKEYCacheHorizon = r.DNSKEYCacheHorizon
  /\ w.RRSIGCacheHorizon = r.RRSIGCacheHorizon

(* A signing: the record it starts from, the one it makes, and the one on  *)
(* disk all cover what is there afterwards.                                *)
LEMMA CoversSign ==
  ASSUME NEW G \in SUBSET Generation, NEW L \in SUBSET Entry,
         NEW H \in SUBSET Generation, NEW M \in SUBSET Entry,
         NEW r \in ZoneRecord, NEW o \in G, NEW e \in Generation,
         Covers(G, L, r), \A g \in G : g.n <= o.n,
         r.LastSigned <= o.n, r.PublishedGeneration <= o.n, e.n = o.n + 1,
         e.dnskeyTTL <= o.dnskeyTTL, e.rrsigTTL <= o.rrsigTTL,
         1 <= e.dnskeyTTL, 1 <= e.rrsigTTL,
         H \subseteq G \cup {e},
         \A l \in M : l \in L \/ l.gen.n >= r.PublishedGeneration
  PROVE  /\ Covers(H, M, r)
         /\ \A w : SignedFrom(w, r, e) => Covers(H, M, w)
<1>1. /\ r.LastSigned \in Nat /\ r.PublishedGeneration \in Nat
      /\ r.PublishedDNSKEYTTL \in Nat /\ r.ServedDNSKEYTTL \in Nat
      /\ r.DNSKEYCacheHorizon \in Nat /\ r.PublishedMaxRRSIGTTL \in Nat
      /\ r.ServedMaxRRSIGTTL \in Nat /\ r.RRSIGCacheHorizon \in Nat
  BY PubFieldTypes
<1>2. o \in Generation /\ DnskeyTTL \in [Generation -> Nat] /\ RrsigTTL \in [Generation -> Nat]
  BY TTLTypes
<1>3. /\ DnskeyTTL[e] = e.dnskeyTTL /\ DnskeyTTL[o] = o.dnskeyTTL
      /\ RrsigTTL[e] = e.rrsigTTL /\ RrsigTTL[o] = o.rrsigTTL
  BY <1>2, TTLTypes
<1>4. /\ Cov(H, M, DnskeyTTL, r.LastSigned, r.PublishedGeneration,
             r.PublishedDNSKEYTTL, r.ServedDNSKEYTTL, r.DNSKEYCacheHorizon)
      /\ Cov(H, M, DnskeyTTL, e.n, r.PublishedGeneration,
             e.dnskeyTTL, r.ServedDNSKEYTTL, r.DNSKEYCacheHorizon)
  <2>1. DnskeyTTL[e] <= DnskeyTTL[o] /\ 1 <= DnskeyTTL[e]
    BY <1>3
  <2> DEFINE a == r.LastSigned
             b == r.PublishedGeneration
             pub == r.PublishedDNSKEYTTL
             srv == r.ServedDNSKEYTTL
             hor == r.DNSKEYCacheHorizon
  <2>2. /\ a \in Nat /\ b \in Nat /\ pub \in Nat /\ srv \in Nat /\ hor \in Nat
        /\ a <= o.n /\ b <= o.n /\ \A l \in M : l \in L \/ l.gen.n >= b
    BY <1>1
  <2>3. Writes(G, L, H, M, o, e, a, b)
    BY <2>2 DEF Writes
  <2>4. Cov(G, L, DnskeyTTL, a, b, pub, srv, hor)
    BY DEF Covers
  <2> HIDE DEF a, b, pub, srv, hor
  <2>5. /\ Cov(H, M, DnskeyTTL, a, b, pub, srv, hor)
        /\ Cov(H, M, DnskeyTTL, e.n, b, DnskeyTTL[e], srv, hor)
    BY <1>2, <2>1, <2>2, <2>3, <2>4, CovSign
  <2> QED
    BY <1>3, <2>5 DEF a, b, pub, srv, hor
<1>5. /\ Cov(H, M, RrsigTTL, r.LastSigned, r.PublishedGeneration,
             r.PublishedMaxRRSIGTTL, r.ServedMaxRRSIGTTL, r.RRSIGCacheHorizon)
      /\ Cov(H, M, RrsigTTL, e.n, r.PublishedGeneration,
             e.rrsigTTL, r.ServedMaxRRSIGTTL, r.RRSIGCacheHorizon)
  <2>1. RrsigTTL[e] <= RrsigTTL[o] /\ 1 <= RrsigTTL[e]
    BY <1>3
  <2> DEFINE a == r.LastSigned
             b == r.PublishedGeneration
             pub == r.PublishedMaxRRSIGTTL
             srv == r.ServedMaxRRSIGTTL
             hor == r.RRSIGCacheHorizon
  <2>2. /\ a \in Nat /\ b \in Nat /\ pub \in Nat /\ srv \in Nat /\ hor \in Nat
        /\ a <= o.n /\ b <= o.n /\ \A l \in M : l \in L \/ l.gen.n >= b
    BY <1>1
  <2>3. Writes(G, L, H, M, o, e, a, b)
    BY <2>2 DEF Writes
  <2>4. Cov(G, L, RrsigTTL, a, b, pub, srv, hor)
    BY DEF Covers
  <2> HIDE DEF a, b, pub, srv, hor
  <2>5. /\ Cov(H, M, RrsigTTL, a, b, pub, srv, hor)
        /\ Cov(H, M, RrsigTTL, e.n, b, RrsigTTL[e], srv, hor)
    BY <1>2, <2>1, <2>2, <2>3, <2>4, CovSign
  <2> QED
    BY <1>3, <2>5 DEF a, b, pub, srv, hor
<1> QED
  BY <1>4, <1>5 DEF Covers, SignedFrom

(* The fields that a signing leaves in a record, before it is confirmed.   *)
LEMMA SignedFields ==
  ASSUME NEW q \in ZoneRecord, NEW d \in Nat, NEW s \in Nat,
         NEW g \in Generation, g.n = output.n + 1, g.dnskeyTTL = d, g.rrsigTTL = s,
         now \in Nat
  PROVE  \E p \in ZoneRecord :
           /\ SignedFrom(p, q, g)
           /\ Signed(q, d, s) \in {p, ConfirmPublication(p, p.LastSigned, now)}
<1> DEFINE n == g.n
           p == [q EXCEPT !.LastSigned = n, !.ForceResign = FALSE,
                          !.PublishedDNSKEYTTL = d, !.PublishedMaxRRSIGTTL = s]
           w == [p EXCEPT !.PendingPublication = TRUE]
<1>1. Signed(q, d, s) \in {ConfirmPublication(p, n, now), w}
  BY DEF Signed, RecordSigned
<1>2. n \in Nat
  BY DEF Generation
<1>3. p \in ZoneRecord /\ p.LastSigned = n
  BY <1>2, Zenon DEF ZoneRecord
<1>4. SignedFrom(p, q, g)
  BY <1>2 DEF ZoneRecord, SignedFrom
<1> HIDE DEF p, n
<1>5. w \in ZoneRecord /\ w.LastSigned = p.LastSigned
  BY <1>3, Zenon DEF ZoneRecord
<1>6. SignedFrom(w, q, g)
  BY <1>3, <1>4 DEF ZoneRecord, SignedFrom
<1> HIDE DEF w
<1> QED
  BY <1>1, <1>3, <1>4, <1>5, <1>6

-----------------------------------------------------------------------------
(* The steps.                                                              *)

(* What WriteOutput does to the generations and the entries.               *)
LEMMA WriteGens ==
  ASSUME SoundInv, SoundInv', HorizonInv, ServedInv, TTLsNotRaised, now' = now,
         NEW q \in ZoneRecord, NEW d \in DnskeyTTLs, NEW s \in RrsigTTLs,
         WriteOutput(q, d, s)
  PROVE  /\ output'.n = output.n + 1 /\ output'.dnskeyTTL = d /\ output'.rrsigTTL = s
         /\ 1 <= d /\ 1 <= s /\ d \in Nat /\ s \in Nat
         /\ output'.dnskeyTTL <= output.dnskeyTTL /\ output'.rrsigTTL <= output.rrsigTTL
         /\ Gens' \subseteq Gens \cup {output'}
         /\ \A l \in left' : l \in left \/ \E x \in Servers : l = [gen |-> served[x], at |-> now]
<1>1. output'.n = output.n + 1 /\ output'.dnskeyTTL = d /\ output'.rrsigTTL = s
  BY DEF WriteOutput
<1>2. 1 <= d /\ 1 <= s /\ d \in Nat /\ s \in Nat
  BY RolloverAssumption DEF RolloverAssumption
<1>3. /\ \A x \in Servers : served'[x] \in {served[x], output'}
      /\ \A l \in left' : l \in left \/ \E x \in Servers : l = [gen |-> served[x], at |-> now]
  BY DEF WriteOutput, StopServing
<1>4. \A l \in left' : l.gen \in Gens
  BY <1>3 DEF Gens
<1>5. Gens' \subseteq Gens \cup {output'}
  BY <1>3, <1>4 DEF Gens
<1> QED
  BY <1>1, <1>2, <1>3, <1>5 DEF TTLsNotRaised

(* A signing, whether or not its record reaches the disk.                  *)
LEMMA SignsCover ==
  ASSUME SoundInv, SoundInv', HorizonInv, ServedInv, TTLsNotRaised, now' = now, Signs
  PROVE  /\ Covers(Gens', left', z') /\ Covers(Gens', left', disk')
         /\ \A g \in Gens' : g.n <= output'.n
         /\ \A l \in left' : l.at <= now
<1>1. PICK q \in ZoneRecord, d \in DnskeyTTLs, s \in RrsigTTLs :
        /\ SamePub(q, z) /\ WriteOutput(q, d, s)
        /\ z' \in {q, Signed(q, d, s)} /\ disk' \in {q, disk, Signed(q, d, s)}
  BY DEF Signs
<1>2. /\ output'.n = output.n + 1 /\ output'.dnskeyTTL = d /\ output'.rrsigTTL = s
      /\ 1 <= d /\ 1 <= s /\ d \in Nat /\ s \in Nat
      /\ output'.dnskeyTTL <= output.dnskeyTTL /\ output'.rrsigTTL <= output.rrsigTTL
      /\ Gens' \subseteq Gens \cup {output'}
      /\ \A l \in left' : l \in left \/ \E x \in Servers : l = [gen |-> served[x], at |-> now]
  BY <1>1, WriteGens
<1>3. /\ Gens \in SUBSET Generation /\ left \in SUBSET Entry /\ output \in Gens
      /\ Gens' \in SUBSET Generation /\ left' \in SUBSET Entry /\ output' \in Generation
      /\ \A l \in left' : l.gen \in Gens'
  BY GensTyped DEF SoundInv, TypeOK, Gens, Entry
<1>4. now \in Nat /\ output.n \in Nat /\ z \in ZoneRecord /\ disk \in ZoneRecord
  BY PublicationTyped DEF PublicationTypes
<1>5. \A g \in Gens' : g.n <= output'.n
  <2>1. \A g \in Gens : g.n \in Nat /\ g.n <= output.n
    BY <1>3 DEF HorizonInv, Generation
  <2> QED
    BY <1>2, <1>4, <2>1
<1>6. \A l \in left' : l.at <= now
  BY <1>2, <1>4 DEF HorizonInv
<1>7. ASSUME NEW r \in ZoneRecord, Covers(Gens, left, r), Behind(r)
      PROVE  /\ Covers(Gens', left', r)
             /\ \A w : SignedFrom(w, r, output') => Covers(Gens', left', w)
  <2>1. \A l \in left' : l \in left \/ l.gen.n >= r.PublishedGeneration
    <3>1. r.PublishedGeneration \in Nat /\ \A x \in Servers : served[x].n \in Nat
      BY PubFieldTypes, PublicationTyped DEF PublicationTypes
    <3> QED
      BY <1>2, <1>7, <3>1 DEF Behind
  <2>2. /\ r.LastSigned <= output.n /\ r.PublishedGeneration <= output.n
        /\ \A g \in Gens : g.n <= output.n
    BY <1>7 DEF Behind, HorizonInv
  <2> DEFINE G == Gens
             H == Gens'
             M == left'
             e == output'
  <2>3. /\ G \in SUBSET Generation /\ H \in SUBSET Generation /\ M \in SUBSET Entry
        /\ e \in Generation /\ output \in G /\ H \subseteq G \cup {e}
        /\ left \in SUBSET Entry /\ r \in ZoneRecord
        /\ e.n = output.n + 1 /\ 1 <= e.dnskeyTTL /\ 1 <= e.rrsigTTL
        /\ e.dnskeyTTL <= output.dnskeyTTL /\ e.rrsigTTL <= output.rrsigTTL
        /\ \A l \in M : l \in left \/ l.gen.n >= r.PublishedGeneration
        /\ \A g \in G : g.n <= output.n
        /\ r.LastSigned <= output.n /\ r.PublishedGeneration <= output.n
        /\ Covers(G, left, r)
    BY <1>2, <1>3, <1>7, <2>1, <2>2
  <2> HIDE DEF G, H, M, e
  <2>4. /\ Covers(H, M, r)
        /\ \A w : SignedFrom(w, r, e) => Covers(H, M, w)
    BY <2>3, CoversSign, Zenon
  <2> QED
    BY <2>4 DEF H, M, e
<1>8. Covers(Gens, left, q) /\ Behind(q) /\ Covers(Gens, left, disk) /\ Behind(disk)
  BY <1>1 DEF HorizonInv, ServedInv, Covers, Behind, SamePub
<1>9. Covers(Gens', left', q) /\ Covers(Gens', left', disk)
  BY <1>4, <1>7, <1>8
<1>10. Covers(Gens', left', Signed(q, d, s))
  <2>1. PICK p \in ZoneRecord :
           /\ SignedFrom(p, q, output')
           /\ Signed(q, d, s) \in {p, ConfirmPublication(p, p.LastSigned, now)}
    BY <1>2, <1>3, <1>4, SignedFields
  <2>2. Covers(Gens', left', p)
    BY <1>7, <1>8, <2>1
  <2>3. Covers(Gens', left', ConfirmPublication(p, p.LastSigned, now))
    BY <1>3, <1>4, <1>6, <2>2, CoversConfirm
  <2> QED
    BY <2>1, <2>2, <2>3
<1> QED
  BY <1>1, <1>5, <1>6, <1>9, <1>10

(* A confirmation, dated now.                                              *)
LEMMA ConfirmsCover ==
  ASSUME SoundInv, HorizonInv, Confirms
  PROVE  Covers(Gens, left, z') /\ Covers(Gens, left, disk')
<1>1. PICK t : /\ Save(ConfirmPublication(z, z.LastSigned, t))
               /\ t = now
  BY DEF Confirms, HorizonInv
<1>2. now \in Nat /\ z \in ZoneRecord
  BY PublicationTyped DEF PublicationTypes
<1>3. /\ Gens \in SUBSET Generation /\ left \in SUBSET Entry
      /\ \A l \in left : l.at <= now /\ l.gen \in Gens
  BY GensTyped DEF HorizonInv
<1>4. Covers(Gens, left, z) /\ Covers(Gens, left, disk)
  BY DEF HorizonInv
<1>5. Covers(Gens, left, ConfirmPublication(z, z.LastSigned, now))
  BY <1>2, <1>3, <1>4, CoversConfirm
<1> QED
  BY <1>1, <1>4, <1>5 DEF Save, SaveOver, Commit, SaveFails

(* A server takes the latest generation: what it served is no older than   *)
(* the confirmed generation, so the horizons need not cover it yet.        *)
LEMMA TransferCover ==
  ASSUME SoundInv, HorizonInv, ServedInv, NEW y \in Servers, Transfer(y)
  PROVE  /\ Covers(Gens', left', z') /\ Covers(Gens', left', disk')
         /\ \A g \in Gens' : g.n <= output'.n
         /\ \A l \in left' : l.at <= now
<1>1. /\ UNCHANGED <<z, disk, output, now>>
      /\ \A x \in Servers : served'[x] \in {served[x], output}
      /\ \A l \in left' : l \in left \/ l = [gen |-> served[y], at |-> now]
  BY DEF Transfer, StopServing, zone, SoundInv, TypeOK
<1>2. Gens' \subseteq Gens
  BY <1>1 DEF Gens
<1>3. now \in Nat /\ z \in ZoneRecord /\ disk \in ZoneRecord /\ served[y].n \in Nat
  BY PublicationTyped DEF PublicationTypes
<1>4. ASSUME NEW r \in ZoneRecord, Behind(r), Covers(Gens, left, r)
      PROVE  Covers(Gens', left', r)
  <2>1. r.PublishedGeneration \in Nat /\ r.PublishedGeneration <= served[y].n
    BY <1>4, PubFieldTypes DEF Behind
  <2>2. ~ (served[y].n < r.PublishedGeneration)
    BY <1>3, <2>1
  <2> QED
    BY <1>1, <1>2, <1>4, <2>2, SMTT(40) DEF Covers, Cov
<1>5. Covers(Gens', left', z') /\ Covers(Gens', left', disk')
  BY <1>1, <1>3, <1>4 DEF HorizonInv, ServedInv
<1>6. \A l \in left' : l.at <= now
  BY <1>1, <1>3 DEF HorizonInv
<1> QED
  BY <1>1, <1>2, <1>5, <1>6 DEF HorizonInv

(* Initially nothing has left the servers.                                 *)
LEMMA HorizonInit == Init => HorizonInv
<1> SUFFICES ASSUME Init PROVE HorizonInv
  OBVIOUS
<1>1. PICK d \in DnskeyTTLs, s \in RrsigTTLs :
        /\ z = ConfirmPublication(RecordSigned(AddedZone, 1, d, s, FALSE, 1), 1, 1)
        /\ output = [n |-> 1, keys |-> loadKeysForSigning(AddedZone),
                     dnskeyTTL |-> d, rrsigTTL |-> s]
  BY Zenon DEF Init
<1>2. d \in Nat /\ s \in Nat /\ d >= 1 /\ s >= 1
  BY RolloverAssumption DEF RolloverAssumption
<1> DEFINE q == RecordSigned(AddedZone, 1, d, s, FALSE, 1)
<1>3. q \in ZoneRecord /\ AddedZone \in ZoneRecord
  BY AddedZoneSound, Zenon DEF SoundRecord
<1>4. q.PublishedGeneration = AddedZone.PublishedGeneration
      /\ q.PublishedDNSKEYTTL = d /\ q.PublishedMaxRRSIGTTL = s
  BY <1>3 DEF RecordSigned, ZoneRecord
<1>5. AddedZone.PublishedGeneration = 0
  BY DEF AddedZone
<1>6. z = ConfirmPublication(q, 1, 1)
  BY <1>1
<1> HIDE DEF q
<1>7. /\ z.PublishedGeneration = 1
      /\ z.PublishedDNSKEYTTL = d /\ z.ServedDNSKEYTTL = d
      /\ z.PublishedMaxRRSIGTTL = s /\ z.ServedMaxRRSIGTTL = s
  BY <1>3, <1>4, <1>5, <1>6 DEF ConfirmPublication, ZoneRecord
<1>8. left = {} /\ disk = z /\ served = [x \in Servers |-> output] /\ probe.kind # "publication"
  BY DEF Init, NoProbe
<1>9. Gens \subseteq {output}
  BY <1>8 DEF Gens
<1>10. AddedZone \in ZoneRecord => output \in Generation
  BY <1>1, <1>2, KeySetType DEF Generation
<1>11. output.n = 1 /\ DnskeyTTL[output] = d /\ RrsigTTL[output] = s
  BY <1>1, <1>3, <1>10, TTLTypes
<1>12. Covers(Gens, left, z)
  BY <1>2, <1>7, <1>8, <1>9, <1>11 DEF Covers, Cov
<1> QED
  BY <1>7, <1>8, <1>9, <1>11, <1>12 DEF HorizonInv

(* Every step that raises no TTL preserves the invariant.                  *)
LEMMA HorizonNext ==
  ASSUME Mode = "probe" => ProbeSpan = 0,
         SoundInv, SoundInv', ServedInv, ServedInv', HorizonInv, [Next /\ TTLsNotRaised]_vars
  PROVE  HorizonInv'
<1>1. /\ Covers(Gens', left', z') /\ Covers(Gens', left', disk')
      /\ \A g \in Gens' : g.n <= output'.n
      /\ \A l \in left' : l.at <= now'
  <2>0. Covers(Gens, left, z) /\ Covers(Gens, left, disk)
    BY DEF HorizonInv
  <2>1. CASE Signs /\ now' = now
    <3>1. CASE TTLsNotRaised
      BY <2>1, <3>1, SignsCover
    <3>2. CASE UNCHANGED vars
      <4>1. output'.n = output.n + 1 /\ output' = output /\ output.n \in Nat
        BY <2>1, <3>2, PublicationTyped, SMTT(40) DEF Signs, WriteOutput, vars, PublicationTypes
      <4> QED
        BY <4>1
    <3> QED
      BY <3>1, <3>2
  <2>2. CASE Confirms /\ now' = now
    <3>1. UNCHANGED <<output, served, left>>
      BY <2>2 DEF Confirms
    <3>2. Gens' = Gens
      BY <3>1 DEF Gens
    <3> QED
      BY <2>2, <3>1, <3>2, ConfirmsCover DEF HorizonInv
  <2>3. CASE Quiet /\ UNCHANGED <<now, output, served, left>>
    <3>1. Gens' = Gens
      BY <2>3 DEF Gens
    <3>2. ASSUME NEW r, SamePub(r, z) \/ SamePub(r, disk) PROVE Covers(Gens, left, r)
      BY <2>0, <3>2 DEF SamePub, Covers
    <3> QED
      BY <2>3, <3>1, <3>2 DEF Quiet, HorizonInv
  <2>4. ASSUME NEW x \in Servers, Transfer(x)
        PROVE  /\ Covers(Gens', left', z') /\ Covers(Gens', left', disk')
               /\ \A g \in Gens' : g.n <= output'.n
               /\ \A l \in left' : l.at <= now'
    <3>1. now' = now
      BY <2>4 DEF Transfer
    <3> QED
      BY <2>4, <3>1, TransferCover
  <2>5. CASE Tick
    <3>1. /\ left' \subseteq left /\ now' = now + 1
          /\ UNCHANGED <<z, disk, output, served>>
      BY <2>5 DEF Tick, zone
    <3>2. Gens' \subseteq Gens
      BY <3>1 DEF Gens
    <3>3. Covers(Gens', left', z) /\ Covers(Gens', left', disk)
      BY <2>0, <3>1, <3>2, CoversFewer
    <3>4. \A l \in left' : l.at <= now'
      <4>1. now \in Nat /\ \A l \in left : l.at \in Nat /\ l.at <= now
        BY GensTyped, PublicationTyped DEF PublicationTypes, Entry, HorizonInv
      <4> QED
        BY <3>1, <4>1
    <3> QED
      BY <3>1, <3>2, <3>3, <3>4 DEF HorizonInv
  <2> QED
    BY <2>1, <2>2, <2>3, <2>4, <2>5, StepKinds
<1>2. probe'.kind = "publication" => Mode = "probe" /\ probe'.at = now'
  <2> SUFFICES ASSUME probe'.kind = "publication"
               PROVE  Mode = "probe" /\ probe'.at = now'
    OBVIOUS
  <2>0. probe \in Probe /\ now \in Nat
    BY DEF SoundInv, TypeOK
  <2>1. CASE probe' = probe /\ now' = now
    BY <2>1 DEF HorizonInv
  <2>2. CASE probe' = probe /\ Tick
    <3>1. Mode = "probe" /\ probe.at = now /\ ProbeSpan = 0
      BY <2>2 DEF HorizonInv
    <3>2. now - probe.at < ProbeSpan
      BY <2>2 DEF Tick, Unlocked, NoProbe
    <3> QED
      BY <2>0, <3>1, <3>2
  <2>3. CASE Mode = "probe" /\ probe'.at = now /\ now' = now
    BY <2>3
  <2>4. ASSUME NEW x \in Servers, ProbePublishedSerial(x), now' = now
        PROVE  Mode = "probe" /\ probe'.at = now'
    BY <2>0, <2>4 DEF ProbePublishedSerial, Answered, Probe, HorizonInv
  <2> QED
    BY <2>0, <2>1, <2>2, <2>3, <2>4, ProbeKinds
<1> QED
  BY <1>1, <1>2 DEF HorizonInv

(* When TTLs are lowered but never raised, and a probe takes no time, the  *)
(* horizons of ConfirmPublication bound every cached answer older than the *)
(* confirmed generation, whatever fails or restarts: lowering a TTL never  *)
(* shortens a wait.                                                        *)
THEOREM HorizonsCover ==
  ASSUME Mode = "probe" => ProbeSpan = 0
  PROVE  LoweringSpec => []HorizonCoversCaches
<1>1. SoundInv /\ HorizonInv => HorizonCoversCaches
  <2> SUFFICES ASSUME SoundInv, HorizonInv, NEW l \in left,
                      l.gen.n < z.PublishedGeneration
               PROVE  /\ l.at + l.gen.dnskeyTTL <= z.DNSKEYCacheHorizon
                      /\ l.at + l.gen.rrsigTTL <= z.RRSIGCacheHorizon
    BY DEF HorizonCoversCaches
  <2>1. DnskeyTTL[l.gen] = l.gen.dnskeyTTL /\ RrsigTTL[l.gen] = l.gen.rrsigTTL
    BY GensTyped, TTLTypes
  <2> QED
    BY <2>1 DEF HorizonInv, Covers, Cov
<1>2. LoweringSpec => Spec
  <2>1. [Next /\ TTLsNotRaised]_vars => [Next]_vars
    OBVIOUS
  <2> QED
    BY <2>1, PTL DEF LoweringSpec, Spec
<1>3. LoweringSpec => []HorizonInv
  <2>1. SoundInv /\ SoundInv' /\ ServedInv /\ ServedInv' /\ HorizonInv
          /\ [Next /\ TTLsNotRaised]_vars => HorizonInv'
    BY HorizonNext
  <2> QED
    BY <1>2, <2>1, HorizonInit, Soundness, ServedAlways, PTL DEF LoweringSpec
<1> QED
  BY <1>1, <1>2, <1>3, Soundness, PTL
=============================================================================
