# A TLA+ model of sigillum-dnssec

This directory holds TLA+ modules that model parts of sigillum-dnssec, the TLC
configurations that check them on small instances, and TLAPS proofs of some of
the properties for all instances. `PROJECT.json` maps every definition to the
lines of source it models and lists runs, findings, hazards and theorems.

So far the project covers the core of the signer: **one zone through its key
rollovers**, with everything that decides whether a resolver can validate it.

## 1. The system

sigillum-dnssec is two Go programs.

**sigillum-signer** (`signer/`) signs zone files and rolls their keys. A daemon
and a set of commands share one state file under one lock.

| Part | Source | State | Operations |
|---|---|---|---|
| Zone record and its file | `internal/state` | `state.json`: keys, rollover record, what was signed, what is confirmed served, cache horizons, warnings | `Save`, `LoadState`, `ReloadFromDisk` (three-way merge), `ConfirmPublication` |
| Signing | `internal/signer/sign.go`, `zonemodel.go` | the signed zone file | choose keys, serial, sign, NSEC/NSEC3 chain, self-verify, write, record |
| Rollovers | `internal/signer/rollover.go` | `RolloverState` | start (operator: KSK, algorithm; automatic: ZSK), complete (operator), automatic phases |
| Keys | `internal/signer/keytx.go`, `keys.go`, `bindkeys.go`, `import_cli.go` | key files: live, tagged, backup | stage, activate, recover, import |
| Daemon | `daemon.go`, `hook_dispatch.go`, `hooks.go` | cycle timing, hook queue, retry back-off | cycle = reload, sign, check rollovers, save, deploy, probe; reload; shutdown |
| DS automation | `registrar_cli.go`, `internal/registrar` | DS set at the registrar, request window | push, verify, clear, automatic publication, `ReplaceDS` with recovery |
| Probes | `internal/validate/parentds.go` | none | new DS present / old DS absent at every parent server; serial at every server |
| Commands | `main.go` | none of their own | add, remove, sign, resign, rollover ... |
| Files and lock | `internal/fsutil`, `filelock_*.go` | none of their own | atomic replacement, lock |
| Reporting | `status.go`, `web.go`, `health.go`, `heartbeat.go`, `metrics` | caches | read-only |

**sigillum-validator** (`validator/`) validates a name from the root and reports
the chain over HTTP: the walk (`validator.go`, `chain.go`, `dnssec.go`,
`authenticated.go`), denial proofs (`nsec.go`), bounds on work (`budget.go`,
`runBounded`, the semaphore of `handlers.go`, `ratelimit.go`), root anchors
(`anchors.go`, `anchors_store.go`), queries and egress policy, RDAP, web and SSE.

How the parts of the signer meet in a rollover: a rollover check changes the
zone record and asks for a re-sign; the next signing writes a zone with another
key set; servers pick the file up, each at its own time; a hook result or a
probe confirms the generation; confirmation starts the phase's wait; when the
wait is over the check moves on, and for a KSK the registrar, the parent and its
caches go through the same kind of delay. What is hard here: answers fetched at
different times from different servers have to validate together; the TTL that
matters is that of an old generation; hook results arrive late; saves fail
between two steps of a check; the process restarts; a registrar update is
several requests; a timestamp is read before the observation it dates.

## 2. Modules

| Module | Models |
|---|---|
| `Zone` | The zone record (`ZoneState`, `RolloverState`) and pure operations on it: `ConfirmPublication`, `recordSignedZone`, `loadKeysForSigning`, the rollover part of `NeedsSign`, the waits (`dnskeyTTLFloor`, `zskRetireFloor`, `newKeyFloor`, the two stamps, `newKeysPropagated`), `validateRolloverState`, `IncludesOldDS`, `BuildDSSet`. |
| `Rollover` | The composition: signer process, operator, hooks, probes, authoritative servers, registrar, parent servers, resolver caches, clock, failed saves and restarts. |
| `MCRollover` | Symmetry of servers and of parent servers, for TLC. |
| `RolloverProofs`, `PublicationProofs`, `HorizonProofs` | Theorems (section 6). |

A definition prefixed by the comment "Mutant of X" is a wrong version of X: with
it in X's place a run must fail. They show that each property can fail.

### State of `Rollover` and what it stands for

* `z` is the record in memory, `disk` the one in `state.json`. A save sets both;
  a save that fails (`SaveFails`) leaves memory ahead of the disk, as `Save` does.
  An operation that saves more than once can fail at each save (`DiskAfter` is
  the disk after the first). The state after `SaveFails` is also the one between
  a write (signed file, registrar) and the save that records it, so a crash
  there is `SaveFails` followed by `Restart`. Together they count as one fault,
  as do a save that keeps failing until the process ends and a restart at rest.
* `output` is the signed file, `served[x]` what server x serves; a generation is
  its number, its key set and its two TTLs.
* `left` and `dsLeft` record what is no longer served and when that ended: with
  what is served, this is all a resolver can hold. Entries go when their TTL is
  over.
* `hooks` are the generations whose hook is running, `probe` the probe in
  progress, `regDS` and `parent[p]` the DS sets.

### Correspondence

* An action is one operation under the state lock. A probe is the exception: the
  clock and the servers move while it runs, so it is begin, one answer per
  server, end; the lock is held meanwhile (`Unlocked`). `ProbeSpan` bounds how
  long it lasts; 0 means that it takes no time.
* The daemon's cycle does its steps in a fixed order. The model lets them
  interleave freely, which includes the code's order, cycles cut short by a
  failure, and commands between the steps.
* `NeedsSign` has other reasons to sign than rollovers (edited source,
  signatures due, the `resign` command), so `SignZone` is always allowed; that
  an owed signing is not forgotten is the property `OutputMatchesState`.
* A timestamp compared with the time of a signing is a *generation number*; one
  that measures a wait is a clock reading. `Stamp` has both. 0 is Go's zero time.
* A key is a tag and an algorithm; tags are never reused. In every phase all
  published KSKs sign the DNSKEY RRset, so a key set is published KSKs,
  published ZSKs and ZSKs that sign.
* A restart loads the disk, forgets running hooks and probes. Commands run when
  memory and disk agree; what happens otherwise is the merge (section 8).
* The end of a command, running the hook and publishing the DS set, may fail at
  any point and is the pair of actions `LaunchHook`, `PublishDSSet`.
* Nothing in the code makes `registrar push` wait for propagation. That
  `PublishDSSet` waits in `algo_ds_add_wait` is an assumption about the operator
  (who follows `status`); `PushEarly` drops it.
* `HookSucceeds` assumes what `config.go` says of hook mode: when the hook of a
  generation succeeds every server serves it or a later one.
* The code of `rollover complete --force` asks nobody. `ForceComplete` assumes
  that an operator who uses it has seen the new DS at every parent server.
* A failed registrar update may have changed nothing, added the wanted records,
  or (`DSMayBeLost`) left the DS set empty, both in a check and in
  `registrar push`.
* A zone without DS is insecure, not bogus: an empty DS set validates anything.

## 3. Properties

| Property | Says |
|---|---|
| `ChainIntact` | Any DS set, DNSKEY RRset and signatures a resolver can hold, each fetched at its own time from any server, validate together, for a validator that requires every algorithm the DS set signals. |
| `RetiredAfterParentTTL` | While a KSK is being dropped every DS set that can be cached has the new DS; while an algorithm is being dropped none has the old. |
| `HorizonCoversCaches` | The cache horizons bound the life of every cached answer older than the confirmed generation. |
| `ConfirmedIsServed` | A generation recorded as published is served by all servers. |
| `OutputMatchesState` | If no signing is owed the output has the keys the phase calls for. |
| `DiskLoads` | Every record saved or held is one `LoadState` accepts. |
| `OldDSNotResurrected` | A DS added at the registrar is that of the live KSK. |
| `AutomationSettles` | With automation a rollover ends with exactly the live KSK's DS at the registrar. |
| `NewAlgorithmDSWaits` | The DS of a new algorithm is added only when every answer that can be cached has the new keys and signatures. |
| `TypeOK` | Types. |

## 4. Runs

All runs use `MCRollover`. Passing:

| Run | Question |
|---|---|
| `zsk_hook` | ZSK rollover, two servers, hooks that end late, out of order or in failure, a DNSKEY TTL that is lowered (`LoweringSpec`), generations superseded before they are confirmed. |
| `ksk_manual` | KSK rollover, DS changed by hand, two parent servers that disagree for a while. |
| `ksk_probe` | KSK rollover, probed publication on two servers, automation with failing updates. |
| `algorithm` | Algorithm rollover with automation and hooks. |
| `ttl_change` | TTLs that go up and down during a ZSK rollover, immediate mode, no faults. |
| `faults` | KSK and algorithm rollovers, also one after the other in both orders, automation with failing updates, one fault (failed save, crash between two writes, restart) anywhere. |

Failing, each against a sentence of the repository (quoted in `findings`):

| Run | What the code does |
|---|---|
| `unconfirmed_ttl` | The longer TTL of a generation served but never confirmed is in no horizon. `lost_generation.cfg` is the same gap after a crash, see below. |
| `slow_publication_probe`, `slow_ds_probe` | An observation is dated before the probe that makes it, so the wait that follows is short by as long as the probe took. The error is bounded by the duration of the probes (seconds, normally), the waits are hours. |
| `lost_resign` | A ZSK rollover that could not be saved clears a `ForceResign` that was owed before it. |
| `early_push` | `registrar push` in `algo_ds_add_wait` does not wait for propagation. |
| `lost_ds` | An update that emptied the DS set passes for the removal of the old DS; the rollover ends without a DS. A sticky warning tells the operator. |

Two more configurations show a variant of a failing run and are kept beside it:

* `lost_generation.cfg` (as `ttl_change`, one fault; `ChainIntact` fails). A
  generation with a longer DNSKEY TTL is written, and in immediate mode served;
  the process ends before the save of the cycle (`daemon.go:840`). No record has
  ever known that TTL. A ZSK rollover starts, a generation with the shorter TTL
  is confirmed, its horizon is short, and the ZSK switches while a resolver still
  holds the lost generation's DNSKEY RRset, which has the old ZSK only.
* `slow_old_ds_probe.cfg` (as `slow_ds_probe`, for an algorithm rollover;
  `RetiredAfterParentTTL` fails). `OldDSRemovedAt` is dated before the probe
  that finds the old DS gone (`rollover.go:962` and `1024`).

Some comments describe an older design and have no run. `state.go:279-281` and
`295-296` say that completing a rollover drops the old key at once, while the
code goes through the propagation and retiring phases. `state.go:83` and `89` say
that `PublishedDNSKEYTTL` and `PublishedMaxRRSIGTTL` are not decreased while a
rollover is active; `recordSignedZone` sets both to the TTLs of the generation it
records, and the cache horizons remember longer ones.

### Bounds

TTLs are 1 or 2 (3 in one run), so that "expired" and "not expired" both occur
in each phase, and DNSKEY and signature TTLs differ. `MaxTime` is one to four
ticks more than the earliest end of the run's rollover (found by asking TLC for
a completed rollover whose final zone every server serves). `MaxGen` allows one
signing per phase and one more: enough for a generation that is superseded
unconfirmed. `MaxKeys` allows one rollover of the kind the run is about (a
second ZSK rollover in `ttl_change`; in `faults` a KSK rollover before or after
an algorithm rollover, both of which TLC completes within the bounds).
`ZSKLifetime = 50` switches the automatic ZSK rollover off. `MaxFaults = 1` in
`faults` is one failed save, one crash between two writes or one restart, at any
point. A second server or parent server is there where a property is about
agreement. `Day = 2` stands for the default of 24 hours, longer than the other
waits. Deadlock is not checked because a bounded clock and a bounded number of
generations do end.

There is no fairness yet: all properties are safety properties.

What `faults` does not claim, and why:

* With `MaxFaults = 2`, `OutputMatchesState` fails for a while: the save that
  enters `retiring` fails, the next signing drops the old key, and the process
  ends before its save. The disk is then a phase behind the output, until the
  check enters `retiring` again.
* With `MaxFaults = 2`, `ChainIntact` fails: neither the phase change to
  `algo_old_ds_removal_wait` nor the removal of the old DS pushed in it is saved,
  the process restarts in the earlier phase, which pushes the old DS again, and
  the parent, still showing the set without it, is taken for its removal (listed
  as a hazard).
* `DSMayBeLost = FALSE`: `lost_ds` shows what an emptied DS set does to an
  algorithm rollover without any fault. In a KSK rollover (`ksk_probe`) an
  emptied set is repaired, but with a fault as well `OldDSNotResurrected` fails:
  when the stamp of the new key's propagation could not be saved, the update made
  with it emptied the set and the process then restarted, `registrar push`
  publishes the old DS together with the new one again.

## 5. What the runs show

In each publication mode, for each kind of rollover, no interleaving of signing,
deployment, probing, operator and registrar steps within the bounds leads to
answers that do not validate together, provided that observations are made at the
time they are dated, that unconfirmed generations do not raise TTLs, and that the
operator follows `status`. Each of these conditions is needed for the properties as
stated: the failing runs drop one at a time. One failed save, crash or restart
adds two failures, both in ZSK rollovers: `lost_resign`, and `lost_generation.cfg`
when the lost generation raised a TTL. In KSK and algorithm rollovers with constant
TTLs one fault breaks nothing (`faults`); two do, as listed in section 4.

## 6. Theorems

For every number of servers and parent servers, all TTLs, waits and bounds:

| Theorem | Module |
|---|---|
| `TypeCorrect`: `Spec => []TypeOK` | `RolloverProofs` |
| `DiskAlwaysLoads`: `Spec => []DiskLoads` | `RolloverProofs` |
| `PublishedIsServed`: `Spec => []ConfirmedIsServed` | `PublicationProofs` |
| `HorizonsCover`: `LoweringSpec => []HorizonCoversCaches`, if publication probes take no time (`Mode = "probe" => ProbeSpan = 0`) | `HorizonProofs` |

The assumptions are `ZoneAssumption` and `RolloverAssumption`: TTLs are positive (the
code takes a recorded TTL of 0 for "not recorded"), and `0 < Switch < Prepublish`,
which `config.go` enforces.

* `SoundInv` strengthens the type invariant: both records are accepted by
  `LoadState` and name no key tag beyond `minted`. Without that a new key might
  equal an old one, which `validateRolloverState` rejects. The lemmas say that
  each function on records keeps a record sound; a generic lemma about saving
  (success, failure, failure of the second save) turns that into steps.
* `ServedInv` adds that a server never goes back, that every confirmed generation
  of either record is served, and that the answers a running publication probe has
  collected are still true. Only signing and confirming change what a record says
  about publication; `SamePub` states that of all other operations, once.
* `HorizonInv` adds, for both records, that the recorded TTLs bound those of the
  generations written since, and the horizon everything older (`Cov`). It needs
  TTLs that are not raised: the TTL of an unconfirmed generation is then at most
  that of the confirmed one.

Only model-checked: `ChainIntact`, `RetiredAfterParentTTL`, `OutputMatchesState`
and the action properties.

## 7. Not modelled

Cryptography, key file formats, the network, output formats, logging, status
texts, warnings. Components not modelled yet are in `PROJECT.json` with the reason.

## 8. Plan

In this order:

1. `StateMerge`: three-way merge of a command's save with the daemon's unsaved
   changes, committed-but-unsynced saves; no transition, owed re-sign,
   confirmation or horizon of either side is lost.
2. `KeyTx`: staging, activation, backup and recovery of key files with a crash
   between any two writes; a key in use is never lost.
3. `HookDispatch`: queue, workers, superseding, back-off, reload and shutdown;
   liveness: a pending generation is eventually deployed if hooks succeed.
4. `Registrar`: the requests of `ReplaceDS`, refining the atomic update that
   `Rollover` assumes; the request gate and its reserve.
5. `Phases`: an abstract specification of a rollover on relative time, which
   `Rollover` implements, with liveness: every rollover ends.
6. `Cycle`: wake-up times and several zones. `Serial`: serial arithmetic over a
   small modulus. `Denial`: the NSEC chain the signer builds against the denial
   proofs the validator accepts, over bounded names.
7. Validator: `Anchors`, `WorkBounds` (budget, pool, semaphore), `RateLimiter`,
   `ChainWalk`.
8. Proofs: `OutputMatchesState` and `OldDSNotResurrected` next, then
   `ChainIntact` for the ZSK rollover, and the invariants of the new modules.

Induction over data, liveness and recursive definitions are out of the prover's
reach and stay with TLC.
