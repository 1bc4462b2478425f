# Verification of the ESP32-P4 NTS time server

TLA+ models of the firmware in `src/main`, checked with TLC on small instances
and, where it matters most, proved with TLAPS for every value of the constants.
The code is the reference: each definition names its lines in `PROJECT.json`
("map"). Paths below are relative to `src/main` unless they start with `src/`.

## 1. The system

A stratum 1 NTP server. A u-blox receiver gives UTC over UART and a pulse per
second on a GPIO. The firmware disciplines a clock with them and answers NTP and
NTS requests over Ethernet. It also runs an NTS key exchange and an HTTPS console
that renews its own certificate by ACME.

| Part | State it keeps | Operations | Talks to | What makes it correct |
|---|---|---|---|---|
| PPS service (`pps_service.c`) | capture queue of 16, last capture, interval validity | ISR on each edge, `wait_for_capture`, `get_status` | GPIO interrupt → queue → monitor task | a capture is refused when it is old or out of step; a full queue loses new edges, never order |
| GNSS service (`gnss_service.c`) | UBX parser, last PVT/TIMELS/TIM-TP, arrival times, expected ACK | byte parser, one handler per message, staleness, configuration at boot | UART; read by clock, diagnostics, console | a record is valid only while fresh; an answer belongs to its command |
| Clock discipline (`clock_discipline.c`) | `s_clock`: anchor, last sample, reference, state, accepted and rejected counts | `submit_sample`, `update_reference_state`, `enforce_holdover_policy`, two timestamp reads | mutex; monitor task writes, everybody reads | serves only with a solution; reference never after transmit; lock and rejection thresholds |
| Monitor task (same file) | last TIM-TP used, wait in progress | pops a capture, waits for its record, submits, runs the policies | between PPS and GNSS | a pulse gets its own second; holdover ends in time; service returns |
| Ethernet (`eth_service.c`) | ring of 16 receive timestamps, PTP/UTC correlation, link and IP state | receive hook, `take_ntp_rx_timestamp`, correlation task, transmit late stamp, event handlers | driver task, TCP/IP stack, server task | a request gets the timestamp of its own frame, once |
| NTP server (`ntp_server.c`) | socket, statistics | receive, match timestamp, limit, authenticate, compose, send | clock, Ethernet, rate limiter, NTS | answers only while the clock serves; fails closed |
| Rate limiter (`ntp_rate_limit.c`) | 32 token buckets | `allow` | server task only | no more than burst and rate; patient clients served |
| NTS keys (`nts_storage.c`, `nts_cookie.c`) | key ring PREVIOUS/ACTIVE/NEXT in NVS | ensure, maintain (rotate), load, save; generate, create, unpack | server task and NTS-KE task, no common lock | the ring stays valid; unexpired cookies open |
| NTS authentication (`nts_ntp_auth.c`) | request context | verify, protect | server task | replies only to authentic requests |
| NTS-KE (`nts_ke.c`) | listener, TLS configuration | one client at a time | TCP, key ring, certificate | eight cookies under the active key |
| ACME (`acme_client.c`, `acme_storage.c`) | account, two certificate slots and a selector in NVS | order transaction, slot store, migration, activation records | Cloudflare, console tasks | a crash leaves one complete, selected credential |
| Renewal and TLS transitions (`web_console.c`) | attempt, hand-off and intent records; TLS source in use | evaluate, execute, claim, restart with roll-back | scheduler task, transition task, HTTP handlers | no attempt repeated in its cooldown; some credential always serves; a replacement is served in the end |
| Device configuration (`device_config.c`) | one copy in RAM, its entries in NVS | load with migration, one setter per page, persist entry by entry | HTTP handlers; read by the peer monitor and the Cloudflare client | what was acknowledged is what the next boot loads; zone and token belong together |
| Peer monitor (`ntp_peer_monitor.c`) | per peer a window of samples, failures, health | follow the configuration, poll side by side, compare | configuration, UDP | samples are those of the server shown; a failing peer is not shown as usable |
| Cloudflare client, diagnostics, app state, start-up | see `PROJECT.json` | | | |

`health.c` and `network_identity.c` are not in the build (`CMakeLists.txt`).

### What is hard

* **Correlation.** Two streams meet in the monitor task (edges and TIM-TP
  records), and two in the server task (ring entries and datagrams). Only
  order ties them: a loss on one side shifts the pairing.
* **Interleaving.** Server, NTS-KE, scheduler, transition and event tasks share
  NVS records and status structures; several operations load, change and save
  with no lock over the whole.
* **Time.** Holdover, staleness, token refill, key periods and cooldowns are all
  looked at only when somebody comes by.
* **Crashes.** Key ring, certificate slots, selector, attempt and intent records
  and the device configuration are written entry after entry, each entry durable by
  itself.
* **Roll-back.** The console replaces the TLS credential of the server it is
  reached by: every failure between stopping and starting must leave a server.

`PROJECT.json` ("hazards") lists each of them at its line with the properties
that cover it, or the reason why none does.

## 2. The modules

| Module | Models | Composes |
|---|---|---|
| `ClockDiscipline` | `s_clock` under arbitrary samples; the abstract specification of the clock | |
| `ClockMonitor` | the monitor task, the PPS queue, the TIM-TP mailbox, the receiver's timing and its faults | extends `ClockDiscipline` and implements its `Spec` |
| `NtpReply` | the reads of the clock a reply is composed from, up to the transmit path, and the checksum that path corrects | extends `ClockDiscipline` |
| `NtpServer` | receive timestamps and the server task | |
| `NtpRateLimit`, `MCNtpRateLimit` | the token buckets | |
| `NtsKeyring` | key ring in NVS, cookies, the two tasks that use them | |
| `Credential` | what the certificate storage promises: the abstract specification of `CertSlots` | |
| `CertSlots` | two certificate slots, selector, legacy entries, and the tasks that use them | implements `Credential` |
| `TlsConsole` | the HTTPS server's credential: boot path, operator's requests, transition task | stands on the one credential of `Credential` |
| `CertRenewal` | renewal scheduler, certificate orders, TXT records, restarts | extends `TlsConsole` |
| `DeviceConfig` | the configuration in RAM and NVS | |
| `PeerMonitor` | the monitor of other NTP servers | extends `DeviceConfig` |
| `ClockDisciplineProofs`, `NtpServerProofs`, `NtpRateLimitProofs`, `NtsKeyringProofs`, `CertSlotsProofs`, `CertRenewalProofs`, `PeerMonitorProofs` | theorems about the module of that name | extend it |
| `ClockUsersProofs` | theorems about `ClockMonitor` and `NtpReply`, the two tasks that use the clock | extends both and `ClockDisciplineProofs` |

In every module an operator whose comment begins "Faulty variant" is not part of the
specification: it is the plausible bug that a property is known to catch
(`PROJECT.json`, "mutants").

### ClockDiscipline

`solution_valid`, `state`, `accepted`, `rejects`, `reference_valid` are the fields
of `clock_context_t`; `last` is `last_sample_*` and `anchor_*`, which the code
assigns together everywhere; `reference` is `reference_*`. `submit_sample` is
`FirstSample`, `RejectBackward`, `Reanchor` or `AcceptSample`, one per return.
Time is counted in ticks, `Second` of them per second. The frequency filter is
left out: its clamp of 200 ppm moves a prediction by 60 ms in the longest
holdover, below the 250 ms at which a sample is refused.

### ClockMonitor

`pc` follows `clock_monitor_task`: wait for a capture, wait for a record, update,
enforce. `Tick` lets time pass only while the task is blocked, since it runs at
priority 15 and its own steps are short. The capture timer and UTC share their
origin, so a pairing is right exactly when `last.capture = last.utc * Second`.
The receiver sends the record of the coming pulse between two edges (the UBX
protocol, as `handle_ubx_tim_tp` relies on it); up to `FaultsUntil` records and
pulses may be lost, and the receiver's time may come and go.

### NtpReply

`reply.pc` follows a request through `eth_service_take_ntp_rx_timestamp`
(clock read, PTP event, clock read), the quality, the reference, the transmit time and,
for a plain reply, the read of the transmit path that replaces it. Each read takes
the clock's mutex on its own; samples and policies come between any two. A bracket
of the two reads that is too long, or a clock that no longer serves, drops the
request. `sampled` and `moved` record what the clock went through meanwhile.
Assumed: a request is answered or given up within `ReplyTime`, less than a second, so
that one sample at most comes in between; the PTP counter runs with the capture
timer over that time; the correlation's rate and the transmit compensation of 99 µs
are below a tick. Kiss-of-death packets, stratum and leap indicator are left out.

The datagram a reply is sent in is its length, the sum of its other words and its
checksum, as the IP stack makes them (`Datagram`, external); the words have `Radix` values
in place of 2^16, and the four words of the transmit time are two. The transmit path
corrects the checksum word by word (`ReplaceWord`, `Fold`) for the difference of the old and the
new time, and a result of zero is sent as all ones (`NonZero`). `ChecksumKept` asks that
the client's stack finds it right, and that a datagram without a checksum keeps none.
Of the tests of `eth_frame_prepare_ntp_late_stamp` the model has the length and the
checksum of zero; the others (source port, mode, stratum, fragment) are the same for
every reply the server task composes. Frames of other origin are not modelled.
One case is excepted by name: a sample that is rejected and yet moves the clock
(`moved`; the first finding) breaks the turnaround of the reply under way.

### NtpServer

Frames are numbered in order of arrival; the number is the frame's true receive
time and the ring entry's sequence. `FrameArrives` is the receive hook: the
critical section that fills the ring, then the stack, which delivers or drops.
`Receive`, `Take`, `Reply` and `Drop` are the steps of `ntp_server_task`. A drop for
any of the task's reasons (malformed, limited, not authentic, clock not serving,
no timestamp) is one action, since the properties do not tell them apart.

### NtpRateLimit

A call of `ntp_rate_limit_allow` is one step: only the server task calls it.
`table` is `s_clients`. Slots are filled in order and never freed, so the first
free slot is the one the scan of `find_or_allocate_client` meets.

### NtsKeyring

`ring` is the blob in NVS. Each operation of `nts_cookie.c` begins with the maintenance
of the ring: `Leave` when no rotation is due, or the first round on a private copy
(`Maintain`), further ones (`RotateAgain`) and `Save`. Then comes a second load with the
work on it (`Generate`, `Unpack`, `Seal`). The other task, time and a loss of power come
between any two; `read` is the tick at which the task looked at the clock, and at most
one more passes before it saves or uses the ring. A random key is named after the task
that drew it and the tick. A key is ACTIVE for 30 days and a cookie lives for one; the
assumption is only that a cookie lives no longer than a key is ACTIVE, and the run checks
the extreme, both three ticks.

### Credential and CertSlots

`Credential` is one number that is replaced in a single step (`Install`), towards a
newer credential, and that nothing loses. `CertSlots` has the entries as the code
writes them: key, chain and hostname of each slot, the selector, and the legacy
entries; every operation (store, migrate, retire, inspect, load) is a sequence of
single durable writes and reads, with a failure (`Fail`) or `PowerLoss` between any
two, run by the boot path, the web server's task, the scheduler and a loading task
without a lock. `Effective` is what `resolve_production_slot` answers with; it is
the refinement mapping for `current`. Three things the model shows are stated as
they are rather than hidden:

* two stores that meet (a manual and an automatic transaction) may take the
  credential back to the older of the two for a moment, and back again: `Withdraw`,
  allowed only in the phase `contended`;
* a load reads key and chain one by one after it resolved the slot; one that meets
  two stores may return the key of one and the chain of the other (`LoadedWhole`);
* broken legacy material without a selector blocks every store, and legacy entries
  are practically never retired: both slots must be whole while the entries are
  still those of the credential in use.

A store that has written key and chain may be left with the only whole slot: two
stores into the two slots, one done and the other not. `TargetIsSpare` therefore asks
for another whole slot only until the store has made its own whole.

Assumed (`slow`): a transaction takes minutes, a storage operation milliseconds, so
an operation in progress when a transaction starts is over when it stores.

### TlsConsole and CertRenewal

`server` is the HTTPS server that runs, `tls` what `s_tls_source` and the two leaf
records say of it, `nvs` the small records next to the credential. `transition` is
`tls_transition_task`: stop, start, and the two fall-backs; `boot` is
`web_console_start` with its recovery of the intent and the hand-off. `CertRenewal`
adds `sched`, the round of `renewal_scheduler_task` from the cooldown to the
scheduling of a transition, an order with its TXT record, the operator's own
renewal, `Tick` (six hours: both cooldowns and the scheduler's period), the loss of
time and `PowerLoss`. The credential itself is one number here, as `CertSlots` implements
it. What the code does against the simple statement of a property is named in it:

* the leaf on record is read from the storage after the server has started: a
  credential stored in between is taken for the one served, and not activated
  before the next boot (`Misread`);
* the TLS source is looked at before the transition is claimed: an operator's
  roll-back in between is overridden by the automatic path (`overtaken`);
* a leaf that cannot be inspected after the server has started stays empty, and
  `tls_activation_preflight` refuses every activation until the next start (`Misread`);
* a hand-off whose last write failed stays busy until the next boot; a record (intent,
  outcome, hand-off, attempt) that the boot cannot read leaves the scheduler unstarted
  (`broken` covers reads and writes of these records since the restart);
* a replacement that cannot be inspected is stored without a target, and an operator's
  renewal after an automatic one whose activation is pending leaves the intent pointing
  at the older target (`untargeted`);
* when the embedded credential does not start at boot, `web_console_start` gives up and
  `app_main` only logs it: no console, no scheduler and no recovery of the records
  until a reboot (`boot = "down"`, part of `Lost`);
* two failed server starts in a transition, and the embedded one failing after them,
  leave no console until a reboot either (`Lost`); "last known good restored" is also
  recorded when it is the embedded credential that came up.

`BusyHandoffHasTask` therefore excepts a boot that has not come to the record yet, one
that ended without a server, and a failed access to a record; `ReplacementServed` excepts
`Stuck`, the union of `broken`, `Misread` and `untargeted`; `ConsoleReturns` excepts `Lost`.
A failed inspection, start or read counts as one of `MaxFaults`.

Assumed (`Renewable`): a credential obtained is not due again for two months. A
request during the identification step of the boot is left out.

### DeviceConfig and PeerMonitor

`persist_config` writes `Entries` one by one (`pos`), each durable by itself;
`load_config` makes a configuration of whatever it finds, with the migration of
schemas 1 and 2 and of the unversioned layout. `PeerMonitor` is `monitor_task`: `Sync`
against the configuration, `Wait`, a poll with one answer, refusal or timeout per
peer in any order, and the comparison at its end; the configuration may change
between any two of its steps. Two kinds of initial states keep the instance
checkable: the monitor runs and a request is one step (`Reconfigure`: the monitor
reads under the mutex the request holds), or it could not be started and requests
are written entry by entry. What the model shows and the properties except:

* power lost in the middle of `persist_config` leaves entries of two requests, so the
  next boot may join the zone of one with the token of another (`cut`), and a
  migration cut short after the schema was written falls back to the default host
  name;
* a persist that fails leaves NVS ahead of RAM until the next one; when it is the erasure of
  a Cloudflare entry that fails, the entries after it may be erased all the same
  (`StillErased`);
* one malformed packet ends a poll, and a kiss-of-death is accepted before its
  origin is compared.

## 3. The runs

| Run | Bounds (the code's value) | States | What it shows |
|---|---|---|---|
| `clock` | 4 ticks per second, any of 4 seconds, 13 ticks; 3 samples lock (8), 3 rejects end (3), holdover 1 s (300 s), error limit a quarter second; a reply takes at most 3 ticks; words of 4 values (2^16) | 378 k | the clock under samples in any order, and replies composed while it changes; long enough to lock, lose the lock by rejects and by holdover, and answer in between; every checksum with every pair of times |
| `clock_rejected_sample` | 2 ticks per second, 6 seconds, 11 ticks | | **violated**: a rejected sample moves the served time |
| `clock_monitor` | 4 ticks per second, queue of 2 (16), waits and ages in ticks next to their ratio in the code; start delayed up to 25 ticks | | a start late enough to meet a full queue of old captures; then lock, loss and holdover; `ClockMonitor` implements `ClockDiscipline` |
| `clock_recovery` | faults until tick 26, then regular to tick 66 | | every faulty past, and then the time to recover |
| `clock_correlation` | as `clock_monitor`, prompt start | | **violated**: a lost record shifts the pairing by a second and the clock locks on it |
| `ntp_server` | 5 frames of 4 clients that share addresses and ports; ring of 2 (16), mailbox of 4, so the ring overflows first | | order, loss and overflow in all combinations |
| `ntp_receive_timestamp` | one client | | **violated**: a dropped frame's timestamp answers the next request |
| `rate_limit` | 3 symmetric addresses, table of 2 (32), burst 2 (8), a token every 2 ticks, 8 ticks | 440 k | eviction, re-admission, cap and the dropped fraction |
| `nts_keyring` | 2 tasks, 2 cookies, restarts; period 3, lifetime 3 (30 days, 1 day), identifiers of 4 values (2^32), 9 ticks | 781 k | three rotations, the wrap of the identifier, rotations skipped for two periods |
| `cert_slots` | 4 credentials | 697 k | the credential of the legacy entries and three stores, two of them at once, with failures and power losses anywhere |
| `cert_renewal` | 3 credentials, 2 faults, 1 operator request | 245 k | a renewal, a second one due, and two failures (of a start, an inspection, a record, a remote call), restarts or losses of time among them |
| `peer_monitor` | 2 peers, 2 servers, window of 3 (16), 3 failures (3), 2 faults, 2 requests with writes, 1 change followed | 226 k | windows that wrap, failures that add up, changes at every step of a poll, and power lost at every write |

The small values keep the order between the constants that the code has:
cookie lifetime ≤ key period; age of a capture refused > wait for a record; ring
smaller than what the stack may hold for the server; more failures than one poll
has. Larger instances pass as well, outside the set of runs: two operator requests
in `cert_renewal` (1.6 M states), five credentials in `cert_slots` (2.9 M states),
two changes in `peer_monitor` with two failures (1.1 M states), a bracket of one
tick in `clock`, words of three values there.

The proofs found two things those bounds had hidden, both visible to TLC once the
bounds were widened: the restore of `tls_transition_task` frees the credential it
fails to start with (`Freed` in `TlsConsole`; without it `LastKnownGood` fails with two
operator requests and three faults), and the only whole slot may be the one a store has
just written (`TargetIsSpare`, above; it takes five credentials).

Deadlock is checked everywhere but in `cert_renewal` and `peer_monitor`, where the
system may really stop: a device whose scheduler, or whose monitor, could not be
started only waits for requests, and those are bounded. The stuttering actions `Horizon`
(`ClockMonitor`) and `Done` (`NtpServer`) name the ends that are bounds of the model.

The type invariants of `ClockDiscipline`, `ClockMonitor` and `NtpServer` are proved
(section 4) and are not among the runs.

### Findings

Three runs state what a text of the repository says and find it violated by the
code; `PROJECT.json` quotes the text.

1. **A rejected sample updates the clock** (`clock_discipline.c:598`). README: "only
   accepted timing samples update the disciplined clock."
2. **The edge is not correlated to its second** (`clock_discipline.c:232`). With one
   TIM-TP record lost in acquisition, pulse *k* takes the record of *k+1*, and so on;
   all later phase errors are zero, so the clock locks a second off.
   `PairingErrorBounded` shows how far off a pairing can be, and `CorrelationProof`
   that without a loss it is right.
3. **A receive timestamp of another frame** (`eth_service.c:1302`). A frame the stack
   drops after the hook recorded it leaves an entry that the client's next request
   from the same port takes. `UndisturbedClientGetsOwnTimestamp` shows that this
   needs a loss of that client's own.

### Liveness and fairness

For the clock, what must happen in time is stated with a bound:
`ServiceEndsAfterHoldover` and `RecoversInTime` are invariants over the tick counter,
and `Tick` is enabled only while the task is blocked. That is the scheduling the
code has: the monitor's waits are bounded and it is the task of the highest
priority among those modelled.

`CertRenewal` and `PeerMonitor` have liveness properties under weak fairness of the
tasks that FreeRTOS runs when they are ready, and of nothing else:

* `CertRenewal` (`ConsoleReturns`, `ReplacementServed`): the boot path, the transition
  task, the scheduler and a manual renewal under way go on, since each of their waits
  has a timeout in the code; time passes (`Tick`); and UTC is found again
  (`TimeFound`), for without it no renewal is ever due. Nothing is assumed of the
  operator, of the outcome of any step, or of the environment's faults beyond their
  number.
* `PeerMonitor` (`ConfigFollowed`): the configuration's writes and the monitor task go
  on, a poll's timeout fires, and the wait between polls ends. Nothing is assumed of
  servers answering. Requests have the higher priority and are few, so they delay the
  monitor and do not starve it of the mutex.

### Refinements

* `ClockMonitor` implements `ClockDiscipline!Spec` (`ImplementsClock`): the real
  schedule feeds the clock nothing that the abstract one does not allow. Checked by
  `clock_monitor` and proved (`ClockRefinement`).
* `CertSlots` implements `Credential!Spec` (`ImplementsCredential`), with `current`
  mapped to `Effective` and `phase` to the stores in progress. Checked by `cert_slots`
  and proved (`SlotsImplementCredential`).

## 4. The proofs

Each from the module's own assumptions on its constants (positive sizes and the
like) unless the table says more.

| Module | Theorem | States |
|---|---|---|
| `ClockDisciplineProofs` | `TypeCorrect` | `Spec => []TypeOK` |
| | `ReferenceOrder` | `Spec => []ReferenceNotAfterTransmit` |
| | `RejectsBound` | `Spec => []RejectsEndSolution` |
| | `AgreementProof` | `Spec => ReferenceMovesByAgreement` |
| | `LockProof` | `Spec => ServiceStartsLocked` |
| `ClockUsersProofs` | `ClockRefinement` | `MonitorSpec => ImplementsClock` |
| | `MonitorTypes` | `MonitorSpec => []MonitorTypeOK` |
| | `PairingProof` | `MonitorSpec => []PairingErrorBounded`, if `TimTpMaxAge <= 2 * Second` |
| | `HoldoverProof` | `MonitorSpec => []ServiceEndsAfterHoldover`, if `PpsTimeout <= HoldoverEnd + CaptureWait` |
| | `MonitoredReferenceOrder` | `MonitorSpec => []ReferenceNotAfterTransmit` |
| | `LockSamplesProof` | `MonitorSpec => LockSamplesConsecutive` |
| | `CorrelationProof` | `MonitorSpec => []EdgeCorrelatedToItsSecond`, if `Undisturbed`: nothing is lost, the task starts before the second pulse, and both age limits are a second or more |
| | `ClockBesideReplies` | `ReplySpec =>` the four properties of the clock |
| | `ReplyReferenceOrder` | `ReplySpec => []ReferenceInOrder` |
| | `TurnaroundBound` | `ReplySpec => []TurnaroundKept` |
| | `ChecksumProof` | `ReplySpec => []ChecksumKept`, for any `Radix` of two or more |
| `NtpServerProofs` | `TypeCorrect` | `Spec => []TypeOK` |
| | `OwnTimestampProof` | `Spec => []UndisturbedClientGetsOwnTimestamp` |
| | `TakenOnceProof` | `Spec => []TimestampTakenOnce` |
| `NtpRateLimitProofs` | `TypeCorrect` | `Spec => []TypeOK` |
| | `RateProof` | `Spec => []WithinRate` |
| | `PatienceProof` | `Spec => []PatientClientAllowed` |
| | `SlotProof` | `Spec => RecentClientKeepsSlot` |
| `NtsKeyringProofs` | `KeyringTypeCorrect` | `Spec => []TypeOK` |
| | `KeyringStaysValid` | `Spec => []StoredRingValid` |
| | `KeyringStaysCurrent` | `Spec => []ActiveKeyCurrent` |
| | `CookiesStayOpen` | `Spec => []CookiesOpen` |
| | `RingNeverBack` | `Spec => [][RingForward]_vars`: no save takes the ring back, as long as no rotation came a period late |
| `CertSlotsProofs` | `Typed` | `Spec => []TypeOK` |
| | `StoresIntoTheSpareSlot` | `Spec => []TargetIsSpare` |
| | `LoadsOneCredential` | `Spec => []LoadedWhole` |
| | `SlotsImplementCredential` | `Spec => ImplementsCredential` |
| `CertRenewalProofs` | `Typed` | `Spec => []TypeOK` |
| | `OneOrderPerCooldown` | `Spec => []OrdersSpaced` |
| | `NoTxtLeft` | `Spec => []TxtRemoved` |
| | `FallsBackToLastKnownGood` | `Spec => []LastKnownGood` |
| | `HandoffsFinish` | `Spec => []BusyHandoffHasTask`: a busy hand-off has a task or a boot path, but after a failed access to a record or a boot without a server |
| | `OperatorDecides` | `Spec => OperatorKept` |
| `PeerMonitorProofs` | `AcknowledgedProof` | `Spec => []AcknowledgedSurvives` |
| | `CredentialsProof` | `Spec => []CredentialsTogether` |
| | `SamplesProof` | `Spec => []SamplesOfServer` |
| | `WindowProof` | `Spec => []WindowInOrder` |
| | `HealthProof` | `Spec => []HealthFollowsFailures` |

**ClockDisciplineProofs.** None of the three invariants is inductive. That the reference
is not after the transmit time follows from the anchor not lying ahead of `now` and
from the reference's second being no later than the anchor's, and both are only
maintained while there is a solution; that a serving state has a solution needs
the rejection count below its limit. `IInv` is their conjunction; each outcome of
`submit_sample` and each policy is a lemma that it keeps `IInv`. The action
properties follow from `IInv` and the one fact of arithmetic that moving the
anchor to a sample moves the served time by the sample's phase error
(`StepIsPhaseError`).

**ClockUsersProofs, the monitor.** Every step of the monitor maps to a step of the clock or to a
stutter; what that needs is that the sample it submits is one the clock's
`SubmitSample` admits (a capture not ahead of `now`, a second in `UtcSeconds`), which
the types give. The clock's theorems then hold of the composed system for every
value of the constants (`MonitoredReferenceOrder` is one of them). `MonitorIInv` adds
that captures are times of edges (`PpsInv`), that a record tells the second of the
edge that followed its arrival (`TimTpInv`), and that a wait for a record ends within
the age at which its capture is refused (`WaitInv`). The side condition of `HoldoverProof` holds for a holdover of two
seconds or more; for the minimum of one second that Kconfig admits there is only the
check of TLC. `LockSamplesConsecutive` needs the order of things (`OrderInv`): captures
leave the queue in the order of their edges, the record in the mailbox is no older than
the anchor's second, and from the second accepted sample on that second's record is
used up. A sample behind the anchor therefore finds one accepted sample at most.
`CorrelationProof` is the other side of the second finding: what the header says of a
sample holds as long as nothing is lost and the task starts before the second pulse
(`Undisturbed`). Then the record is in the mailbox when the edge comes (`FeedInv`), the
task takes the edge at once (`PromptInv`), and `wait_for_gnss_sample` never has to
wait; all that a wait can end with is the record of the next second.

**ClockUsersProofs, the server task.** It changes nothing of the clock, so the clock's `IInv` and
theorems carry over. What a reply holds is tied to the clock by the arrival of its frame
in the time served now (`Arrival`): a sample shifts it by its phase error, once, and
`Slack` is what that may have been. `ReceiveInv` says how far the reads made so far may be
off it at each step of the mapping, `ReferenceInv` that the clock's reference only moves
on, `ComposedInv` what remains once the reply is composed. The first two hold only
while the clock is `Kept`: a solution may be lost and found again within a request, on
another time scale, but by a single sample, and a clock that does not serve needs two
or more to serve again. Since the rejection of a sample is excepted by `moved` alone, the
theorem shows that nothing else breaks the turnaround. `ChecksumProof` is arithmetic: a
fold keeps a sum up to a multiple of `Radix - 1` and is zero only for zero (`FoldSum`), so a
checksum verifies exactly when the sum of all words is a positive multiple
(`VerifiesIsBalanced`); replacing a word keeps that, and the two ones' complements of
zero are told apart by `NonZero`.

**NtpServerProofs.** That a client gets its own timestamp follows from `InStep`: of a
client none of whose frames was lost, the ring and the socket hold the same frames;
the socket holds them in order of arrival, behind the request in hand (`InOrder`);
and no frame is twice in the ring (`Unique`).

**NtpRateLimitProofs.** `WithinRate` compares two requests of the past. `Account` carries it
from one request to the next: the tokens in a bucket and those spent since any
earlier request, times the period, were paid for by the burst and by the time up to
the last refill, whose remainder is dropped. A refill keeps the account
(`RefillOf`), a spent token moves within it, and a bound on products is one on
quotients (`Quotient`). `Stamped` ties a bucket's times to the requests of its
client, which gives `PatientClientAllowed` and `RecentClientKeepsSlot`.

**NtsKeyringProofs.** The intervals of a ring's slots follow one another, each a period long,
in NVS and in every copy (`Chain`); that is what `validate_cookie_keyring` asks, three
successive identifiers being different as soon as there are three. `Timely` places the
tick at which a task read the clock: it is not before the ACTIVE interval of its copy, and
by the time the task uses the ring, the ring was not due at that tick, whoever saved it.
`CookiesOpen` needs to know what a second save does to the first (`Crossing`): nothing was
saved since the task loaded, and its copy has the stored ACTIVE and NEXT as PREVIOUS and
ACTIVE; or its rotation is in NVS already, but for the random NEXT. Of two tasks in these
two positions the ring would be due for the one and not for the other, so there are never
both. `Covered` adds that every unexpired cookie was sealed under a key that is now ACTIVE
or PREVIOUS, and expires within a lifetime of the end of its interval: by the time a
rotation drops the key, a period later, the cookie has expired. `overdue` is the one
exception: after a period without a maintenance a fresh NEXT becomes ACTIVE in the same
call, and two tasks may have drawn different ones.

**CertSlotsProofs.** The heart is what two stores know of each other. A resolution never
hands out a slot that another store has begun to rewrite, so of two stores into
different slots one has made its slot whole (`PairInv`); a store rewrites the slot in use
only after it met another one (`WriteInv`, `MetInv`); what it stores is new, so that only
its own target holds any of it (`CertInv`). A migration has no store beside it
(`MigrateInv`), which is where the assumption `slow` enters. The preservation proof
goes by four classes of steps: those that leave the slots alone and start no store,
the start of a store, the steps of a store (early, late, commit, resolution), and the
migration. For the refinement each step is shown to leave `Effective` and `Phase` as they
are, or to be `Install`, `Withdraw` or a change of phase: a write into the spare slot is
invisible, and the commit, or the write that completes the slot in use, is the one step.

**CertRenewalProofs.** `IInv` says what the tasks know at the places in between. From the
moment the attempt is consumed there was no order since the cooldown ended, and the
cooldown is armed, then persisted, before the order (`OrdersInv`); a TXT record exists only
between its creation and its deletion (`TxtInv`); the server runs with the credential in
memory, and a transition that has stopped it holds the credential it ran with
(`ServerInv`, `TransitionInv`); a hand-off on record is finished before its transition is
released (`BusyInv`). `OperatorKept` is an action property: only the claim makes a
transition automatic, and from the preflight on production TLS runs or the operator
has overtaken.

**PeerMonitorProofs.** `ConfigInv` says what NVS holds while `persist_config` is at entry
`pos`: the entries before it are the candidate's, and the candidate is a configuration
that the next boot takes as it is (`Complete`); credentials of two requests mix only in
NVS and reach RAM only through a boot (`TogetherInv`). `MonitorInv` ties a slot's
samples, its displayed name and the snapshot of the running poll to one server.

Left to TLC: `RecoversInTime`, and the liveness properties (`ConsoleReturns`,
`ReplacementServed`, `ConfigFollowed`), which need fairness and ENABLED.
`RecoversInTime` cannot be a theorem for every value of the constants, because it does
not hold for every value: a clock that is given up at the first rejection
(`MaxConsecutiveRejects` of 1; the code has 3), a receiver that sends its record only
when the wait ends (`TimTpLatest` not below `TimTpWait`), or captures usable for four
seconds and a full queue of them at the start (`PpsTimeout`; 2.5 s in the code) take
longer, as TLC shows with these values. For the ratios of the code it holds, at 4 ticks
a second in the run and at 8 ticks when tried with `TimTpLatest` from 3 to 5. Which
ratios suffice in general depends on how a backlog drains against the records that
arrive meanwhile, and is not known.

## 5. What is not modelled

* Floating point: frequency filter, dispersion, quality. They are data of a
  reply; the phase check is made at the nominal rate.
* Time beyond 2036, when NTP seconds wrap and the 64-bit key times do not.
* Parsing and formatting of UBX, NTP, NTS, HTTP and JSON; cryptography; the
  encodings of ACME (JWS, CSR, DER).
* The rate of the PTP correlation task (a divisor close to one), kiss-of-death packets, and the
  parsing of frames in the transmit path.
* The receiver's configuration exchange at boot and the ZDA fallback: for the clock, a
  receiver that is not configured sends nothing, which `BootDelay` and the lost
  messages of `ClockMonitor` cover.
* The staging credential, which is rewritten in place and serves tests only, and the
  account entries of `acme_storage.c`.
* Link and IP state, application state, diagnostics: published for display in
  separate steps; nothing but the wait at start-up acts on them.
* Statistics, last outcomes and counters that are only displayed.

## 6. Plan

Models: `GnssReceiver` (UBX framing with resynchronisation, configuration exchange, ZDA
fallback and staleness, with the mailbox of `ClockMonitor` as its abstract specification)
and `Startup` (the order of `app_main`, NTS-KE's one chance, link events).
