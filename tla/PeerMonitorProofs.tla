--------------------------- MODULE PeerMonitorProofs ---------------------------
(***************************************************************************)
(* Proofs about PeerMonitor and the DeviceConfig it extends, for every     *)
(* number of peers, every set of names, every window and failure limit,    *)
(* and any number of requests, faults and restarts.                        *)
(*                                                                         *)
(* ConfigInv says what lies in NVS while a request writes it: the entries  *)
(* behind the write position are those of the candidate, which is a        *)
(* configuration that the next boot loads as it is.  MonitorInv ties a     *)
(* slot's samples, its displayed name and the snapshot of a poll together: *)
(* none of the monitor's properties is inductive without the others.       *)
(***************************************************************************)
EXTENDS PeerMonitor, SequenceTheorems, TLAPS

\* The keys of Entries that are not those of a peer.
Named ==
    {"schema", "generation", "hostname", "zone_name", "zone_id", "api_token", "enabled"}

NamedEntries ==
    <<"schema", "generation", "hostname", "zone_name", "zone_id", "api_token", "enabled">>

Names == Named \cup {"peer0", "peer1", "peer2", "peer3"}

PeerNames == <<"peer0", "peer1", "peer2", "peer3">>

\* The keys that persist_config writes.
LEMMA EntryKeys == /\ Last \in Nat /\ Named \subseteq Keys /\ Peers \subseteq Keys
                   /\ Peers \cap Named = {}
<1>1. PeerCount \in 1 .. 4 /\ PeerCount \in Nat
  BY ConfigAssumption
<1>2. PeerNames \in Seq(Names) /\ Len(PeerNames) = 4
  <2>1. Len(PeerNames) = 4 /\ PeerNames = [i \in 1 .. 4 |-> PeerNames[i]]
    BY DEF PeerNames
  <2>2. \A i \in 1 .. 4 : PeerNames[i] \in Names
    BY DEF PeerNames, Names
  <2> QED
    BY <2>1, <2>2, SeqDef
<1>3. NamedEntries \in Seq(Names) /\ Len(NamedEntries) = 7
  <2>1. Len(NamedEntries) = 7 /\ NamedEntries = [i \in 1 .. 7 |-> NamedEntries[i]]
    BY DEF NamedEntries
  <2>2. \A i \in 1 .. 7 : NamedEntries[i] \in Names
    BY DEF NamedEntries, Names, Named
  <2> QED
    BY <2>1, <2>2, SeqDef
<1>4. /\ PeerKeys \in Seq(Names) /\ Len(PeerKeys) = PeerCount
      /\ \A i \in 1 .. PeerCount : PeerKeys[i] = PeerNames[i]
  BY <1>1, <1>2, SubSeqProperties DEF PeerKeys, PeerNames
<1>5. Entries = NamedEntries \o PeerKeys
  BY DEF Entries, NamedEntries
<1>6. /\ Len(Entries) = 7 + PeerCount
      /\ \A i \in 1 .. 7 : Entries[i] = NamedEntries[i]
      /\ \A i \in 1 .. PeerCount : Entries[7 + i] = PeerKeys[i]
  <2>1. /\ Len(Entries) = 7 + PeerCount
        /\ \A i \in 1 .. 7 + PeerCount :
               Entries[i] = IF i <= 7 THEN NamedEntries[i] ELSE PeerKeys[i - 7]
    <3>1. /\ Len(Entries) = Len(NamedEntries) + Len(PeerKeys)
          /\ \A i \in 1 .. Len(NamedEntries) + Len(PeerKeys) :
                 Entries[i] = IF i <= Len(NamedEntries) THEN NamedEntries[i]
                              ELSE PeerKeys[i - Len(NamedEntries)]
      BY <1>3, <1>4, <1>5, ConcatProperties
    <3> QED
      BY <1>1, <1>3, <1>4, <3>1
  <2>2. ASSUME NEW i \in 1 .. PeerCount PROVE Entries[7 + i] = PeerKeys[i]
    BY <1>1, <2>1
  <2> QED
    BY <1>1, <2>1, <2>2
<1>7. Named \subseteq Keys
  <2>1. \A i \in 1 .. 7 : NamedEntries[i] \in Keys
    BY <1>1, <1>6 DEF Keys, Last
  <2> QED
    BY <2>1 DEF Named, NamedEntries
<1>8. Peers \subseteq Keys
  BY <1>1, <1>6 DEF Peers, Keys, Last
<1>9. Peers \subseteq {"peer0", "peer1", "peer2", "peer3"}
  <2>1. \A i \in 1 .. 4 : PeerNames[i] \in {"peer0", "peer1", "peer2", "peer3"}
    BY DEF PeerNames
  <2> QED
    BY <1>1, <1>4, <2>1 DEF Peers
<1> QED
  BY <1>1, <1>6, <1>7, <1>8, <1>9 DEF Last, Named

-------------------------------------------------------------------------------

\* Contents of NVS and configurations.
Values == [Keys -> Nat]

\* A configuration that load_config takes as it is.
Complete(n) ==
    /\ n["schema"] = 3 /\ n["generation"] # 0 /\ n["hostname"] # 0
    /\ CloudflareOf(n) \/ \A k \in Cloudflare : n[k] = 0

\* The credential is of one request, or absent.
Together(n) == \A j, k \in Cloudflare : n[j] = n[k]

ConfigType ==
    /\ nvs \in Values /\ config \in Values /\ candidate \in Values
    /\ pos \in 0 .. Last + 1 /\ sets \in Nat /\ torn \in BOOLEAN /\ cut \in BOOLEAN

\* The progress of persist_config.
Writing ==
    pos # 0 => /\ Complete(candidate)
               /\ \A i \in 1 .. pos - 1 : nvs[Entries[i]] = candidate[Entries[i]]

\* Credentials mix only in NVS, and reach RAM only through a boot.
TogetherInv ==
    /\ state = "boot" /\ torn => cut
    /\ ~cut => /\ Together(config)
               /\ pos # 0 => Together(candidate)
               /\ ~torn /\ pos = 0 => Together(nvs)

ConfigInv ==
    /\ ConfigType /\ Writing /\ TogetherInv
    /\ state = "up" => Complete(config)
    /\ AcknowledgedSurvives

Runtimes == [server : Nat, valid : BOOLEAN, count : 0 .. Window, next : 0 .. Window,
             window : [0 .. Window - 1 -> Nat]]

Healths == {"DISABLED", "UNKNOWN", "HEALTHY", "DEGRADED", "UNREACHABLE", "INVALID",
            "DIVERGENT"}

Statuses == [server : Nat, health : Healths, failures : 0 .. Failures,
             offset : {"near", "far"}]

Tasks == [pc : {"off", "start", "sync", "begin", "select", "refresh", "wait"},
          snapshot : [{"enabled"} \cup Peers -> Nat], next : Nat]

\* The ring of samples is full and begins at 0, or fills up from 0.
RingInv(r) ==
    /\ r.next = IF r.count = Window THEN 0 ELSE r.count
    /\ \A i \in 0 .. r.count - 1 : r.window[i] = r.count - 1 - i

\* What is displayed, sampled and polled is of one server.
SlotInv(p) ==
    /\ RingInv(runtime[p])
    /\ status[p].server = runtime[p].server
    /\ task.pc \in {"begin", "select"} => task.snapshot[p] = runtime[p].server
    /\ runtime[p].count > 0 => origin[p] = runtime[p].server

\* HealthFollowsFailures of one peer
HealthInv(r, s) ==
    /\ s.failures = Failures => s.health \in {"UNREACHABLE", "INVALID"}
    /\ s.health = "HEALTHY" => s.failures = 0 /\ r.count > 0

MonitorType ==
    /\ task \in Tasks /\ (task.pc = "begin" => task.next \in 1 .. PeerCount)
    /\ runtime \in [Peers -> Runtimes] /\ status \in [Peers -> Statuses]
    /\ origin \in [Peers -> Nat] /\ active \subseteq Peers

MonitorInv ==
    /\ MonitorType
    /\ \A p \in Peers : SlotInv(p) /\ HealthInv(runtime[p], status[p])

IInv == ConfigInv /\ MonitorInv

\* make_default_config
LEMMA DefaultComplete ==
    Default \in Values /\ Complete(Default) /\ Together(Default)
BY EntryKeys DEF Default, Nothing, Values, Named, Complete, Together, Cloudflare

\* Whatever load_config finds, it makes a complete configuration of it.
LEMMA LoadedComplete ==
    ASSUME NEW n \in Values
    PROVE  /\ Loaded(n) \in Values /\ Complete(Loaded(n))
           /\ Together(n) => Together(Loaded(n))
<1>2. CASE ~Usable(n)
  BY <1>2, DefaultComplete DEF Loaded
<1>3. CASE Usable(n)
  <2> DEFINE l == Loaded(n)
  <2>1. l \in Values
    BY <1>3 DEF Loaded, Values
  <2>2. l["schema"] = 3 /\ l["generation"] # 0 /\ l["hostname"] # 0
    BY <1>3, EntryKeys DEF Loaded, Usable, Named, Cloudflare
  <2>3. \A k \in Cloudflare : l[k] = IF n["schema"] >= 2 /\ CloudflareOf(n) THEN n[k] ELSE 0
    BY <1>3, EntryKeys DEF Loaded, Named, Cloudflare
  <2> QED
    BY <2>1, <2>2, <2>3 DEF Complete, Together, CloudflareOf
<1> QED
  BY <1>2, <1>3

\* A complete configuration is loaded unchanged, and not written back.
LEMMA CompleteLoads ==
    ASSUME NEW n \in Values, Complete(n)
    PROVE  Loaded(n) = n /\ ~Rewritten(n)
<1>1. Usable(n) /\ n["schema"] = 3
  BY DEF Complete, Usable
<1>2. \A k \in Keys : Loaded(n)[k] = n[k]
  BY <1>1 DEF Loaded, Complete, Values
<1>3. Loaded(n) \in Values
  BY LoadedComplete
<1> QED
  BY <1>1, <1>2, <1>3 DEF Rewritten, Values

-------------------------------------------------------------------------------

\* One lemma for each step that concerns the configuration.
LEMMA BootInv == ASSUME ConfigInv, Boot PROVE ConfigInv'
<1>1. /\ Loaded(nvs) \in Values /\ Complete(Loaded(nvs))
      /\ Together(nvs) => Together(Loaded(nvs))
  BY LoadedComplete DEF ConfigInv, ConfigType
<1>2. CASE Rewritten(nvs)
  <2>1. /\ candidate' = Loaded(nvs) /\ pos' = 1 /\ pos = 0 /\ state = "boot"
        /\ UNCHANGED <<nvs, config, state, sets, torn, cut>>
    BY <1>2 DEF Boot
  <2>2. ConfigType' /\ Writing' /\ AcknowledgedSurvives'
    BY <1>1, <2>1, EntryKeys
       DEF ConfigInv, ConfigType, Writing, AcknowledgedSurvives, Unlocked
  <2>3. TogetherInv'
    BY <1>1, <2>1 DEF ConfigInv, ConfigType, TogetherInv
  <2> QED
    BY <2>1, <2>2, <2>3 DEF ConfigInv
<1>3. CASE ~Rewritten(nvs)
  <2>1. /\ config' = Loaded(nvs) /\ state' = "up" /\ pos = 0 /\ state = "boot"
        /\ UNCHANGED <<nvs, candidate, pos, sets, torn, cut>>
    BY <1>3 DEF Boot
  <2>2. ConfigType' /\ Writing'
    BY <1>1, <2>1 DEF ConfigInv, ConfigType, Writing
  <2>3. TogetherInv'
    BY <1>1, <2>1 DEF ConfigInv, ConfigType, TogetherInv
  <2>4. Complete(config') /\ AcknowledgedSurvives'
    BY <1>1, <1>3, <2>1 DEF AcknowledgedSurvives
  <2> QED
    BY <2>2, <2>3, <2>4 DEF ConfigInv
<1> QED
  BY <1>2, <1>3

LEMMA PersistStepInv == ASSUME ConfigInv, PersistStep PROVE ConfigInv'
<1>1. /\ pos \in 1 .. Last /\ pos' = pos + 1 /\ Last \in Nat
      /\ UNCHANGED <<config, candidate, state, sets, torn, cut>>
      /\ nvs' = [nvs EXCEPT ![Entries[pos]] = candidate[Entries[pos]]]
  BY EntryKeys DEF PersistStep, Written
<1>2. Entries[pos] \in Keys
  BY <1>1 DEF Keys
<1>3. nvs' \in Values
  BY <1>1, <1>2 DEF ConfigInv, ConfigType, Values
<1>4. ASSUME NEW i \in 1 .. pos PROVE nvs'[Entries[i]] = candidate[Entries[i]]
  <2>1. i \in 1 .. Last /\ Entries[i] \in Keys
    BY <1>1 DEF Keys
  <2>2. CASE Entries[i] = Entries[pos]
    BY <1>1, <1>2, <2>2 DEF ConfigInv, ConfigType, Values
  <2>3. CASE Entries[i] # Entries[pos]
    <3>1. i \in 1 .. pos - 1
      BY <1>1, <2>3
    <3> QED
      BY <1>1, <2>1, <2>3, <3>1 DEF ConfigInv, ConfigType, Writing, Values
  <2> QED
    BY <2>2, <2>3
<1>5. ConfigType' /\ Writing'
  BY <1>1, <1>3, <1>4 DEF ConfigInv, ConfigType, Writing
<1>6. TogetherInv' /\ AcknowledgedSurvives'
  BY <1>1 DEF ConfigInv, ConfigType, TogetherInv, AcknowledgedSurvives, Unlocked
<1> QED
  BY <1>1, <1>5, <1>6 DEF ConfigInv

LEMMA PersistDoneInv == ASSUME ConfigInv, PersistDone PROVE ConfigInv'
<1>1. /\ pos = Last + 1 /\ config' = candidate /\ nvs' = nvs /\ pos' = 0 /\ state' = "up"
      /\ candidate' = Nothing /\ Last \in Nat /\ sets' = sets /\ cut' = cut /\ torn' = FALSE
  BY EntryKeys DEF PersistDone
<1>2. nvs = candidate
  <2>1. \A k \in Keys : nvs[k] = candidate[k]
    BY <1>1 DEF ConfigInv, Writing, Keys
  <2> QED
    BY <2>1 DEF ConfigInv, ConfigType, Values
<1>3. Complete(candidate) /\ Loaded(candidate) = candidate /\ ~Rewritten(candidate)
  BY <1>1, CompleteLoads DEF ConfigInv, ConfigType, Writing
<1>4. Nothing \in Values
  BY DEF Nothing, Values
<1>5. ConfigType' /\ Writing'
  <2>1. 0 \in 0 .. Last + 1
    BY <1>1
  <2> QED
    BY <1>1, <1>4, <2>1 DEF ConfigInv, ConfigType, Writing
<1>7. AcknowledgedSurvives' /\ Complete(config')
  BY <1>1, <1>2, <1>3 DEF AcknowledgedSurvives
<1>6. TogetherInv'
  BY <1>1, <1>2 DEF ConfigInv, ConfigType, TogetherInv
<1> QED
  BY <1>5, <1>6, <1>7 DEF ConfigInv

LEMMA PersistFailsInv == ASSUME ConfigInv, PersistFails PROVE ConfigInv'
<1>1. /\ config' = config /\ state' = IF state = "boot" THEN "failed" ELSE state
      /\ pos' = 0 /\ candidate' = Nothing /\ torn' = TRUE
      /\ UNCHANGED <<sets, cut>>
  BY DEF PersistFails, AfterFailure
<1>2. Nothing \in Values
  BY DEF Nothing, Values
<1>3. nvs' \in Values
  <2>1. PICK erased \in SUBSET StillErased :
          nvs' = [k \in Keys |-> IF k \in erased THEN 0 ELSE nvs[k]]
    BY DEF PersistFails
  <2>2. nvs \in Values
    BY DEF ConfigInv, ConfigType
  <2> QED
    BY <2>1, <2>2 DEF Values
<1>4. ConfigType' /\ Writing' /\ AcknowledgedSurvives'
  BY <1>1, <1>2, <1>3, EntryKeys
     DEF ConfigInv, ConfigType, Writing, AcknowledgedSurvives
<1>5. TogetherInv'
  BY <1>1 DEF ConfigInv, ConfigType, TogetherInv
<1> QED
  BY <1>1, <1>4, <1>5 DEF ConfigInv

LEMMA PowerLossInv == ASSUME ConfigInv, PowerLoss PROVE ConfigInv'
<1>1. /\ state' = "boot" /\ pos' = 0 /\ config' = Nothing /\ candidate' = Nothing
      /\ torn' = (torn \/ pos # 0) /\ cut' = (cut \/ torn \/ pos # 0)
      /\ UNCHANGED <<nvs, sets>>
  BY DEF PowerLoss
<1>2. Nothing \in Values /\ Together(Nothing)
  BY EntryKeys DEF Nothing, Values, Together, Named, Cloudflare
<1>3. ConfigType' /\ Writing' /\ AcknowledgedSurvives'
  BY <1>1, <1>2, EntryKeys
     DEF ConfigInv, ConfigType, Writing, AcknowledgedSurvives, Unlocked
<1>4. TogetherInv'
  BY <1>1, <1>2 DEF ConfigInv, ConfigType, TogetherInv
<1> QED
  BY <1>1, <1>3, <1>4 DEF ConfigInv

\* New values that leave the schema and the generation alone, name the host,
\* and set or clear the credential as a whole, make a complete configuration.
LEMMA WithComplete ==
    ASSUME ConfigInv, state = "up", NEW D, NEW values \in [D -> Nat],
           {"schema", "generation"} \cap D = {},
           "hostname" \in D => values["hostname"] # 0,
           \/ Cloudflare \cap D = {}
           \/ Cloudflare \subseteq D /\ \E c \in Nat : \A k \in Cloudflare : values[k] = c
    PROVE  /\ With(values) \in Values /\ Complete(With(values))
           /\ Together(config) => Together(With(values))
<1> DEFINE w == With(values)
<1>1. w \in Values
  BY DEF With, ConfigInv, ConfigType, Values
<1>2. w["schema"] = 3 /\ w["generation"] # 0 /\ w["hostname"] # 0
  BY EntryKeys DEF With, ConfigInv, Complete, Named
<1>3. Cloudflare \subseteq Keys
  BY EntryKeys DEF Cloudflare, Named
<1>4. CASE Cloudflare \cap D = {}
  <2>1. \A k \in Cloudflare : w[k] = config[k]
    BY <1>3, <1>4 DEF With
  <2> QED
    BY <1>1, <1>2, <2>1 DEF ConfigInv, Complete, CloudflareOf, Together
<1>5. CASE Cloudflare \subseteq D /\ \E c \in Nat : \A k \in Cloudflare : values[k] = c
  <2>1. \A k \in Cloudflare : w[k] = values[k]
    BY <1>3, <1>5 DEF With
  <2> QED
    BY <1>1, <1>2, <1>5, <2>1 DEF Complete, CloudflareOf, Together
<1> QED
  BY <1>4, <1>5

LEMMA SetInv ==
    ASSUME ConfigInv, NEW values, Set(values),
           /\ With(values) \in Values /\ Complete(With(values))
           /\ Together(config) => Together(With(values))
    PROVE  ConfigInv'
<1>1. /\ candidate' = With(values) /\ pos = 0 /\ state = "up" /\ pos' = 1 /\ sets' = sets + 1
      /\ UNCHANGED <<nvs, config, state, torn, cut>>
  BY DEF Set, Unlocked
<1>2. ConfigType' /\ Writing' /\ AcknowledgedSurvives'
  BY <1>1, EntryKeys DEF ConfigInv, ConfigType, Writing, AcknowledgedSurvives, Unlocked
<1>3. TogetherInv'
  BY <1>1 DEF ConfigInv, ConfigType, TogetherInv
<1> QED
  BY <1>1, <1>2, <1>3 DEF ConfigInv

\* The settings of the peers are such values.
LEMMA PeerSettingsComplete ==
    ASSUME ConfigInv, state = "up", NEW values \in PeerSettings
    PROVE  /\ With(values) \in Values /\ Complete(With(values))
           /\ Together(config) => Together(With(values))
<1> DEFINE D == {"enabled"} \cup Peers
<1>1. values \in [D -> Nat]
  <2>1. PICK enabled \in 0 .. 1, servers \in [Peers -> Servers \cup {0}] :
          values = [k \in D |-> IF k = "enabled" THEN enabled ELSE servers[k]]
    BY DEF PeerSettings
  <2>2. Servers \cup {0} \subseteq Nat
    BY ConfigAssumption
  <2>3. \A k \in Peers : servers[k] \in Nat
    BY <2>1, <2>2
  <2> QED
    BY <2>1, <2>3
<1>2. {"schema", "generation"} \cap D = {} /\ "hostname" \notin D /\ Cloudflare \cap D = {}
  BY EntryKeys DEF Named, Cloudflare
<1> HIDE DEF D
<1> QED
  BY <1>1, <1>2, WithComplete

LEMMA RequestsInv == ASSUME ConfigInv, Requests PROVE ConfigInv'
<1>1. state = "up"
  BY DEF Requests, SetHostname, SetCloudflare, ClearCloudflare, SetPeers, Set, Unlocked
<1>2. CASE SetHostname
  <2> DEFINE value(name) == [k \in {"hostname"} |-> name]
  <2>1. PICK name \in 1 .. 2 : Set(value(name))
    BY <1>2 DEF SetHostname
  <2>2. value(name) \in [{"hostname"} -> Nat] /\ value(name)["hostname"] # 0
    OBVIOUS
  <2> HIDE DEF value
  <2>3. {"schema", "generation"} \cap {"hostname"} = {} /\ Cloudflare \cap {"hostname"} = {}
    BY DEF Cloudflare
  <2> QED
    BY <1>1, <2>1, <2>2, <2>3, WithComplete, SetInv
<1>3. ASSUME NEW c \in Nat, Set([k \in Cloudflare |-> c]) PROVE ConfigInv'
  <2> DEFINE values == [k \in Cloudflare |-> c]
  <2>1. values \in [Cloudflare -> Nat] /\ \A k \in Cloudflare : values[k] = c
    OBVIOUS
  <2>2. Set(values)
    BY <1>3
  <2> HIDE DEF values
  <2>3. {"schema", "generation"} \cap Cloudflare = {} /\ "hostname" \notin Cloudflare
    BY DEF Cloudflare
  <2> QED
    BY <1>1, <2>1, <2>2, <2>3, WithComplete, SetInv
<1>4. CASE SetCloudflare
  <2>1. sets + 2 \in Nat
    BY DEF ConfigInv, ConfigType
  <2> QED
    BY <1>3, <1>4, <2>1 DEF SetCloudflare
<1>5. CASE ClearCloudflare
  BY <1>3, <1>5 DEF ClearCloudflare
<1>6. CASE SetPeers
  BY <1>1, <1>6, PeerSettingsComplete, SetInv DEF SetPeers
<1> QED
  BY <1>2, <1>4, <1>5, <1>6 DEF Requests

LEMMA ReconfigureInv == ASSUME ConfigInv, Reconfigure PROVE ConfigInv'
<1>1. PICK values \in PeerSettings : config' = With(values)
  BY DEF Reconfigure
<1>2. /\ config' \in Values /\ Complete(config')
      /\ Together(config) => Together(config')
  BY <1>1, PeerSettingsComplete DEF Reconfigure, Unlocked
<1>3. Loaded(config') = config' /\ ~Rewritten(config')
  BY <1>2, CompleteLoads
<1>4. /\ nvs' = config' /\ pos = 0 /\ state = "up" /\ sets' = sets + 1
      /\ UNCHANGED <<candidate, pos, state, torn, cut>>
  BY DEF Reconfigure, Unlocked
<1>5. ConfigType' /\ Writing' /\ AcknowledgedSurvives'
  BY <1>2, <1>3, <1>4 DEF ConfigInv, ConfigType, Writing, AcknowledgedSurvives
<1>6. TogetherInv'
  BY <1>2, <1>4 DEF ConfigInv, ConfigType, TogetherInv
<1> QED
  BY <1>2, <1>5, <1>6 DEF ConfigInv

LEMMA ConfigInitInv == Init => ConfigInv
<1> SUFFICES ASSUME Init PROVE ConfigInv
  OBVIOUS
<1>1. /\ config = Nothing /\ candidate = Nothing /\ pos = 0 /\ state = "boot"
      /\ sets = 0 /\ torn = FALSE /\ cut = FALSE
      /\ nvs \in Configured \cup Layouts
  BY DEF Init, ConfigInit, MonitorInit
<1>2. Nothing \in Values /\ Together(Nothing)
  BY EntryKeys DEF Nothing, Values, Together, Named, Cloudflare
<1>3. nvs \in Values /\ Together(nvs)
  <2>1. ASSUME nvs \in Layouts PROVE nvs \in Values /\ Together(nvs)
    BY <2>1, EntryKeys DEF Layouts, Nothing, Values, Together, Named, Cloudflare
  <2>2. ASSUME nvs \in Configured PROVE nvs \in Values /\ Together(nvs)
    <3>1. PICK enabled \in 0 .. 1, s \in Servers :
            nvs = [Default EXCEPT !["enabled"] = enabled, !["peer0"] = s]
      BY <2>2, ConfigAssumption DEF Configured
    <3>2. enabled \in Nat /\ s \in Nat
      BY ConfigAssumption
    <3>3. nvs \in Values
      BY <3>1, <3>2, DefaultComplete DEF Values
    <3>4. \A k \in Cloudflare : nvs[k] = Default[k]
      BY <3>1, DefaultComplete, EntryKeys DEF Values, Cloudflare, Named
    <3> QED
      BY <3>3, <3>4, DefaultComplete DEF Together
  <2> QED
    BY <1>1, <2>1, <2>2
<1>4. ConfigType
  <2>1. 0 \in 0 .. Last + 1
    BY EntryKeys
  <2> QED
    BY <1>1, <1>2, <1>3, <2>1 DEF ConfigType
<1>6. Writing /\ AcknowledgedSurvives
  BY <1>1 DEF Writing, AcknowledgedSurvives, Unlocked
<1>5. TogetherInv
  BY <1>1, <1>2, <1>3 DEF TogetherInv
<1> QED
  BY <1>1, <1>4, <1>5, <1>6 DEF ConfigInv

LEMMA ConfigNextInv == ASSUME ConfigInv, [Next]_vars PROVE ConfigInv'
<1>1. CASE ConfigTask
  BY <1>1, BootInv, PersistStepInv, PersistDoneInv DEF ConfigTask
<1>2. CASE Requests \/ PersistFails
  BY <1>2, RequestsInv, PersistFailsInv
<1>3. CASE Reconfigure
  BY <1>3, ReconfigureInv
<1>4. CASE Restart
  BY <1>4, PowerLossInv DEF Restart
<1>5. ASSUME UNCHANGED configVars PROVE ConfigInv'
  <2>1. UNCHANGED <<nvs, config, candidate, pos, state, sets, torn, cut>>
    BY <1>5 DEF configVars
  <2>2. ConfigType' /\ Writing' /\ TogetherInv' /\ AcknowledgedSurvives'
    BY <2>1 DEF ConfigInv, ConfigType, Writing, TogetherInv, AcknowledgedSurvives, Unlocked
  <2> QED
    BY <2>1, <2>2 DEF ConfigInv
<1>6. MonitorTask => UNCHANGED configVars
  BY DEF MonitorTask, Sync, Wait, BeginPoll, PollDone, SelectError, Refresh, Timeout, Response
<1> QED
  BY <1>1, <1>2, <1>3, <1>4, <1>5, <1>6 DEF Next, vars

-------------------------------------------------------------------------------

\* The ring indices.
LEMMA WindowModulus ==
    /\ Window \in Nat \ {0} /\ Failures \in Nat \ {0}
    /\ \A k \in 0 .. Window - 1 : k % Window = k
    /\ Window % Window = 0
<1>1. Window \in Nat \ {0} /\ Failures \in Nat \ {0}
  BY MonitorAssumption
<1>2. ASSUME NEW k \in 0 .. Window - 1 PROVE k % Window = k
  BY <1>1
<1>3. Window % Window = 0
  BY <1>1
<1> QED
  BY <1>1, <1>2, <1>3

\* update_success keeps the ring in order, also when it rotates it.
LEMMA SampledRing ==
    ASSUME NEW r \in Runtimes, RingInv(r)
    PROVE  /\ Sampled(r) \in Runtimes /\ RingInv(Sampled(r))
           /\ Sampled(r).count > 0 /\ Sampled(r).server = r.server
<1> DEFINE count == IF r.count < Window THEN r.count + 1 ELSE r.count
           next == (r.next + 1) % Window
           aged == Aged(r)
           s == [r EXCEPT !.window = aged, !.next = next, !.count = count]
<1>1. /\ r.count \in 0 .. Window /\ r.next \in 0 .. Window - 1
      /\ r.window \in [0 .. Window - 1 -> Nat]
      /\ Window \in Nat \ {0}
  <2>1. /\ r.count \in 0 .. Window /\ r.window \in [0 .. Window - 1 -> Nat]
        /\ r.next = IF r.count = Window THEN 0 ELSE r.count
        /\ Window \in Nat \ {0}
    BY WindowModulus DEF Runtimes, RingInv
  <2> QED
    BY <2>1
<1>2. /\ Aged(r) \in [0 .. Window - 1 -> Nat]
      /\ \A i \in 0 .. Window - 1 :
             Aged(r)[i] = IF i = r.next THEN 0 ELSE IF i < r.count THEN r.window[i] + 1 ELSE 0
  BY <1>1 DEF Aged
<1>3. Sampled(r) = Ordered(s)
  BY DEF Sampled
<1> HIDE DEF count, next, aged
<1>7. s \in Runtimes
  <2>1. count \in 0 .. Window /\ next \in 0 .. Window
    BY <1>1 DEF count, next
  <2>2. aged \in [0 .. Window - 1 -> Nat]
    BY <1>2 DEF aged
  <2> QED
    BY <2>1, <2>2 DEF Runtimes
<1>4. s = [server |-> r.server, valid |-> r.valid, count |-> count, next |-> next,
           window |-> aged]
  <2>1. /\ s.server = r.server /\ s.valid = r.valid /\ s.count = count
        /\ s.next = next /\ s.window = aged
    BY DEF Runtimes
  <2> HIDE DEF s
  <2> QED
    BY <1>7, <2>1 DEF Runtimes
<1> HIDE DEF s
<1> USE DEF next, aged, count
<1>5. CASE r.count < Window
  <2>1. count = r.count + 1 /\ r.next = r.count /\ count \in 1 .. Window
    BY <1>1, <1>5 DEF RingInv
  <2>2. s.next = IF count = Window THEN 0 ELSE count
    <3>1. CASE count = Window
      BY <1>1, <1>4, <2>1, <3>1, WindowModulus
    <3>2. CASE count # Window
      <4>1. count \in 0 .. Window - 1 /\ s.next = count % Window
        BY <1>1, <1>4, <2>1, <3>2
      <4> QED
        BY <3>2, <4>1, WindowModulus
    <3> QED
      BY <3>1, <3>2
  <2>3. Ordered(s) = s
    BY <1>4, <2>1, <2>2 DEF Ordered
  <2>4. ASSUME NEW i \in 0 .. count - 1 PROVE s.window[i] = count - 1 - i
    <3>1. i \in 0 .. r.count /\ i \in 0 .. Window - 1
      BY <1>1, <2>1
    <3>2. CASE i = r.count
      BY <1>1, <1>2, <1>4, <2>1, <3>1, <3>2
    <3>3. CASE i # r.count
      <4>1. i \in 0 .. r.count - 1
        BY <1>1, <3>1, <3>3
      <4>2. r.window[i] = r.count - 1 - i
        BY <4>1 DEF RingInv
      <4>3. s.window[i] = r.window[i] + 1
        BY <1>1, <1>2, <1>4, <2>1, <3>1, <3>3, <4>1
      <4> QED
        BY <1>1, <2>1, <3>1, <4>2, <4>3
    <3> QED
      BY <3>2, <3>3
  <2> QED
    BY <1>3, <1>4, <1>7, <2>1, <2>2, <2>3, <2>4 DEF RingInv
<1>6. CASE r.count = Window
  <2>1. count = Window /\ r.next = 0
    BY <1>1, <1>6 DEF RingInv
  <2>2. s.next = 1 % Window /\ 1 \in 1 .. Window
    BY <1>1, <1>4, <2>1
  <2>3. CASE Window = 1
    <3>1. s.next = 0 /\ Ordered(s) = s
      BY <1>4, <2>1, <2>2, <2>3, WindowModulus DEF Ordered
    <3>2. s.window[0] = 0
      BY <1>1, <1>2, <1>4, <2>1
    <3> QED
      BY <1>3, <1>4, <1>7, <2>1, <2>3, <3>1, <3>2 DEF RingInv
  <2>4. CASE Window > 1
    <3> DEFINE rotated == [i \in 0 .. Window - 1 |-> s.window[(s.next + i) % Window]]
    <3>1. s.next = 1
      BY <1>1, <2>2, <2>4, WindowModulus
    <3>2. ASSUME NEW i \in 0 .. Window - 1
          PROVE  rotated[i] = Window - 1 - i
      <4>1. CASE i < Window - 1
        <5>1. i + 1 \in 1 .. Window - 1 /\ (1 + i) % Window = i + 1
          BY <1>1, <4>1, WindowModulus
        <5>2. s.window[i + 1] = r.window[i + 1] + 1
          BY <1>1, <1>2, <1>4, <1>6, <2>1, <5>1
        <5>3. r.window[i + 1] = Window - 1 - (i + 1)
          BY <1>1, <1>6, <5>1 DEF RingInv
        <5> QED
          BY <1>1, <3>1, <5>1, <5>2, <5>3
      <4>2. CASE i = Window - 1
        <5>1. (1 + i) % Window = 0
          BY <1>1, <4>2, WindowModulus
        <5>2. s.window[0] = 0
          BY <1>1, <1>2, <1>4, <2>1
        <5> QED
          BY <1>1, <3>1, <4>2, <5>1, <5>2
      <4> QED
        BY <1>1, <4>1, <4>2
    <3>3. rotated \in [0 .. Window - 1 -> Nat]
      BY <1>1, <3>2
    <3>4. Ordered(s) = [s EXCEPT !.window = rotated, !.next = 0]
      BY <1>4, <2>1, <3>1 DEF Ordered
    <3> HIDE DEF rotated
    <3>5. Ordered(s) = [server |-> r.server, valid |-> r.valid, count |-> Window, next |-> 0,
                        window |-> rotated]
      BY <1>4, <2>1, <3>4
    <3> QED
      BY <1>1, <1>3, <2>1, <3>2, <3>3, <3>5 DEF Runtimes, RingInv
  <2> QED
    BY <1>1, <2>3, <2>4
<1> QED
  BY <1>1, <1>5, <1>6

-------------------------------------------------------------------------------

\* The slots that reset_peer_slot and the start make.
LEMMA FreshSlot ==
    /\ EmptyRuntime \in Runtimes /\ RingInv(EmptyRuntime) /\ EmptyRuntime.count = 0
    /\ EmptyRuntime.next = 0
    /\ EmptyStatus \in Statuses /\ EmptyStatus.failures = 0 /\ EmptyStatus.health = "DISABLED"
    /\ EmptyRuntime.server = 0 /\ EmptyStatus.server = 0
    /\ HealthInv(EmptyRuntime, EmptyStatus)
BY WindowModulus DEF EmptyRuntime, EmptyStatus, Runtimes, Statuses, Healths, RingInv, HealthInv

LEMMA AsleepTyped == Asleep \in Tasks /\ Asleep.pc = "start"
BY DEF Asleep, Tasks

LEMMA MonitorInitInv == Init => MonitorInv
<1> SUFFICES ASSUME Init PROVE MonitorInv
  OBVIOUS
<1>1. /\ runtime = [p \in Peers |-> EmptyRuntime] /\ status = [p \in Peers |-> EmptyStatus]
      /\ active = {} /\ origin = [p \in Peers |-> 0]
      /\ task \in Tasks /\ task.pc \in {"start", "off"}
  BY AsleepTyped DEF Init, MonitorInit, Asleep, Tasks
<1> QED
  BY <1>1, FreshSlot DEF MonitorInv, MonitorType, SlotInv

\* What a step of the configuration alone leaves as it is.
LEMMA MonitorUnchanged == ASSUME MonitorInv, UNCHANGED monitorVars PROVE MonitorInv'
BY DEF MonitorInv, MonitorType, SlotInv, monitorVars

LEMMA RestartMonitorInv == ASSUME MonitorInv, Restart PROVE MonitorInv'
<1>1. /\ runtime' = [p \in Peers |-> EmptyRuntime] /\ status' = [p \in Peers |-> EmptyStatus]
      /\ active' = {} /\ origin' = [p \in Peers |-> 0]
      /\ task' \in Tasks /\ task'.pc \in {"start", "off"}
  BY AsleepTyped DEF Restart, Running, MonitorInv, MonitorType
<1> QED
  BY <1>1, FreshSlot DEF MonitorInv, MonitorType, SlotInv

\* The slots of peers that have changed begin anew, the others stay.
LEMMA SyncConfigSlots ==
    ASSUME ConfigInv, MonitorInv, SyncConfig
    PROVE  /\ runtime' \in [Peers -> Runtimes] /\ status' \in [Peers -> Statuses]
           /\ origin' \in [Peers -> Nat]
           /\ \A p \in Peers : /\ RingInv(runtime'[p]) /\ HealthInv(runtime'[p], status'[p])
                               /\ status'[p].server = config[p]
                               /\ runtime'[p].server = config[p]
                               /\ runtime'[p].count > 0 => origin'[p] = config[p]
<1>1. ASSUME NEW p \in Peers
      PROVE  /\ config[p] \in Nat
             /\ Reset(p) \in Runtimes /\ RingInv(Reset(p)) /\ Reset(p).server = config[p]
             /\ ResetStatus(p) \in Statuses /\ ResetStatus(p).server = config[p]
             /\ Reset(p).count = 0 /\ HealthInv(Reset(p), ResetStatus(p))
  <2>1. config[p] \in Nat
    BY EntryKeys DEF ConfigInv, ConfigType, Values
  <2>2. /\ Reset(p) \in Runtimes /\ Reset(p).server = config[p] /\ Reset(p).count = 0
        /\ Reset(p).next = 0
    BY <2>1, FreshSlot DEF Reset, Runtimes
  <2>3. /\ ResetStatus(p) \in Statuses /\ ResetStatus(p).server = config[p]
        /\ ResetStatus(p).failures = 0 /\ ResetStatus(p).health # "HEALTHY"
    <3> DEFINE health == IF config[p] = 0 THEN "DISABLED" ELSE "UNKNOWN"
    <3>1. health \in Healths /\ health # "HEALTHY"
      BY DEF Healths
    <3>2. ResetStatus(p) = [EmptyStatus EXCEPT !.server = config[p], !.health = health]
      BY DEF ResetStatus
    <3> HIDE DEF health
    <3> QED
      BY <2>1, <3>1, <3>2, FreshSlot DEF Statuses
  <2> QED
    BY <2>1, <2>2, <2>3, WindowModulus DEF RingInv, HealthInv
<1>2. ASSUME NEW p \in Peers, ~Changed(p)
      PROVE  /\ runtime[p].server = config[p] /\ status[p].server = config[p]
             /\ RingInv(runtime[p]) /\ HealthInv(runtime[p], status[p])
             /\ runtime[p].count > 0 => origin[p] = config[p]
  BY <1>2 DEF Changed, MonitorInv, SlotInv
<1> QED
  BY <1>1, <1>2 DEF SyncConfig, MonitorInv, MonitorType

LEMMA SyncInv == ASSUME ConfigInv, MonitorInv, Sync PROVE MonitorInv'
<1>1. /\ Snapshot \in [{"enabled"} \cup Peers -> Nat]
      /\ \A p \in Peers : Snapshot[p] = config[p]
  <2>1. DOMAIN task.snapshot = {"enabled"} \cup Peers
    BY DEF MonitorInv, MonitorType, Tasks
  <2>2. \A k \in {"enabled"} \cup Peers : config[k] \in Nat
    BY EntryKeys DEF ConfigInv, ConfigType, Values, Named
  <2> QED
    BY <2>1, <2>2 DEF Snapshot
<1>2. /\ task' \in Tasks /\ task'.snapshot = Snapshot /\ task'.next \in 1 .. PeerCount
      /\ active' \subseteq Peers
  BY <1>1, ConfigAssumption DEF Sync, Tasks, MonitorInv, MonitorType
<1>3. SyncConfig
  BY DEF Sync
<1> QED
  BY <1>1, <1>2, <1>3, SyncConfigSlots DEF MonitorInv, MonitorType, SlotInv

LEMMA WaitInv == ASSUME ConfigInv, MonitorInv, Wait PROVE MonitorInv'
<1>1. /\ task' \in Tasks /\ task'.pc \in {"sync", "wait"} /\ active' \subseteq Peers
  BY DEF Wait, Waiting, Goto, Tasks, MonitorInv, MonitorType
<1>2. SyncConfig
  BY DEF Wait
<1> QED
  BY <1>1, <1>2, SyncConfigSlots DEF MonitorInv, MonitorType, SlotInv
-------------------------------------------------------------------------------

\* A failure counted for one peer leaves its health consistent.
LEMMA FailedRow ==
    ASSUME MonitorInv, NEW p \in Peers,
           NEW health \in Healths, health # "HEALTHY",
           status[p].failures + 1 >= Failures => health \in {"UNREACHABLE", "INVALID"},
           NEW row, row = [status[p] EXCEPT !.failures = FailuresAfter(@), !.health = health]
    PROVE  /\ row \in Statuses /\ row.server = status[p].server
           /\ HealthInv(runtime[p], row)
<1>1. status[p] \in Statuses /\ status[p].failures \in 0 .. Failures
  BY DEF MonitorInv, MonitorType, Statuses
<1>2. /\ FailuresAfter(status[p].failures) \in 0 .. Failures
      /\ FailuresAfter(status[p].failures) = Failures => status[p].failures + 1 >= Failures
  BY <1>1, WindowModulus DEF FailuresAfter
<1>3. /\ row \in Statuses /\ row.server = status[p].server /\ row.health = health
      /\ row.failures = FailuresAfter(status[p].failures)
  BY <1>1, <1>2 DEF Statuses
<1> QED
  BY <1>2, <1>3 DEF HealthInv

\* update_failure
LEMMA FailedInv ==
    ASSUME MonitorInv, NEW p \in Peers, NEW requested \in {"INVALID", "DEGRADED"},
           Failed(p, requested)
    PROVE  /\ status' \in [Peers -> Statuses]
           /\ \A q \in Peers : /\ status'[q].server = status[q].server
                               /\ HealthInv(runtime[q], status'[q])
<1> DEFINE health == IF requested = "INVALID" THEN requested
                     ELSE IF status[p].failures + 1 >= Failures THEN "UNREACHABLE"
                     ELSE "DEGRADED"
           row == [status[p] EXCEPT !.failures = FailuresAfter(@), !.health = health]
<1>1. /\ health \in Healths /\ health # "HEALTHY"
      /\ status[p].failures + 1 >= Failures => health \in {"UNREACHABLE", "INVALID"}
  BY DEF Healths
<1>2. status' = [status EXCEPT ![p] = row]
  BY DEF Failed, MonitorInv, MonitorType, Statuses
<1> HIDE DEF health
<1>3. row \in Statuses /\ row.server = status[p].server /\ HealthInv(runtime[p], row)
  BY <1>1, FailedRow
<1> HIDE DEF row
<1> QED
  BY <1>2, <1>3 DEF MonitorInv, MonitorType

\* update_success, with the request's snapshot still that of the slot
LEMMA SucceededInv ==
    ASSUME MonitorInv, task.pc = "select", NEW p \in Peers,
           NEW kind \in {"near", "far", "slow"}, Succeeded(p, kind)
    PROVE  /\ status' \in [Peers -> Statuses] /\ runtime' \in [Peers -> Runtimes]
           /\ origin' \in [Peers -> Nat]
           /\ \A q \in Peers : /\ RingInv(runtime'[q]) /\ HealthInv(runtime'[q], status'[q])
                               /\ status'[q].server = status[q].server
                               /\ runtime'[q].server = runtime[q].server
                               /\ runtime'[q].count > 0 => origin'[q] = runtime[q].server
<1> DEFINE health == IF kind = "slow" THEN "DEGRADED" ELSE "HEALTHY"
           offset == IF kind = "far" THEN "far" ELSE "near"
           row == [status[p] EXCEPT !.failures = 0, !.offset = offset, !.health = health]
<1>1. health \in Healths /\ offset \in {"near", "far"} /\ health # "UNREACHABLE"
  BY DEF Healths
<1>2. status' = [status EXCEPT ![p] = row]
  BY DEF Succeeded, MonitorInv, MonitorType, Statuses
<1>3. /\ runtime' = [runtime EXCEPT ![p] = Sampled(runtime[p])]
      /\ origin' = [origin EXCEPT ![p] = task.snapshot[p]]
  BY DEF Succeeded
<1>4. status[p] \in Statuses /\ runtime[p] \in Runtimes /\ RingInv(runtime[p])
      /\ task.snapshot[p] = runtime[p].server /\ task.snapshot[p] \in Nat
  BY DEF MonitorInv, MonitorType, SlotInv, Tasks
<1> HIDE DEF health, offset
<1>5. row \in Statuses /\ row.server = status[p].server /\ row.failures = 0
  <2>1. 0 \in 0 .. Failures
    BY WindowModulus
  <2> QED
    BY <1>1, <1>4, <2>1 DEF Statuses
<1> HIDE DEF row
<1>6. /\ Sampled(runtime[p]) \in Runtimes /\ RingInv(Sampled(runtime[p]))
      /\ Sampled(runtime[p]).count > 0 /\ Sampled(runtime[p]).server = runtime[p].server
  BY <1>4, SampledRing
<1>7. HealthInv(Sampled(runtime[p]), row)
  BY <1>5, <1>6, WindowModulus DEF HealthInv
<1> QED
  BY <1>2, <1>3, <1>4, <1>5, <1>6, <1>7 DEF MonitorInv, MonitorType, SlotInv

\* One lemma for each step of the monitor's task.
LEMMA BeginPollInv == ASSUME MonitorInv, BeginPoll PROVE MonitorInv'
<1> DEFINE p == PeerKeys[task.next]
           last == task.next = PeerCount
<1>1. /\ task \in Tasks /\ task.pc = "begin" /\ task.next \in 1 .. PeerCount
      /\ p \in Peers /\ PeerCount \in Nat
  BY ConfigAssumption DEF BeginPoll, MonitorInv, MonitorType, Peers
<1>2. /\ task' \in Tasks /\ task'.snapshot = task.snapshot
      /\ task'.pc = "begin" => task'.next \in 1 .. PeerCount
  <2>1. CASE last
    <3>1. task' = [task EXCEPT !.pc = "select", !.next = 1]
      BY <2>1 DEF BeginPoll
    <3>2. task' \in Tasks
      BY <1>1, <3>1 DEF Tasks
    <3>3. task'.pc # "begin" /\ task'.snapshot = task.snapshot
      BY <1>1, <3>1 DEF Tasks
    <3> QED
      BY <3>2, <3>3
  <2>2. CASE ~last
    <3>1. task' = [task EXCEPT !.pc = "begin", !.next = task.next + 1]
      BY <1>1, <2>2 DEF BeginPoll, Tasks
    <3>2. task.next + 1 \in 1 .. PeerCount /\ task.next + 1 \in Nat
      BY <1>1, <2>2
    <3>3. task' \in Tasks
      BY <1>1, <3>1, <3>2 DEF Tasks
    <3>4. task'.next \in 1 .. PeerCount /\ task'.snapshot = task.snapshot
      BY <1>1, <3>1, <3>2 DEF Tasks
    <3> QED
      BY <3>3, <3>4
  <2> QED
    BY <2>1, <2>2
<1>3. UNCHANGED <<runtime, origin>>
  BY DEF BeginPoll
<1>4. active' \subseteq Peers
  BY <1>1 DEF BeginPoll, Failed, MonitorInv, MonitorType
<1>5. /\ status' \in [Peers -> Statuses]
      /\ \A q \in Peers : /\ status'[q].server = status[q].server
                          /\ HealthInv(runtime[q], status'[q])
  <2>1. status' = status \/ Failed(p, "DEGRADED")
    BY DEF BeginPoll
  <2> QED
    BY <1>1, <2>1, FailedInv DEF MonitorInv, MonitorType
<1> QED
  BY <1>1, <1>2, <1>3, <1>4, <1>5 DEF MonitorInv, MonitorType, SlotInv

LEMMA TimeoutInv ==
    ASSUME MonitorInv, NEW p \in Peers, Timeout(p)
    PROVE  MonitorInv'
<1>1. /\ Failed(p, "DEGRADED") /\ active' \subseteq Peers
      /\ UNCHANGED <<task, runtime, origin>>
  BY DEF Timeout, TimedOut, MonitorInv, MonitorType
<1> QED
  BY <1>1, FailedInv DEF MonitorInv, MonitorType, SlotInv

LEMMA ResponseInv ==
    ASSUME MonitorInv, NEW p \in Peers, Response(p)
    PROVE  MonitorInv'
<1>1. /\ task.pc = "select" /\ task' = task /\ active' \subseteq Peers
  BY DEF Response, MonitorInv, MonitorType
<1>2. CASE \E kind \in {"near", "far", "slow"} : Succeeded(p, kind)
  BY <1>1, <1>2, SucceededInv DEF MonitorInv, MonitorType, SlotInv
<1>3. CASE /\ \E refused \in {"INVALID", "DEGRADED"} : Failed(p, refused)
           /\ UNCHANGED <<runtime, origin>>
  BY <1>1, <1>3, FailedInv DEF MonitorInv, MonitorType, SlotInv
<1> QED
  BY <1>2, <1>3 DEF Response

LEMMA SelectErrorInv == ASSUME MonitorInv, SelectError PROVE MonitorInv'
<1>1. UNCHANGED <<task, runtime, origin>> /\ active' \subseteq Peers
  BY DEF SelectError
<1>2. ASSUME NEW p \in Peers
      PROVE  /\ status'[p] \in Statuses /\ status'[p].server = status[p].server
             /\ HealthInv(runtime[p], status'[p])
  <2>1. CASE p \notin active
    BY <2>1 DEF SelectError, MonitorInv, MonitorType
  <2>2. CASE p \in active
    <3> DEFINE health == IF status[p].failures + 1 >= Failures THEN "UNREACHABLE"
                         ELSE "DEGRADED"
               row == [status[p] EXCEPT !.failures = FailuresAfter(@), !.health = health]
    <3>1. status'[p] = row
      BY <2>2 DEF SelectError
    <3>2. /\ health \in Healths /\ health # "HEALTHY"
          /\ status[p].failures + 1 >= Failures => health \in {"UNREACHABLE", "INVALID"}
      BY DEF Healths
    <3> HIDE DEF health
    <3>3. row \in Statuses /\ row.server = status[p].server /\ HealthInv(runtime[p], row)
      BY <3>2, FailedRow
    <3> HIDE DEF row
    <3> QED
      BY <3>1, <3>3
  <2> QED
    BY <2>1, <2>2
<1>3. status' \in [Peers -> Statuses]
  BY <1>2 DEF SelectError
<1> QED
  BY <1>1, <1>2, <1>3 DEF MonitorInv, MonitorType, SlotInv

LEMMA RefreshInv == ASSUME MonitorInv, Refresh PROVE MonitorInv'
<1>1. /\ UNCHANGED <<runtime, origin, active>> /\ task' \in Tasks /\ task'.pc = "wait"
  BY DEF Refresh, Goto, Tasks, MonitorInv, MonitorType
<1>2. ASSUME NEW p \in Peers
      PROVE  /\ status'[p] \in Statuses /\ status'[p].server = status[p].server
             /\ HealthInv(runtime[p], status'[p])
  <2> DEFINE row == [status[p] EXCEPT !.health = "DIVERGENT"]
  <2>1. status[p] \in Statuses /\ HealthInv(runtime[p], status[p])
    BY DEF MonitorInv, MonitorType
  <2>2. status'[p] = IF Compared(p) /\ Divergent THEN row ELSE status[p]
    BY DEF Refresh
  <2>3. /\ row \in Statuses /\ row.server = status[p].server
        /\ row.health = "DIVERGENT" /\ row.failures = status[p].failures
    BY <2>1 DEF Statuses, Healths
  <2>4. Compared(p) => status[p].failures # Failures
    BY <2>1 DEF Compared, HealthInv
  <2> HIDE DEF row
  <2> QED
    BY <2>1, <2>2, <2>3, <2>4 DEF HealthInv
<1>3. status' \in [Peers -> Statuses]
  BY <1>2 DEF Refresh
<1> QED
  BY <1>1, <1>2, <1>3 DEF MonitorInv, MonitorType, SlotInv

LEMMA MonitorNextInv == ASSUME ConfigInv, MonitorInv, [Next]_vars PROVE MonitorInv'
<1>1. CASE MonitorTask
  <2>1. CASE PollDone
    BY <2>1 DEF PollDone, Goto, Tasks, MonitorInv, MonitorType, SlotInv
  <2> QED
    BY <1>1, <2>1, SyncInv, WaitInv, BeginPollInv, SelectErrorInv, RefreshInv,
       TimeoutInv, ResponseInv DEF MonitorTask
<1>2. CASE UNCHANGED monitorVars
  BY <1>2, MonitorUnchanged
<1>3. CASE Restart
  BY <1>3, RestartMonitorInv
<1> QED
  BY <1>1, <1>2, <1>3 DEF Next, Reconfigure, vars

LEMMA Invariance == Spec => []IInv
<1>1. Init => IInv
  BY ConfigInitInv, MonitorInitInv DEF IInv
<1>2. IInv /\ [Next]_vars => IInv'
  BY ConfigNextInv, MonitorNextInv DEF IInv
<1> QED
  BY <1>1, <1>2, PTL DEF Spec

-------------------------------------------------------------------------------

\* What a request acknowledged is what the next boot loads, whatever write
\* failed or was cut short before (persist_config, load_config).
THEOREM AcknowledgedProof == Spec => []AcknowledgedSurvives
<1>1. IInv => AcknowledgedSurvives
  BY DEF IInv, ConfigInv
<1> QED
  BY <1>1, Invariance, PTL

\* Failed writes alone never mix the parts of two Cloudflare credentials
\* (the copy that the setters make of s_config).
THEOREM CredentialsProof == Spec => []CredentialsTogether
<1>1. IInv => CredentialsTogether
  BY DEF IInv, ConfigInv, TogetherInv, Together, CredentialsTogether
<1> QED
  BY <1>1, Invariance, PTL

\* No sample is kept or shown under the name of another server, whenever the
\* configuration changes (sync_config against poll_all_peers).
THEOREM SamplesProof == Spec => []SamplesOfServer
<1>1. IInv => SamplesOfServer
  BY DEF IInv, MonitorInv, SlotInv, SamplesOfServer
<1> QED
  BY <1>1, Invariance, PTL

\* The rolling window is gapless and in order for every size of it
\* (update_success).
THEOREM WindowProof == Spec => []WindowInOrder
<1>1. IInv => WindowInOrder
  <2> SUFFICES ASSUME IInv, NEW p \in Peers
               PROVE  /\ runtime[p].count <= Window
                      /\ \A i \in 0 .. runtime[p].count - 1 :
                             runtime[p].window[i] = runtime[p].count - 1 - i
    BY DEF WindowInOrder
  <2>1. runtime[p].count \in 0 .. Window /\ RingInv(runtime[p])
    BY DEF IInv, MonitorInv, MonitorType, SlotInv, Runtimes
  <2> QED
    BY <2>1, WindowModulus DEF RingInv
<1> QED
  BY <1>1, Invariance, PTL

\* A peer at its failure limit is never shown as usable, and a healthy one
\* has answered (update_failure, update_success, refresh_aggregate_health).
THEOREM HealthProof == Spec => []HealthFollowsFailures
<1>1. IInv => HealthFollowsFailures
  BY DEF IInv, MonitorInv, HealthInv, HealthFollowsFailures
<1> QED
  BY <1>1, Invariance, PTL
===============================================================================
