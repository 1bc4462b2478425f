----------------------------- MODULE DeviceConfig -----------------------------
(***************************************************************************)
(* The configuration of the device (src/main/device_config.c): one copy in *)
(* RAM behind a mutex, and its entries in NVS.  persist_config rewrites    *)
(* every entry, one durable write after the other, so power may be lost,   *)
(* or a write fail, between any two; load_config makes a configuration of  *)
(* whatever it finds and migrates the layouts of older firmware.           *)
(*                                                                         *)
(* Abstractions.  A value is a number and 0 is an entry that is not there. *)
(* The host name 1 is the default one.  The Cloudflare entries carry the   *)
(* number of the request that set them.  The generation is only there or   *)
(* not: nothing but a display follows its value.  The polling interval and *)
(* timeout of the peer monitor are written with its enable flag.           *)
(***************************************************************************)
EXTENDS Naturals, Sequences

CONSTANTS
    PeerCount,  \* APP_NTP_PEER_MAX_COUNT
    Servers,    \* names of NTP servers, numbers other than 0
    MaxSets,    \* bound of the model: requests with writes of their own
    MaxFaults   \* bound of the model: failed writes, and power losses among them

ASSUME ConfigAssumption ==
    /\ PeerCount \in 1 .. 4 /\ Servers \subseteq Nat \ {0} /\ Servers # {}
    /\ {MaxSets, MaxFaults} \subseteq Nat

VARIABLES
    nvs,        \* the entries of namespace CFG_NS
    config,     \* s_config
    candidate,  \* the configuration persist_config writes
    pos,        \* the entry it writes next, 0 when it is not running
    state,      \* "boot", "up" (s_initialized), or "failed"
    sets,       \* requests so far
    faults,     \* failed writes and power losses so far
    torn,       \* history: a write was cut short, none was completed since
    cut         \* history: the power was lost while torn

configVars == <<nvs, config, candidate, pos, state, sets, faults, torn, cut>>

Cloudflare == {"zone_name", "zone_id", "api_token"}

PeerKeys == SubSeq(<<"peer0", "peer1", "peer2", "peer3">>, 1, PeerCount)

\* The entries in the order of persist_config.
Entries == <<"schema", "generation", "hostname", "zone_name", "zone_id", "api_token",
             "enabled">> \o PeerKeys

Last == Len(Entries)
Keys == {Entries[i] : i \in 1 .. Last}
Peers == {PeerKeys[i] : i \in 1 .. PeerCount}

Nothing == [k \in Keys |-> 0]

\* make_default_config
Default ==
    [Nothing EXCEPT !["schema"] = 3, !["generation"] = 1, !["hostname"] = 1]

\* What older firmware has left.
Layouts ==
    {Nothing,
     [Nothing EXCEPT !["hostname"] = 2],
     [Nothing EXCEPT !["schema"] = 1, !["generation"] = 1, !["hostname"] = 2],
     [Nothing EXCEPT !["schema"] = 2, !["generation"] = 1, !["hostname"] = 2,
                     !["zone_name"] = 1, !["zone_id"] = 1, !["api_token"] = 1]}

ConfigInit ==
    /\ config = Nothing /\ candidate = Nothing /\ pos = 0 /\ state = "boot"
    /\ sets = 0 /\ faults = 0 /\ torn = FALSE /\ cut = FALSE

Fault == faults < MaxFaults /\ faults' = faults + 1

-------------------------------------------------------------------------------
(* load_config *)

\* The layout has what its schema asks for.
Usable(n) == IF n["schema"] = 0 THEN n["hostname"] # 0
             ELSE n["generation"] # 0 /\ n["hostname"] # 0

\* A credential is taken only when all of its parts are there.
CloudflareOf(n) == \A k \in Cloudflare : n[k] # 0

Loaded(n) ==
    IF ~Usable(n) THEN Default
    ELSE [k \in Keys |->
            CASE k = "schema" -> 3
              [] k = "generation" -> IF n["schema"] = 0 THEN 1 ELSE n[k]
              [] k = "hostname" -> n[k]
              [] k \in Cloudflare ->
                   IF n["schema"] >= 2 /\ CloudflareOf(n) THEN n[k] ELSE 0
              [] OTHER -> IF n["schema"] = 3 THEN n[k] ELSE 0]

\* Defaults and migrated layouts are written back before they are used.
Rewritten(n) == ~Usable(n) \/ n["schema"] # 3

\* device_config_init
Boot ==
    /\ state = "boot" /\ pos = 0
    /\ IF Rewritten(nvs)
       THEN /\ candidate' = Loaded(nvs) /\ pos' = 1
            /\ UNCHANGED <<config, state>>
       ELSE /\ config' = Loaded(nvs) /\ state' = "up"
            /\ UNCHANGED <<candidate, pos>>
    /\ UNCHANGED <<nvs, sets, faults, torn, cut>>

-------------------------------------------------------------------------------
(* persist_config *)

\* Faulty variant: an entry that is to go is left as it is.
WrittenNotErased(k) ==
    IF candidate[k] = 0 THEN nvs[k] ELSE candidate[k]

\* An entry is set or, when it has no value, erased.
Written(k) == candidate[k]

PersistStep ==
    /\ pos \in 1 .. Last
    /\ nvs' = [nvs EXCEPT ![Entries[pos]] = Written(Entries[pos])]
    /\ pos' = pos + 1
    /\ UNCHANGED <<config, candidate, state, sets, faults, torn, cut>>

\* nvs_commit, and then the configuration is the one in RAM.
PersistDone ==
    /\ pos = Last + 1
    /\ config' = candidate /\ state' = "up"
    /\ pos' = 0 /\ candidate' = Nothing /\ torn' = FALSE
    /\ UNCHANGED <<nvs, sets, faults, cut>>

\* Faulty variant: the configuration in RAM follows what has been written.
AfterFailureReload == Loaded(nvs)

\* A failed request leaves the configuration in RAM as it was.
AfterFailure == config

\* A Cloudflare entry that cannot be erased does not spare those after it.
StillErased ==
    IF pos <= Last /\ Entries[pos] \in Cloudflare /\ candidate[Entries[pos]] = 0
    THEN Cloudflare \cap {Entries[i] : i \in pos + 1 .. Last}
    ELSE {}

\* The rest is not written; at start-up app_main gives up.
PersistFails ==
    /\ pos # 0 /\ Fault
    /\ \E erased \in SUBSET StillErased :
         nvs' = [k \in Keys |-> IF k \in erased THEN 0 ELSE nvs[k]]
    /\ config' = AfterFailure
    /\ state' = IF state = "boot" THEN "failed" ELSE state
    /\ pos' = 0 /\ candidate' = Nothing /\ torn' = TRUE
    /\ UNCHANGED <<sets, cut>>

-------------------------------------------------------------------------------
(* Requests, one at a time under the mutex. *)

Unlocked == state = "up" /\ pos = 0

\* A copy of s_config with new values.
With(values) == [k \in Keys |-> IF k \in DOMAIN values THEN values[k] ELSE config[k]]

\* A request persists the configuration with new values for some of its entries.
Set(values) ==
    /\ Unlocked /\ sets < MaxSets
    /\ candidate' = With(values)
    /\ pos' = 1 /\ sets' = sets + 1
    /\ UNCHANGED <<nvs, config, state, faults, torn, cut>>

\* device_config_set_hostname: nothing is written for the same name.
SetHostname ==
    \E name \in 1 .. 2 :
        /\ name # config["hostname"]
        /\ Set([k \in {"hostname"} |-> name])

\* device_config_set_cloudflare; 1 is the credential of the older firmware.
SetCloudflare == Set([k \in Cloudflare |-> sets + 2])

\* device_config_clear_cloudflare
ClearCloudflare ==
    /\ CloudflareOf(config)
    /\ Set([k \in Cloudflare |-> 0])

\* device_config_set_ntp_peer_monitor
PeerSettings ==
    {[k \in {"enabled"} \cup Peers |-> IF k = "enabled" THEN enabled ELSE servers[k]] :
        enabled \in 0 .. 1, servers \in [Peers -> Servers \cup {0}]}

SetPeers == \E values \in PeerSettings : Set(values)

\* The power fails, or whoever finds the device stopped restarts it.
PowerLoss ==
    /\ state' = "boot" /\ pos' = 0
    /\ config' = Nothing /\ candidate' = Nothing
    /\ torn' = (torn \/ pos # 0) /\ cut' = (cut \/ torn \/ pos # 0)
    /\ UNCHANGED <<nvs, sets>>

ConfigTask == Boot \/ PersistStep \/ PersistDone

Requests == SetHostname \/ SetCloudflare \/ ClearCloudflare \/ SetPeers

-------------------------------------------------------------------------------
(* Properties. *)

\* What a request has acknowledged is what the next boot will load, entry by
\* entry, unless a later write was cut short; and a completed write repairs
\* whatever an earlier one left (persist_config against load_config).
AcknowledgedSurvives ==
    Unlocked /\ ~torn => ~Rewritten(nvs) /\ Loaded(nvs) = config

\* The parts of the Cloudflare credential are of one request, unless the power
\* was lost with a write cut short: a write that fails does not mix them
\* (the copy that the setters make of s_config).
CredentialsTogether ==
    ~cut => \A j, k \in Cloudflare : config[j] = config[k]

===============================================================================
