----------------------------- MODULE PeerMonitor ------------------------------
(***************************************************************************)
(* The monitor of other NTP servers (src/main/ntp_peer_monitor.c): a task  *)
(* that polls the configured servers side by side, keeps a window of       *)
(* samples and a state of health for each, and compares them.  It follows  *)
(* the configuration (DeviceConfig), which requests change at any time.    *)
(*                                                                         *)
(* Abstractions.  A sample is known by its age, the number of samples of   *)
(* its slot that came after it.  An answer is good (and near the others,   *)
(* far from them, or slow), or refused for one of the reasons the code     *)
(* tells apart; INVALID stands for KOD too, which the code treats alike.   *)
(* What is only counted for display is left out.                           *)
(*                                                                         *)
(* Where the monitor runs, a request is one step: the monitor reads the    *)
(* configuration under the mutex that the request holds.  The writes of a  *)
(* request are steps of their own where it does not: app_main goes on when *)
(* the monitor cannot be started.                                          *)
(***************************************************************************)
EXTENDS DeviceConfig

CONSTANTS
    Window,     \* NTP_PEER_ROLLING_WINDOW
    Failures,   \* NTP_PEER_UNREACHABLE_FAILURES
    MaxChanges  \* bound of the model: changes of a configuration followed

ASSUME MonitorAssumption ==
    {Window, Failures} \subseteq Nat \ {0} /\ MaxChanges \in Nat

VARIABLES
    task,       \* monitor_task: where it is, the snapshot it uses, the next peer
    runtime,    \* s_runtime, one slot per peer
    status,     \* s_status.peers, what others see of it
    active,     \* the peers with an open poll context
    origin      \* history: the server that the samples of a slot came from

monitorVars == <<task, runtime, status, active, origin>>
vars == <<configVars, monitorVars>>

Asleep == [pc |-> "start", snapshot |-> [k \in {"enabled"} \cup Peers |-> 0], next |-> 1]

EmptyRuntime == [server |-> 0, valid |-> FALSE, count |-> 0, next |-> 0,
                 window |-> [i \in 0 .. Window - 1 |-> 0]]

EmptyStatus == [server |-> 0, health |-> "DISABLED", failures |-> 0, offset |-> "near"]

\* A monitor that runs follows a peer configured earlier, switched on or off.
Configured ==
    {[Default EXCEPT !["enabled"] = enabled, !["peer0"] = CHOOSE s \in Servers : TRUE] :
        enabled \in 0 .. 1}

MonitorInit ==
    /\ \/ task = Asleep /\ nvs \in Configured
       \/ task = [Asleep EXCEPT !.pc = "off"] /\ nvs \in Layouts
    /\ runtime = [p \in Peers |-> EmptyRuntime]
    /\ status = [p \in Peers |-> EmptyStatus]
    /\ active = {} /\ origin = [p \in Peers |-> 0]

Init == ConfigInit /\ MonitorInit

Goto(pc) == task' = [task EXCEPT !.pc = pc]

-------------------------------------------------------------------------------
(* sync_config and reset_peer_slot *)

Snapshot == [k \in DOMAIN task.snapshot |-> config[k]]

\* Faulty variant: a slot that stays in use is kept for another server.
ChangedInUse(p) == (runtime[p].server = 0) # (config[p] = 0) \/ ~runtime[p].valid

Changed(p) == runtime[p].server # config[p] \/ ~runtime[p].valid

Reset(p) == [EmptyRuntime EXCEPT !.server = config[p], !.valid = TRUE]

ResetStatus(p) ==
    [EmptyStatus EXCEPT !.server = config[p],
                        !.health = IF config[p] = 0 THEN "DISABLED" ELSE "UNKNOWN"]

SyncConfig ==
    /\ runtime' = [p \in Peers |-> IF Changed(p) THEN Reset(p) ELSE runtime[p]]
    /\ status' = [p \in Peers |-> IF Changed(p) THEN ResetStatus(p) ELSE status[p]]
    /\ origin' = [p \in Peers |-> IF Changed(p) THEN 0 ELSE origin[p]]

\* The interval and the timeout may change with the flag.
ConfigChanged ==
    (\E p \in Peers : Changed(p)) \/ task.snapshot["enabled"] # config["enabled"]

\* The head of monitor_task: the snapshot waits for the mutex.
Sync ==
    /\ task.pc \in {"start", "sync"} /\ Unlocked
    /\ SyncConfig
    /\ task' = [pc |-> IF config["enabled"] = 1 THEN "begin" ELSE "refresh",
                snapshot |-> Snapshot, next |-> 1]
    /\ UNCHANGED <<configVars, active>>

\* Faulty variant: a monitor that is switched off does not look again.
WaitEnabled == task.pc = "wait" /\ Unlocked /\ task.snapshot["enabled"] = 1

Waiting == task.pc = "wait" /\ Unlocked

\* The configuration is compared every second until the interval is over.
Wait ==
    /\ Waiting
    /\ SyncConfig
    /\ \/ Goto("sync")
       \/ ~ConfigChanged /\ UNCHANGED task
    /\ UNCHANGED <<configVars, active>>

-------------------------------------------------------------------------------
(* update_failure and update_success *)

\* Counted up to where it still makes a difference.
FailuresAfter(n) == IF n = Failures THEN n ELSE n + 1

Failed(p, requested) ==
    status' = [status EXCEPT ![p].failures = FailuresAfter(@),
                             ![p].health =
        IF requested = "INVALID" THEN requested
        ELSE IF status[p].failures + 1 >= Failures THEN "UNREACHABLE"
        ELSE "DEGRADED"]

\* The new sample has age 0; the others are a sample older.
Aged(r) ==
    [i \in 0 .. Window - 1 |->
        IF i = r.next THEN 0 ELSE IF i < r.count THEN r.window[i] + 1 ELSE 0]

\* Faulty variant: the ring that has wrapped is used as it is.
OrderedAsIs(r) == r

\* The full window is rotated to begin with its oldest sample.
Ordered(r) ==
    IF r.count = Window /\ r.next # 0
    THEN [r EXCEPT !.window = [i \in 0 .. Window - 1 |-> r.window[(r.next + i) % Window]],
                   !.next = 0]
    ELSE r

Sampled(r) ==
    Ordered([r EXCEPT !.window = Aged(r), !.next = (r.next + 1) % Window,
                      !.count = IF r.count < Window THEN r.count + 1 ELSE r.count])

Succeeded(p, kind) ==
    /\ runtime' = [runtime EXCEPT ![p] = Sampled(runtime[p])]
    /\ origin' = [origin EXCEPT ![p] = task.snapshot[p]]
    /\ status' = [status EXCEPT
         ![p].failures = 0,
         ![p].offset = IF kind = "far" THEN "far" ELSE "near",
         ![p].health = IF kind = "slow" THEN "DEGRADED" ELSE "HEALTHY"]

-------------------------------------------------------------------------------
(* poll_all_peers *)

\* begin_poll, of one peer after the other: the name may not resolve, there
\* may be no socket or no time, or the request is on its way.
BeginPoll ==
    LET p == PeerKeys[task.next]
        last == task.next = PeerCount
    IN  /\ task.pc = "begin"
        /\ \/ /\ task.snapshot[p] = 0 /\ UNCHANGED <<active, status>>
           \/ /\ task.snapshot[p] # 0 /\ active' = active \cup {p} /\ UNCHANGED status
           \/ /\ task.snapshot[p] # 0 /\ Failed(p, "DEGRADED") /\ UNCHANGED active
        /\ task' = [task EXCEPT !.pc = IF last THEN "select" ELSE "begin",
                                !.next = IF last THEN 1 ELSE @ + 1]
        /\ UNCHANGED <<configVars, runtime, origin>>

\* Faulty variant: a peer whose time is over is counted, but kept waiting for.
TimedOutKept(p) == active

TimedOut(p) == active \ {p}

\* The deadline of a peer has passed.
Timeout(p) ==
    /\ task.pc = "select" /\ p \in active
    /\ active' = TimedOut(p) /\ Failed(p, "DEGRADED")
    /\ UNCHANGED <<configVars, task, runtime, origin>>

\* process_response.  The context is closed by whatever answer comes; then a
\* packet that is not of this request, a kiss of death, an answer with the
\* transmit time of the last sample, and a negative delay are refused.
Response(p) ==
    /\ task.pc = "select" /\ p \in active
    /\ active' = active \ {p}
    /\ \/ \E kind \in {"near", "far", "slow"} : Succeeded(p, kind)
       \/ /\ \E refused \in {"INVALID", "DEGRADED"} : Failed(p, refused)
          /\ UNCHANGED <<runtime, origin>>
    /\ UNCHANGED <<configVars, task>>

\* select fails: all the peers still waited for have failed.
SelectError ==
    /\ task.pc = "select" /\ active # {}
    /\ status' = [p \in Peers |->
         IF p \notin active THEN status[p]
         ELSE [status[p] EXCEPT !.failures = FailuresAfter(@),
                 !.health = IF status[p].failures + 1 >= Failures THEN "UNREACHABLE"
                            ELSE "DEGRADED"]]
    /\ active' = {}
    /\ UNCHANGED <<configVars, task, runtime, origin>>

PollDone ==
    /\ task.pc = "select" /\ active = {}
    /\ Goto("refresh")
    /\ UNCHANGED <<configVars, runtime, status, active, origin>>

-------------------------------------------------------------------------------
(* refresh_aggregate_health *)

\* Faulty variant: every peer that has a sample is compared.
ComparedAny(p) == runtime[p].count > 0

Compared(p) ==
    /\ status[p].server # 0 /\ runtime[p].count > 0
    /\ status[p].health \notin {"UNREACHABLE", "INVALID"}

Divergent ==
    \E p, q \in Peers : Compared(p) /\ Compared(q) /\ status[p].offset # status[q].offset

Refresh ==
    /\ task.pc = "refresh"
    /\ status' = [p \in Peers |-> IF Compared(p) /\ Divergent
                                  THEN [status[p] EXCEPT !.health = "DIVERGENT"]
                                  ELSE status[p]]
    /\ Goto("wait")
    /\ UNCHANGED <<configVars, runtime, active, origin>>

-------------------------------------------------------------------------------

MonitorTask ==
    \/ Sync \/ Wait \/ BeginPoll \/ PollDone \/ SelectError \/ Refresh
    \/ \E p \in Peers : Timeout(p) \/ Response(p)

Running == task.pc # "off"

\* device_config_set_ntp_peer_monitor as a whole.
Reconfigure ==
    /\ Running /\ Unlocked /\ sets < MaxChanges
    /\ config' \in {With(values) : values \in PeerSettings}
    /\ nvs' = config' /\ sets' = sets + 1
    /\ UNCHANGED <<candidate, pos, state, faults, torn, cut, monitorVars>>

Restart ==
    /\ PowerLoss
    /\ IF Running \/ state = "failed" THEN UNCHANGED faults ELSE Fault
    /\ task' = IF Running THEN Asleep ELSE task
    /\ runtime' = [p \in Peers |-> EmptyRuntime]
    /\ status' = [p \in Peers |-> EmptyStatus]
    /\ active' = {} /\ origin' = [p \in Peers |-> 0]

Next ==
    \/ ConfigTask /\ UNCHANGED monitorVars
    \/ ~Running /\ (Requests \/ PersistFails) /\ UNCHANGED monitorVars
    \/ Reconfigure
    \/ MonitorTask
    \/ Restart

\* The monitor's task has the lower priority: requests, which are few, may
\* delay it, and do not starve it of the mutex.
Fairness ==
    /\ WF_vars(ConfigTask /\ UNCHANGED monitorVars)
    /\ WF_vars(MonitorTask)
    /\ WF_vars(\E p \in Peers : Timeout(p))
    /\ WF_vars(Wait /\ Goto("sync"))

Spec == Init /\ [][Next]_vars /\ Fairness

-------------------------------------------------------------------------------
(* Properties. *)

\* The samples of a slot, and the health shown with its name, are those of the
\* server it shows, although the configuration changes between any two steps
\* of a poll (sync_config against the snapshot of poll_all_peers).
SamplesOfServer ==
    \A p \in Peers :
        runtime[p].count > 0 => origin[p] = status[p].server /\ origin[p] = runtime[p].server

\* The window holds the latest samples from the oldest to the newest, without
\* a gap, as the jitter of compute_rolling_stats needs them (update_success).
WindowInOrder ==
    \A p \in Peers :
        /\ runtime[p].count <= Window
        /\ \A i \in 0 .. runtime[p].count - 1 :
               runtime[p].window[i] = runtime[p].count - 1 - i

\* A peer that failed three times in a row is never shown as usable by
\* any later step; one shown healthy has just answered
\* (update_failure against refresh_aggregate_health).
HealthFollowsFailures ==
    \A p \in Peers :
        /\ status[p].failures = Failures =>
             status[p].health \in {"UNREACHABLE", "INVALID"}
        /\ status[p].health = "HEALTHY" => status[p].failures = 0 /\ runtime[p].count > 0

\* Whatever is configured is monitored in the end: no poll goes on for ever,
\* and a monitor that is switched off is switched on again (monitor_task).
Followed == \A p \in Peers : status[p].server = config[p]

ConfigFollowed == (Running /\ state = "up" /\ ~Followed) ~> (Followed \/ state # "up")

===============================================================================
