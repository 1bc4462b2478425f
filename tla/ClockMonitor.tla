------------------------------ MODULE ClockMonitor ------------------------------
(***************************************************************************)
(* The task that feeds the clock: clock_monitor_task and                   *)
(* wait_for_gnss_sample of src/main/clock_discipline.c, with the PPS       *)
(* capture queue of src/main/pps_service.c on one side and the TIM-TP      *)
(* mailbox of src/main/gnss_service.c on the other.                        *)
(*                                                                         *)
(* A rising PPS edge latches the timer and its ISR queues the capture; the *)
(* task pops it and then waits, for a bounded time, until the mailbox      *)
(* holds a TIM-TP record other than the last one it used.  The receiver    *)
(* describes the NEXT pulse in TIM-TP, between two edges (UBX protocol),   *)
(* and any such message may be lost.  Nothing but this order ties a        *)
(* capture to its second.                                                  *)
(*                                                                         *)
(* The capture timer and UTC share their origin, so an edge at tick t is   *)
(* the one of UTC second t / Second, and a pairing is right exactly when   *)
(* capture = utc * Second.  Time passes only while the task is blocked: it *)
(* runs at priority 15 and its own steps are far shorter than a tick.      *)
(***************************************************************************)
EXTENDS ClockDiscipline, Sequences

CONSTANTS
    QueueLength,     \* APP_PPS_EVENT_QUEUE_LENGTH
    CaptureWait,     \* the 250 ms of pps_service_wait_for_capture, in ticks
    TimTpWait,       \* CLOCK_TIM_TP_WAIT_TIMEOUT_MS
    TimTpMaxAge,     \* CLOCK_TIM_TP_MAX_AGE_US
    GnssTimeout,     \* APP_GNSS_TIMEOUT_SECONDS
    PpsTimeout,      \* APP_PPS_TIMEOUT_MS
    BootDelay,       \* bound of the model: latest tick the task starts at
    TimTpLatest,     \* most ticks after an edge the receiver sends TIM-TP at
    FaultsUntil      \* bound of the model: last tick at which messages or
                     \* pulses are lost and the receiver's time is not valid

ASSUME MonitorAssumption ==
    /\ {QueueLength, CaptureWait, TimTpWait} \subseteq Nat \ {0}
    /\ {TimTpMaxAge, GnssTimeout, PpsTimeout, BootDelay, FaultsUntil}
         \subseteq Nat
    /\ TimTpLatest \in 1 .. Second - 1
    /\ 1 .. MaxTime \div Second + 1 \subseteq UtcSeconds

VARIABLES
    captures,          \* s_capture_queue: capture times of PPS edges
    previous_capture,  \* s_previous_capture_us, s_status.last_capture_us
    interval_valid,    \* s_status.interval_valid
    gnss_valid,        \* UTC from a PVT with a fix, fully resolved, leap known
    tim_tp,            \* last TIM-TP record: second it describes, arrival, qErr
    last_tim_tp,       \* s_last_tim_tp_*: second of the record last used
    pc,                \* where clock_monitor_task is
    deadline           \* tick at which its current wait gives up

pps == <<captures, previous_capture, interval_valid>>
gnss == <<gnss_valid, tim_tp>>
task == <<last_tim_tp, pc, deadline>>
monitorVars == <<vars, pps, gnss, task>>

NoTimTp == [second |-> 0, arrival |-> 0, qerr_ok |-> FALSE]

MonitorInit ==
    /\ Init
    /\ captures = <<>>
    /\ previous_capture = 0
    /\ interval_valid = FALSE
    /\ gnss_valid = FALSE
    /\ tim_tp = NoTimTp
    /\ last_tim_tp = 0
    /\ pc = "init"
    /\ deadline = 0

-------------------------------------------------------------------------------
(* What the task reads. *)

\* pps_status_usable; the period window and the jitter limit coincide at the
\* granularity of a tick.
\* Faulty variant: the capture may be of any age.
UsableAnyAge(valid, capture) == valid

Usable(valid, capture) == valid /\ now - capture <= PpsTimeout

PpsUsable == Usable(interval_valid, previous_capture)

TimTpAge == now - tim_tp.arrival

\* timing_pulse_valid, cleared by gnss_update_staleness.
TimingPulseValid ==
    /\ tim_tp # NoTimTp
    /\ TimTpAge <= GnssTimeout

GnssReady == gnss_valid /\ TimingPulseValid

\* The conditions of wait_for_gnss_sample, with tim_tp_is_new.
RecordAvailable ==
    /\ GnssReady
    /\ TimTpAge <= TimTpMaxAge
    /\ tim_tp.second # last_tim_tp

-------------------------------------------------------------------------------
(* The receiver and the interrupt. *)

NextPulse == now \div Second + 1

Faulty == now <= FaultsUntil

\* handle_ubx_tim_tp: a record for the coming pulse arrives between two edges.
\* Its quantization error may exceed APP_CLOCK_MAX_TIMING_QERR_NS.
HandleTimTp(qerr_ok) ==
    /\ qerr_ok \/ Faulty
    /\ now % Second \in 1 .. TimTpLatest
    /\ tim_tp.second # NextPulse
    /\ tim_tp' = [second |-> NextPulse, arrival |-> now, qerr_ok |-> qerr_ok]
    /\ UNCHANGED <<vars, pps, gnss_valid, task>>

\* handle_ubx_nav_pvt and handle_ubx_nav_timels: the receiver's time becomes
\* usable or stops being usable.
HandleNavPvt ==
    /\ gnss_valid => Faulty
    /\ gnss_valid' = ~gnss_valid
    /\ UNCHANGED <<vars, pps, tim_tp, task>>

\* pps_gpio_isr: a full queue drops the new capture.
PpsEdge(capture) ==
    captures' = IF Len(captures) < QueueLength
                THEN Append(captures, capture) ELSE captures

Blocked ==
    \/ pc = "init" /\ now < BootDelay
    \/ pc = "capture" /\ captures = <<>> /\ now < deadline
    \/ pc = "gnss" /\ ~RecordAvailable /\ now < deadline

\* Time passes; on a whole second the pulse comes, unless it is missing.
Tick ==
    LET edge == (now + 1) % Second = 0
        due  == now % Second = TimTpLatest
    IN  /\ Blocked
        /\ Advance
        /\ Faulty \/ (gnss_valid /\ (due => tim_tp.second = NextPulse))
        /\ \/ edge /\ PpsEdge(now + 1)
           \/ (edge => Faulty) /\ UNCHANGED captures
        /\ UNCHANGED <<previous_capture, interval_valid, gnss, task>>

-------------------------------------------------------------------------------
(* clock_monitor_task. *)

\* clock_discipline_init, after gnss_service_init configured the receiver.
StartTask ==
    /\ pc = "init"
    /\ pc' = "capture"
    /\ deadline' = now + CaptureWait
    /\ UNCHANGED <<vars, pps, gnss, last_tim_tp>>

\* A valid interval is one second long; the first capture has none.
IntervalValid(capture) ==
    previous_capture # 0 /\ capture - previous_capture = Second

\* Faulty variant: an edge out of step is dropped before it is remembered.
TakeCaptureInStep ==
    /\ pc = "capture"
    /\ captures # <<>>
    /\ captures' = Tail(captures)
    /\ interval_valid' = IntervalValid(Head(captures))
    /\ previous_capture' = IF interval_valid' \/ previous_capture = 0
                           THEN Head(captures) ELSE previous_capture
    /\ IF Usable(interval_valid', previous_capture')
       THEN pc' = "gnss" /\ deadline' = now + TimTpWait
       ELSE pc' = "update" /\ UNCHANGED deadline
    /\ UNCHANGED <<vars, gnss, last_tim_tp>>

\* pps_service_wait_for_capture returns an event.
TakeCapture ==
    /\ pc = "capture"
    /\ captures # <<>>
    /\ captures' = Tail(captures)
    /\ previous_capture' = Head(captures)
    /\ interval_valid' = IntervalValid(Head(captures))
    /\ IF Usable(interval_valid', previous_capture')
       THEN pc' = "gnss" /\ deadline' = now + TimTpWait
       ELSE pc' = "update" /\ UNCHANGED deadline
    /\ UNCHANGED <<vars, gnss, last_tim_tp>>

\* Faulty variant: with no pulse the loop starts over at once.
CaptureTimeoutContinues ==
    /\ pc = "capture"
    /\ captures = <<>>
    /\ now >= deadline
    /\ deadline' = now + CaptureWait
    /\ UNCHANGED <<vars, pps, gnss, last_tim_tp, pc>>

CaptureTimeout ==
    /\ pc = "capture"
    /\ captures = <<>>
    /\ now >= deadline
    /\ pc' = "update"
    /\ UNCHANGED <<vars, pps, gnss, last_tim_tp, deadline>>

\* The sample is submitted; the record counts as used only when it is accepted.
Submit(sample) ==
    \/ /\ FirstSample(sample) \/ AcceptSample(sample)
       /\ last_tim_tp' = sample.utc
    \/ /\ RejectBackward(sample) \/ Reanchor(sample)
       /\ UNCHANGED last_tim_tp

TakeTimTp ==
    /\ pc = "gnss"
    /\ now < deadline
    /\ RecordAvailable
    /\ tim_tp.qerr_ok
    /\ Submit([capture |-> previous_capture, utc |-> tim_tp.second])
    /\ pc' = "update"
    /\ UNCHANGED <<pps, gnss, deadline>>

\* The wait ends with no sample: in time out, or on a refused qErr.
NoTimTpSample ==
    /\ pc = "gnss"
    /\ now >= deadline \/ (RecordAvailable /\ ~tim_tp.qerr_ok)
    /\ pc' = "update"
    /\ UNCHANGED <<vars, pps, gnss, last_tim_tp, deadline>>

\* Faulty variant: the state is refreshed although there is a solution.
UpdateAlways ==
    /\ pc = "update"
    /\ state' = IF GnssReady /\ PpsUsable THEN "ACQUIRING" ELSE "UNSYNCHRONIZED"
    /\ pc' = "enforce"
    /\ UNCHANGED <<now, solution_valid, last, reference_valid, reference,
                   accepted, rejects, pps, gnss, last_tim_tp, deadline>>

Update ==
    /\ pc = "update"
    /\ UpdateReferenceState(GnssReady /\ PpsUsable)
    /\ pc' = "enforce"
    /\ UNCHANGED <<pps, gnss, last_tim_tp, deadline>>

Enforce ==
    /\ pc = "enforce"
    /\ EnforceHoldoverPolicy
    /\ pc' = "capture"
    /\ deadline' = now + CaptureWait
    /\ UNCHANGED <<pps, gnss, last_tim_tp>>

\* Bound of the model: nothing is considered after MaxTime.
Horizon == now = MaxTime /\ UNCHANGED monitorVars

MonitorNext ==
    \/ Tick
    \/ \E qerr_ok \in BOOLEAN : HandleTimTp(qerr_ok)
    \/ HandleNavPvt
    \/ StartTask
    \/ TakeCapture \/ CaptureTimeout
    \/ TakeTimTp \/ NoTimTpSample
    \/ Update \/ Enforce
    \/ Horizon

MonitorSpec == MonitorInit /\ [][MonitorNext]_monitorVars
-------------------------------------------------------------------------------
(* Properties. *)

\* Type correctness of the monitor's own state.
MonitorTypeOK ==
    /\ TypeOK
    /\ captures \in Seq(Nat) /\ Len(captures) <= QueueLength
    /\ previous_capture \in Nat
    /\ interval_valid \in BOOLEAN
    /\ gnss_valid \in BOOLEAN
    /\ tim_tp \in [second : Nat, arrival : Nat, qerr_ok : BOOLEAN]
    /\ last_tim_tp \in Nat
    /\ pc \in {"init", "capture", "gnss", "update", "enforce"}
    /\ deadline \in Nat

\* The monitor drives the clock only by the operations of ClockDiscipline.
ImplementsClock == Spec

\* The timestamp functions never look at the holdover limit: they rely on the
\* task to come round and close the service.  However its waits fall, a client
\* is answered for less than one loop beyond the last second allowed.
ServiceEndsAfterHoldover ==
    Serving => now - last.capture
                 < (HoldoverMax + 1) * Second + CaptureWait + TimTpWait

\* A record is taken from the mailbox without a look at the capture's own time.
\* Whatever is lost, late or backlogged, the second given to a capture is at
\* most one behind, and ahead by no more than the age at which a capture is
\* refused and the wait that follows (pps_status_usable, wait_for_gnss_sample).
PairingErrorBounded ==
    solution_valid =>
        last.utc * Second - last.capture
          \in -Second .. PpsTimeout + TimTpWait + Second - 2

\* Once pulses and messages come regularly, with the receiver's time valid, the
\* clock is back in service within RecoveryTime, whatever it went through.
RecoveryTime == (MaxConsecutiveRejects + LockSamples) * Second

RecoversInTime ==
    now >= FaultsUntil + RecoveryTime => state = "SYNCHRONIZED"

\* clock_discipline.h: a sample is submitted "only after a PPS edge has been
\* correlated to a valid GNSS UTC second", that is, to its own second.
EdgeCorrelatedToItsSecond ==
    state = "SYNCHRONIZED" => last.utc * Second = last.capture

\* Kconfig.projbuild: "Consecutive valid PPS samples required for lock".
\* reject_sample_locked leaves accepted_samples alone, yet a rejection during
\* acquisition never finds more than the one sample it starts again from.
LockSamplesConsecutive ==
    [][rejects' > rejects /\ state = "ACQUIRING" => accepted' <= 1]_monitorVars
===============================================================================
