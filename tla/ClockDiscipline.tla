---------------------------- MODULE ClockDiscipline ----------------------------
(***************************************************************************)
(* The disciplined clock of src/main/clock_discipline.c: the context       *)
(* s_clock, the function that feeds it samples                             *)
(* (clock_discipline_submit_sample) and the two policies its monitor task  *)
(* runs after every wait (update_reference_state and                       *)
(* enforce_holdover_policy).  Every one of them holds s_clock_mutex from   *)
(* its first read to its last write, so each is one action here.           *)
(*                                                                         *)
(* Samples arrive in any order: this module does not say how a PPS edge    *)
(* meets its UTC second, which is the subject of ClockMonitor.             *)
(*                                                                         *)
(* Abstractions.  Time is counted in ticks of the capture timer, Second of *)
(* them per UTC second.  anchor_* and last_sample_* are assigned together  *)
(* in every branch, so `last' stands for both.  frequency_ppm is clamped   *)
(* to 200 ppm, which moves a prediction by less than AcceptableError over  *)
(* the longest holdover, so predictions are made at the nominal rate.      *)
(* accepted_samples is only ever compared with the lock threshold, so it   *)
(* saturates there.  The quantization error is below 50 us: its guard in   *)
(* submit_sample repeats the one of wait_for_gnss_sample, the only         *)
(* caller's, and is not taken.                                             *)
(***************************************************************************)
EXTENDS Integers

CONSTANTS
    Second,                 \* capture-timer ticks in one second
    LockSamples,            \* APP_CLOCK_LOCK_SAMPLES
    HoldoverMax,            \* APP_HOLDOVER_MAX_SECONDS
    MaxConsecutiveRejects,  \* APP_CLOCK_MAX_CONSECUTIVE_REJECTS
    AcceptableError,        \* APP_CLOCK_MAX_ACCEPTABLE_ERROR_NS, in ticks
    UtcSeconds,             \* the UTC seconds a sample may carry
    MaxTime                 \* bound of the model: the last tick considered

ASSUME ClockAssumption ==
    /\ Second \in Nat \ {0}
    /\ LockSamples \in Nat \ {0, 1}
    /\ HoldoverMax \in Nat \ {0}
    /\ MaxConsecutiveRejects \in Nat \ {0}
    /\ AcceptableError \in Nat
    /\ UtcSeconds \subseteq Nat \ {0}
    /\ MaxTime \in Nat

VARIABLES
    now,               \* pps_service_get_monotonic_us
    solution_valid,
    state,
    last,              \* last_sample_* and anchor_*
    reference_valid,   \* reference_timestamp_valid
    reference,         \* reference_capture_us, reference_utc_seconds
    accepted,          \* accepted_samples, saturating at LockSamples
    rejects            \* consecutive_rejects

clock == <<solution_valid, state, last, reference_valid, reference, accepted,
           rejects>>
vars == <<now, clock>>

ClockStates == {"UNSYNCHRONIZED", "ACQUIRING", "SYNCHRONIZED", "HOLDOVER",
                "FAIL_CLOSED"}

Sample == [capture : Nat, utc : Nat]

NoSample == [capture |-> 0, utc |-> 0]

-------------------------------------------------------------------------------
(* What the clock serves. *)

\* The condition under which both timestamp functions answer.
Serving == solution_valid /\ state \in {"SYNCHRONIZED", "HOLDOVER"}

\* clock_discipline_get_ntp_timestamp, in ticks.
NtpTimestamp == last.utc * Second + (now - last.capture)

\* clock_discipline_get_reference_timestamp, in ticks.
ReferenceTimestamp == reference.utc * Second

HoldoverSeconds ==
    IF solution_valid /\ now >= last.capture
    THEN (now - last.capture) \div Second
    ELSE 0

-------------------------------------------------------------------------------
Init ==
    /\ now = 0
    /\ solution_valid = FALSE
    /\ state = "UNSYNCHRONIZED"
    /\ last = NoSample
    /\ reference_valid = FALSE
    /\ reference = NoSample
    /\ accepted = 0
    /\ rejects = 0

Advance ==
    /\ now < MaxTime
    /\ now' = now + 1
    /\ UNCHANGED clock

-------------------------------------------------------------------------------
(* clock_discipline_submit_sample: one action per outcome. *)

\* Faulty variant: the limit is passed before it counts.
RejectTooLate(count) ==
    /\ rejects' = rejects + 1
    /\ IF rejects + 1 > MaxConsecutiveRejects
       THEN /\ solution_valid' = FALSE
            /\ state' = "ACQUIRING"
            /\ accepted' = 0
       ELSE /\ accepted' = count
            /\ UNCHANGED <<solution_valid, state>>

\* reject_sample_locked, entered with `count' accepted samples.
Reject(count) ==
    /\ rejects' = rejects + 1
    /\ IF rejects + 1 >= MaxConsecutiveRejects
       THEN /\ solution_valid' = FALSE
            /\ state' = "ACQUIRING"
            /\ accepted' = 0
       ELSE /\ accepted' = count
            /\ UNCHANGED <<solution_valid, state>>

FirstSample(sample) ==
    /\ ~solution_valid
    /\ solution_valid' = TRUE
    /\ state' = "ACQUIRING"
    /\ last' = sample
    /\ reference_valid' = TRUE
    /\ reference' = sample
    /\ accepted' = 1
    /\ rejects' = 0
    /\ UNCHANGED now

\* Faulty variant: only the capture has to advance.
BackwardCapture(sample) == sample.capture <= last.capture

Backward(sample) ==
    \/ sample.capture <= last.capture
    \/ sample.utc <= last.utc

RejectBackward(sample) ==
    /\ solution_valid
    /\ Backward(sample)
    /\ Reject(accepted)
    /\ UNCHANGED <<now, last, reference_valid, reference>>

PhaseError(sample) ==
    (sample.utc - last.utc) * Second - (sample.capture - last.capture)

\* Faulty variant: the error is compared without its absolute value.
AcceptableBelow(sample) == PhaseError(sample) <= AcceptableError

Acceptable(sample) ==
    PhaseError(sample) \in -AcceptableError .. AcceptableError

\* Faulty variant: the samples accepted before the jump still count.
ReanchorKeepsCount(sample) ==
    /\ solution_valid
    /\ ~Backward(sample)
    /\ ~Acceptable(sample)
    /\ last' = sample
    /\ Reject(accepted)
    /\ UNCHANGED <<now, reference_valid, reference>>

\* A phase error over the limit: the clock moves to the sample it rejects.
Reanchor(sample) ==
    /\ solution_valid
    /\ ~Backward(sample)
    /\ ~Acceptable(sample)
    /\ last' = sample
    /\ Reject(1)
    /\ UNCHANGED <<now, reference_valid, reference>>

AcceptedAfter == IF accepted < LockSamples THEN accepted + 1 ELSE accepted

AcceptSample(sample) ==
    /\ solution_valid
    /\ ~Backward(sample)
    /\ Acceptable(sample)
    /\ last' = sample
    /\ reference_valid' = TRUE
    /\ reference' = sample
    /\ accepted' = AcceptedAfter
    /\ rejects' = 0
    /\ state' = IF accepted' >= LockSamples THEN "SYNCHRONIZED" ELSE "ACQUIRING"
    /\ UNCHANGED <<now, solution_valid>>

SubmitSample(sample) ==
    \/ FirstSample(sample)
    \/ RejectBackward(sample)
    \/ Reanchor(sample)
    \/ AcceptSample(sample)

-------------------------------------------------------------------------------
(* The policies of the monitor task. *)

\* `ready': GNSS time, leap second and TIM-TP are valid and PPS is usable.
UpdateReferenceState(ready) ==
    /\ state' = IF solution_valid THEN state
                ELSE IF ready THEN "ACQUIRING" ELSE "UNSYNCHRONIZED"
    /\ UNCHANGED <<now, solution_valid, last, reference_valid, reference,
                   accepted, rejects>>

\* Faulty variant: any clock with a solution drifts into holdover.
HoldoverFromAnyState ==
    /\ IF HoldoverSeconds > HoldoverMax
       THEN /\ solution_valid' = FALSE
            /\ state' = "FAIL_CLOSED"
       ELSE /\ state' = IF HoldoverSeconds > 0 THEN "HOLDOVER" ELSE state
            /\ UNCHANGED solution_valid
    /\ UNCHANGED <<now, last, reference_valid, reference, accepted, rejects>>

EnforceHoldoverPolicy ==
    /\ IF HoldoverSeconds > HoldoverMax
       THEN /\ solution_valid' = FALSE
            /\ state' = "FAIL_CLOSED"
       ELSE /\ state' = IF HoldoverSeconds > 0 /\ state = "SYNCHRONIZED"
                        THEN "HOLDOVER" ELSE state
            /\ UNCHANGED solution_valid
    /\ UNCHANGED <<now, last, reference_valid, reference, accepted, rejects>>

-------------------------------------------------------------------------------
\* Captures are read from the running timer, so none lies ahead of it.
Samples == [capture : 1 .. now, utc : UtcSeconds]

Next ==
    \/ Advance
    \/ \E sample \in Samples : SubmitSample(sample)
    \/ \E ready \in BOOLEAN : UpdateReferenceState(ready)
    \/ EnforceHoldoverPolicy

Spec == Init /\ [][Next]_vars

-------------------------------------------------------------------------------
(* Properties. *)

\* Type correctness of s_clock.
TypeOK ==
    /\ now \in Nat
    /\ solution_valid \in BOOLEAN
    /\ state \in ClockStates
    /\ last \in Sample
    /\ reference_valid \in BOOLEAN
    /\ reference \in Sample
    /\ accepted \in 0 .. LockSamples
    /\ rejects \in 0 .. MaxConsecutiveRejects

\* While timestamps are served, a reply's Reference Timestamp is present and
\* never later than its transmit time, although a rejected sample moves the
\* anchor and leaves the reference behind (submit_sample, get_*_timestamp).
ReferenceNotAfterTransmit ==
    Serving => reference_valid /\ ReferenceTimestamp <= NtpTimestamp

\* A solution does not outlive MaxConsecutiveRejects rejections in a row, on
\* whichever path they happened (reject_sample_locked), and a state that holds
\* no solution never answers a client.
RejectsEndSolution ==
    /\ solution_valid => rejects < MaxConsecutiveRejects
    /\ state \in {"SYNCHRONIZED", "HOLDOVER"} => solution_valid

\* clock_discipline.h: the reference "remains fixed during holdover".  When a
\* serving clock takes a new reference, the sample agreed with the time being
\* served: replies before and after it differ by AcceptableError at most, and
\* the clock has left holdover (submit_sample, enforce_holdover_policy).
ReferenceMovesByAgreement ==
    [][Serving /\ reference' # reference =>
         /\ NtpTimestamp' - NtpTimestamp \in -AcceptableError .. AcceptableError
         /\ state' # "HOLDOVER"]_vars

\* Service is regained only by an accepted sample that completes LockSamples of
\* them: no order of rejects, holdover expiry, state refresh and reacquisition
\* opens it in any other way, and never straight into holdover.
ServiceStartsLocked ==
    [][~Serving /\ Serving' =>
         /\ state' = "SYNCHRONIZED"
         /\ accepted' = LockSamples
         /\ reference' = last']_vars

\* README.md: "only accepted timing samples update the disciplined clock".  A
\* sample counted as rejected leaves the time being served as it was.
OnlyAcceptedSamplesUpdateClock ==
    [][Serving /\ Serving' /\ rejects' > rejects =>
         NtpTimestamp' = NtpTimestamp]_vars
===============================================================================
