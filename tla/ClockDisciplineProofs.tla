------------------------- MODULE ClockDisciplineProofs -------------------------
(***************************************************************************)
(* Proofs about ClockDiscipline, for every value of its constants.  None   *)
(* of the safety properties is inductive alone: that a reference exists    *)
(* and is not ahead of the anchor is only known while there is a solution, *)
(* and that a serving state has one depends on the rejection count.  IInv  *)
(* joins them.                                                             *)
(***************************************************************************)
EXTENDS ClockDiscipline, TLAPS

\* The anchor lies in the past; a solution has a reference no later than its
\* anchor, fewer rejections than the limit, and a sample to its name.
IInv ==
    /\ TypeOK
    /\ last.capture <= now
    /\ solution_valid => /\ reference_valid
                         /\ reference.utc <= last.utc
                         /\ rejects < MaxConsecutiveRejects
    /\ state \in {"SYNCHRONIZED", "HOLDOVER"} => solution_valid

-------------------------------------------------------------------------------
\* Multiplying seconds into ticks keeps their order.
LEMMA TicksMonotone ==
    ASSUME NEW a \in Nat, NEW b \in Nat, a <= b
    PROVE  a * Second <= b * Second
BY ClockAssumption

\* The step a new anchor causes in the time served is its phase error.
LEMMA StepIsPhaseError ==
    ASSUME TypeOK, NEW sample \in Sample, last' = sample, now' = now
    PROVE  NtpTimestamp' - NtpTimestamp = PhaseError(sample)
<1>1. /\ last.utc \in Int /\ last.capture \in Int /\ now \in Int
      /\ sample.utc \in Int /\ sample.capture \in Int /\ Second \in Int
  BY ClockAssumption DEF TypeOK, Sample
<1>2. (sample.utc - last.utc) * Second = sample.utc * Second - last.utc * Second
  BY <1>1
<1>3. /\ sample.utc * Second \in Int
      /\ last.utc * Second \in Int
  BY <1>1
<1> QED
  BY <1>1, <1>2, <1>3 DEF NtpTimestamp, PhaseError

\* reject_sample_locked keeps what IInv says of the fields it assigns.
LEMMA RejectKeepsInv ==
    ASSUME IInv, solution_valid,
           NEW count \in 0 .. LockSamples, Reject(count)
    PROVE  /\ solution_valid' \in BOOLEAN
           /\ state' \in ClockStates
           /\ accepted' \in 0 .. LockSamples
           /\ rejects' \in 0 .. MaxConsecutiveRejects
           /\ solution_valid' => rejects' < MaxConsecutiveRejects
           /\ state' \in {"SYNCHRONIZED", "HOLDOVER"} => solution_valid'
<1>1. rejects + 1 \in 0 .. MaxConsecutiveRejects
  BY ClockAssumption DEF IInv, TypeOK
<1>2. CASE rejects + 1 >= MaxConsecutiveRejects
  <2>1. /\ solution_valid' = FALSE /\ state' = "ACQUIRING" /\ accepted' = 0
        /\ rejects' = rejects + 1
    BY <1>2 DEF Reject
  <2>2. 0 \in 0 .. LockSamples
    BY ClockAssumption
  <2> QED
    BY <1>1, <2>1, <2>2 DEF ClockStates
<1>3. CASE ~(rejects + 1 >= MaxConsecutiveRejects)
  <2>1. /\ solution_valid' = solution_valid /\ state' = state
        /\ accepted' = count /\ rejects' = rejects + 1
    BY <1>3 DEF Reject
  <2>2. rejects + 1 < MaxConsecutiveRejects
    BY <1>1, <1>3, ClockAssumption
  <2> QED
    BY <1>1, <2>1, <2>2 DEF IInv, TypeOK
<1> QED
  BY <1>2, <1>3

\* A sample that reaches the clock is well formed and not ahead of the timer.
LEMMA SampleTyped ==
    ASSUME now \in Nat, NEW sample \in Samples
    PROVE  sample \in Sample /\ sample.capture <= now
<1>1. /\ sample = [capture |-> sample.capture, utc |-> sample.utc]
      /\ sample.capture \in 1 .. now
      /\ sample.utc \in UtcSeconds
  BY DEF Samples
<1>2. sample.capture \in Nat /\ sample.capture <= now /\ sample.utc \in Nat
  BY <1>1, ClockAssumption
<1> QED
  BY <1>1, <1>2 DEF Sample

-------------------------------------------------------------------------------
LEMMA InitInv == Init => IInv
<1> SUFFICES ASSUME Init PROVE IInv
  OBVIOUS
<1>1. NoSample \in Sample /\ NoSample.capture = 0
  BY DEF NoSample, Sample
<1>2. 0 \in 0 .. LockSamples /\ 0 \in 0 .. MaxConsecutiveRejects
  BY ClockAssumption
<1>3. TypeOK
  BY <1>1, <1>2 DEF Init, TypeOK, ClockStates
<1> QED
  BY <1>1, <1>3 DEF Init, IInv

LEMMA FirstSampleInv ==
    ASSUME IInv, NEW sample \in Samples, FirstSample(sample)
    PROVE  IInv'
<1>1. sample \in Sample /\ sample.capture <= now
  BY SampleTyped DEF IInv, TypeOK
<1> QED
  BY <1>1, ClockAssumption DEF IInv, TypeOK, FirstSample, ClockStates, Sample

LEMMA RejectBackwardInv ==
    ASSUME IInv, NEW sample \in Samples, RejectBackward(sample)
    PROVE  IInv'
<1>1. solution_valid /\ Reject(accepted) /\ accepted \in 0 .. LockSamples
  BY DEF RejectBackward, IInv, TypeOK
<1>2. UNCHANGED <<now, last, reference_valid, reference>>
  BY DEF RejectBackward
<1> QED
  BY <1>1, <1>2, RejectKeepsInv DEF IInv, TypeOK

LEMMA ReanchorInv ==
    ASSUME IInv, NEW sample \in Samples, Reanchor(sample)
    PROVE  IInv'
<1>1. sample \in Sample /\ sample.capture <= now
  BY SampleTyped DEF IInv, TypeOK
<1>2. solution_valid /\ Reject(1) /\ 1 \in 0 .. LockSamples
  BY ClockAssumption DEF Reanchor
<1>3. UNCHANGED <<now, reference_valid, reference>> /\ last' = sample
  BY DEF Reanchor
<1>4. reference.utc <= sample.utc
  BY <1>1, <1>2 DEF Reanchor, Backward, IInv, TypeOK, Sample
<1> QED
  BY <1>1, <1>2, <1>3, <1>4, RejectKeepsInv DEF IInv, TypeOK

LEMMA AcceptSampleInv ==
    ASSUME IInv, NEW sample \in Samples, AcceptSample(sample)
    PROVE  IInv'
<1>1. sample \in Sample /\ sample.capture <= now
  BY SampleTyped DEF IInv, TypeOK
<1>2. AcceptedAfter \in 0 .. LockSamples
  BY ClockAssumption DEF AcceptedAfter, IInv, TypeOK
<1>3. sample.utc <= sample.utc
  BY <1>1 DEF Sample
<1> QED
  BY <1>1, <1>2, <1>3, ClockAssumption
     DEF IInv, TypeOK, AcceptSample, ClockStates

LEMMA PolicyInv ==
    ASSUME IInv,
           \/ \E ready \in BOOLEAN : UpdateReferenceState(ready)
           \/ EnforceHoldoverPolicy
    PROVE  IInv'
<1>1. CASE \E ready \in BOOLEAN : UpdateReferenceState(ready)
  BY <1>1 DEF IInv, TypeOK, UpdateReferenceState, ClockStates
<1>2. CASE EnforceHoldoverPolicy
  BY <1>2 DEF IInv, TypeOK, EnforceHoldoverPolicy, ClockStates
<1> QED
  BY <1>1, <1>2

LEMMA NextInv == IInv /\ [Next]_vars => IInv'
<1> SUFFICES ASSUME IInv, [Next]_vars PROVE IInv'
  OBVIOUS
<1>1. CASE Advance
  BY <1>1 DEF Advance, clock, IInv, TypeOK, Sample
<1>2. ASSUME NEW sample \in Samples, SubmitSample(sample) PROVE IInv'
  BY <1>2, FirstSampleInv, RejectBackwardInv, ReanchorInv, AcceptSampleInv
     DEF SubmitSample
<1>3. CASE \E ready \in BOOLEAN : UpdateReferenceState(ready)
  BY <1>3, PolicyInv
<1>4. CASE EnforceHoldoverPolicy
  BY <1>4, PolicyInv
<1>5. CASE UNCHANGED vars
  BY <1>5 DEF vars, clock, IInv, TypeOK
<1> QED
  BY <1>1, <1>2, <1>3, <1>4, <1>5 DEF Next

LEMMA Invariance == Spec => []IInv
BY InitInv, NextInv, PTL DEF Spec

-------------------------------------------------------------------------------
\* The fields of s_clock keep their types.
THEOREM TypeCorrect == Spec => []TypeOK
<1>1. IInv => TypeOK
  BY DEF IInv
<1> QED
  BY <1>1, Invariance, PTL

\* A reply never carries a reference later than its transmit time, although a
\* rejected sample moves the anchor without the reference.
THEOREM ReferenceOrder == Spec => []ReferenceNotAfterTransmit
<1>1. IInv => ReferenceNotAfterTransmit
  <2> SUFFICES ASSUME IInv, Serving
               PROVE  reference_valid /\ ReferenceTimestamp <= NtpTimestamp
    BY DEF ReferenceNotAfterTransmit
  <2>1. reference_valid /\ reference.utc <= last.utc
    BY DEF IInv, Serving
  <2>2. /\ reference.utc \in Nat /\ last.utc \in Nat
        /\ last.capture \in Nat /\ now \in Nat /\ last.capture <= now
    BY DEF IInv, TypeOK, Sample
  <2>3. reference.utc * Second <= last.utc * Second
    BY <2>1, <2>2, TicksMonotone
  <2>4. reference.utc * Second \in Int /\ last.utc * Second \in Int
    BY <2>2, ClockAssumption
  <2> QED
    BY <2>1, <2>2, <2>3, <2>4 DEF ReferenceTimestamp, NtpTimestamp
<1> QED
  BY <1>1, Invariance, PTL

\* No sequence of rejections leaves a solution standing, nor a serving state
\* without one.
THEOREM RejectsBound == Spec => []RejectsEndSolution
<1>1. IInv => RejectsEndSolution
  BY DEF IInv, RejectsEndSolution
<1> QED
  BY <1>1, Invariance, PTL

\* A serving clock takes a new reference only from a sample that agrees with
\* the time it serves, so that the replies step by AcceptableError at most.
THEOREM AgreementProof == Spec => ReferenceMovesByAgreement
<1>1. ASSUME IInv, [Next]_vars, Serving, reference' # reference
      PROVE  /\ NtpTimestamp' - NtpTimestamp
                  \in -AcceptableError .. AcceptableError
             /\ state' # "HOLDOVER"
  <2>1. ASSUME NEW sample \in Samples, SubmitSample(sample)
        PROVE  AcceptSample(sample)
    BY <1>1, <2>1
       DEF SubmitSample, FirstSample, RejectBackward, Reanchor, Serving
  <2>2. PICK sample \in Samples : AcceptSample(sample)
    BY <1>1, <2>1
       DEF Next, Advance, UpdateReferenceState, EnforceHoldoverPolicy,
           vars, clock
  <2>3. sample \in Sample /\ last' = sample /\ now' = now
    BY <1>1, <2>2, SampleTyped DEF AcceptSample, IInv, TypeOK
  <2>4. NtpTimestamp' - NtpTimestamp = PhaseError(sample)
    BY <1>1, <2>3, StepIsPhaseError DEF IInv
  <2> QED
    BY <2>2, <2>4 DEF AcceptSample, Acceptable
<1> QED
  BY <1>1, Invariance, PTL DEF Spec, ReferenceMovesByAgreement

\* Service opens with a full lock and in no other way.
THEOREM LockProof == Spec => ServiceStartsLocked
<1>1. ASSUME IInv, [Next]_vars, ~Serving, Serving'
      PROVE  /\ state' = "SYNCHRONIZED"
             /\ accepted' = LockSamples
             /\ reference' = last'
  <2>1. \E sample \in Samples : AcceptSample(sample)
    BY <1>1
       DEF Next, Advance, UpdateReferenceState, EnforceHoldoverPolicy,
           SubmitSample, FirstSample, RejectBackward, Reanchor, Reject,
           Serving, vars, clock
  <2>2. accepted' \in 0 .. LockSamples
    BY <1>1, NextInv DEF IInv, TypeOK
  <2> QED
    BY <1>1, <2>1, <2>2, ClockAssumption DEF AcceptSample, Serving
<1> QED
  BY <1>1, Invariance, PTL DEF Spec, ServiceStartsLocked
===============================================================================
