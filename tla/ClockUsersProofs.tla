---------------------------- MODULE ClockUsersProofs ----------------------------
(***************************************************************************)
(* Proofs about the two tasks that use the clock, for every value of their *)
(* constants.                                                              *)
(*                                                                         *)
(* ClockMonitor: its task drives the clock only through the operations of  *)
(* ClockDiscipline, so that whatever ClockDisciplineProofs shows holds of  *)
(* the monitored clock.  MonitorIInv says what a capture, a record and a   *)
(* wait can be; the bounds on the end of service and on the pairing error, *)
(* the order of captures and records (OrderInv) and, where nothing is      *)
(* lost, their correlation (CorrelationInv) are inductive relative to it.  *)
(*                                                                         *)
(* NtpReply: the server task only reads the clock, so the clock's theorems *)
(* hold beside it.  What a reply carries is known relative to the clock it *)
(* was read from for as long as that clock is Kept: a solution lost and    *)
(* found again within the request would tie the next read to another time  *)
(* scale, and does not serve before the request is over.                   *)
(***************************************************************************)
EXTENDS ClockMonitor, NtpReply, ClockDisciplineProofs, SequenceTheorems

-------------------------------------------------------------------------------
(* The monitor task. *)

\* The times of edges until `upto': whole seconds of the capture timer.
Edge(t, upto) == t \in Nat /\ t > 0 /\ t <= upto /\ t % Second = 0

\* Captures are times of edges.
PpsInv ==
    /\ \A i \in 1 .. Len(captures) : Edge(captures[i], now)
    /\ previous_capture # 0 => Edge(previous_capture, now)
    /\ interval_valid => previous_capture # 0

\* A record tells the second of the edge that followed its arrival.
TimTpInv ==
    tim_tp # NoTimTp =>
      /\ tim_tp.second \in 1 .. MaxTime \div Second + 1
      /\ tim_tp.arrival <= now
      /\ tim_tp.second * Second \in tim_tp.arrival + 1 .. tim_tp.arrival + Second - 1

\* A wait has a bound, which for a capture in hand is that of its age.
WaitInv ==
    /\ now <= MaxTime
    /\ pc \in {"capture", "gnss"} => now <= deadline
    /\ pc = "gnss" => /\ previous_capture # 0
                      /\ deadline - previous_capture <= PpsTimeout + TimTpWait

MonitorIInv ==
    /\ IInv /\ MonitorTypeOK
    /\ PpsInv /\ TimTpInv /\ WaitInv


-------------------------------------------------------------------------------

\* Ticks and whole seconds.
LEMMA WholeSeconds ==
    ASSUME NEW n \in Nat
    PROVE  /\ n \div Second \in Nat /\ n % Second \in 0 .. Second - 1
           /\ n = (n \div Second) * Second + (n % Second)
           /\ \A m \in Nat : n <= m => n \div Second <= m \div Second
           /\ n % Second # 0 =>
                (n \div Second + 1) * Second \in n + 1 .. n + Second - 1
<1>1. Second \in Nat \ {0}
  BY ClockAssumption
<1>2. n \div Second \in Nat /\ n % Second \in 0 .. Second - 1
  BY <1>1
<1>3. n = (n \div Second) * Second + (n % Second)
  BY <1>1
<1>4. ASSUME NEW m \in Nat, n <= m PROVE n \div Second <= m \div Second
  BY <1>1, <1>4
<1>5. n % Second # 0 => (n \div Second + 1) * Second \in n + 1 .. n + Second - 1
  BY <1>1
<1> QED
  BY <1>2, <1>3, <1>4, <1>5

\* A usable record pairs the capture with a second the clock may be given.
LEMMA PairingIsSample ==
    ASSUME MonitorIInv, TakeTimTp
    PROVE  [capture |-> previous_capture, utc |-> tim_tp.second] \in Samples
<1>1. previous_capture \in 1 .. now
  BY DEF MonitorIInv, IInv, TypeOK, WaitInv, PpsInv, TakeTimTp, Edge
<1>2. tim_tp.second \in UtcSeconds
  BY MonitorAssumption DEF MonitorIInv, TimTpInv, TakeTimTp, RecordAvailable, GnssReady,
     TimingPulseValid
<1> QED
  BY <1>1, <1>2 DEF Samples

\* Every step of the monitor is one of the clock, or leaves it alone.
LEMMA StepOfClock == ASSUME MonitorIInv, [MonitorNext]_monitorVars PROVE [Next]_vars
<1>1. CASE Tick
  BY <1>1 DEF Tick, Next
<1>2. CASE TakeTimTp
  <2> DEFINE sample == [capture |-> previous_capture, utc |-> tim_tp.second]
  <2>1. sample \in Samples
    BY <1>2, PairingIsSample
  <2>2. SubmitSample(sample)
    BY <1>2 DEF TakeTimTp, Submit, SubmitSample
  <2> HIDE DEF sample
  <2> QED
    BY <2>1, <2>2 DEF Next
<1>3. CASE Update
  <2>1. (GnssReady /\ PpsUsable) \in BOOLEAN
    BY DEF GnssReady, TimingPulseValid
  <2>2. UpdateReferenceState(GnssReady /\ PpsUsable)
    BY <1>3 DEF Update
  <2> QED
    BY <2>1, <2>2 DEF Next
<1>4. CASE Enforce
  BY <1>4 DEF Enforce, Next
<1>5. ASSUME \/ \E qerr_ok \in BOOLEAN : HandleTimTp(qerr_ok)
             \/ HandleNavPvt \/ StartTask \/ TakeCapture \/ CaptureTimeout
             \/ NoTimTpSample \/ Horizon \/ UNCHANGED monitorVars
      PROVE  UNCHANGED vars
  BY <1>5 DEF HandleTimTp, HandleNavPvt, StartTask, TakeCapture, CaptureTimeout,
     NoTimTpSample, Horizon, monitorVars, vars, clock
<1> QED
  BY <1>1, <1>2, <1>3, <1>4, <1>5 DEF MonitorNext

\* The clock's own invariant is kept by its steps.
LEMMA ClockInv == ASSUME MonitorIInv, [MonitorNext]_monitorVars PROVE IInv'
BY StepOfClock, NextInv DEF MonitorIInv

\* The monitor's invariant, one lemma for each step that matters to it.
LEMMA StartInv == MonitorInit => MonitorIInv
<1> SUFFICES ASSUME MonitorInit PROVE MonitorIInv
  OBVIOUS
<1>1. IInv
  BY InitInv DEF MonitorInit
<1>2. captures \in Seq(Nat) /\ Len(captures) = 0
  BY DEF MonitorInit
<1>3. MonitorTypeOK
  <2>1. Len(captures) <= QueueLength
    BY <1>2, MonitorAssumption
  <2>2. NoTimTp \in [second : Nat, arrival : Nat, qerr_ok : BOOLEAN]
    BY DEF NoTimTp
  <2> QED
    BY <1>1, <1>2, <2>1, <2>2 DEF MonitorInit, MonitorTypeOK, IInv
<1>4. PpsInv /\ TimTpInv /\ WaitInv
  BY <1>2, ClockAssumption DEF MonitorInit, Init, PpsInv, TimTpInv, WaitInv
<1> QED
  BY <1>1, <1>3, <1>4 DEF MonitorIInv

LEMMA TickInv == ASSUME MonitorIInv, Tick PROVE MonitorIInv'
<1>1. IInv' /\ TypeOK'
  BY ClockInv DEF MonitorNext, IInv
<1>2. /\ now \in Nat /\ now' = now + 1 /\ now < MaxTime /\ MaxTime \in Nat
      /\ captures \in Seq(Nat) /\ Len(captures) <= QueueLength
      /\ UNCHANGED <<previous_capture, interval_valid, gnss_valid, tim_tp, last_tim_tp, pc,
                     deadline>>
  BY ClockAssumption DEF Tick, Advance, MonitorIInv, MonitorTypeOK, TypeOK, gnss, task
<1>3. ASSUME NEW t, Edge(t, now) PROVE Edge(t, now')
  BY <1>2, <1>3 DEF Edge
<1>4. /\ captures' \in Seq(Nat) /\ Len(captures') <= QueueLength
      /\ \A i \in 1 .. Len(captures') : Edge(captures'[i], now')
  <2>1. CASE captures' = captures
    BY <1>2, <1>3, <2>1 DEF MonitorIInv, PpsInv
  <2>2. CASE /\ captures' = Append(captures, now + 1) /\ (now + 1) % Second = 0
             /\ Len(captures) < QueueLength
    <3>1. /\ captures' \in Seq(Nat) /\ Len(captures') = Len(captures) + 1
          /\ captures'[Len(captures) + 1] = now + 1
          /\ \A i \in 1 .. Len(captures) : captures'[i] = captures[i]
      BY <1>2, <2>2, AppendProperties
    <3>2. Edge(now + 1, now')
      BY <1>2, <2>2 DEF Edge
    <3> QED
      BY <1>2, <1>3, <2>2, <3>1, <3>2, MonitorAssumption DEF MonitorIInv, PpsInv
  <2> QED
    BY <2>1, <2>2 DEF Tick, PpsEdge
<1>5. MonitorTypeOK'
  BY <1>1, <1>2, <1>4 DEF MonitorIInv, MonitorTypeOK
<1>6. PpsInv'
  BY <1>2, <1>3, <1>4 DEF MonitorIInv, PpsInv
<1>7. TimTpInv'
  BY <1>2 DEF MonitorIInv, TimTpInv, MonitorTypeOK
<1>8. WaitInv'
  BY <1>2 DEF MonitorIInv, WaitInv, MonitorTypeOK, Tick, Blocked
<1> QED
  BY <1>1, <1>5, <1>6, <1>7, <1>8 DEF MonitorIInv

LEMMA HandleTimTpInv ==
    ASSUME MonitorIInv, NEW qerr_ok \in BOOLEAN, HandleTimTp(qerr_ok) PROVE MonitorIInv'
<1>1. IInv'
  BY ClockInv DEF MonitorNext
<1>2. /\ now \in Nat /\ now' = now /\ now <= MaxTime /\ MaxTime \in Nat
      /\ tim_tp' = [second |-> NextPulse, arrival |-> now, qerr_ok |-> qerr_ok]
      /\ now % Second # 0
      /\ UNCHANGED <<captures, previous_capture, interval_valid, gnss_valid, last_tim_tp, pc,
                     deadline>>
  BY ClockAssumption, WholeSeconds
     DEF HandleTimTp, MonitorIInv, MonitorTypeOK, TypeOK, WaitInv, pps, task, vars
<1>3. /\ NextPulse \in 1 .. MaxTime \div Second + 1
      /\ NextPulse * Second \in now + 1 .. now + Second - 1
  <2>1. /\ now \div Second \in Nat /\ now \div Second <= MaxTime \div Second
        /\ MaxTime \div Second \in Nat
        /\ (now \div Second + 1) * Second \in now + 1 .. now + Second - 1
    BY <1>2, WholeSeconds
  <2> QED
    BY <2>1 DEF NextPulse
<1>4. TimTpInv'
  BY <1>2, <1>3 DEF TimTpInv
<1>5. MonitorTypeOK'
  BY <1>1, <1>2, <1>3 DEF MonitorIInv, MonitorTypeOK, IInv
<1>6. PpsInv' /\ WaitInv'
  BY <1>2 DEF MonitorIInv, PpsInv, WaitInv, Edge
<1> QED
  BY <1>1, <1>4, <1>5, <1>6 DEF MonitorIInv

LEMMA TakeCaptureInv == ASSUME MonitorIInv, TakeCapture PROVE MonitorIInv'
<1>1. IInv'
  BY ClockInv DEF MonitorNext
<1>2. /\ captures \in Seq(Nat) /\ captures # <<>> /\ captures' = Tail(captures)
      /\ previous_capture' = Head(captures)
      /\ Len(captures) <= QueueLength
      /\ now \in Nat /\ now' = now
      /\ UNCHANGED <<gnss_valid, tim_tp, last_tim_tp>>
  BY DEF TakeCapture, MonitorIInv, MonitorTypeOK, TypeOK, gnss, vars
<1>3. /\ Len(captures) \in Nat \ {0} /\ Head(captures) = captures[1]
      /\ Tail(captures) \in Seq(Nat) /\ Len(Tail(captures)) = Len(captures) - 1
      /\ \A i \in 1 .. Len(Tail(captures)) : Tail(captures)[i] = captures[i + 1]
  BY <1>2, EmptySeq, HeadTailProperties
<1>4. Edge(previous_capture', now) /\ \A i \in 1 .. Len(captures') : Edge(captures'[i], now)
  <2>1. Edge(captures[1], now)
    BY <1>3 DEF MonitorIInv, PpsInv
  <2>2. ASSUME NEW i \in 1 .. Len(captures') PROVE Edge(captures'[i], now)
    <3>1. i + 1 \in 1 .. Len(captures) /\ captures'[i] = captures[i + 1]
      BY <1>2, <1>3
    <3> QED
      BY <3>1 DEF MonitorIInv, PpsInv
  <2> QED
    BY <1>2, <1>3, <2>1, <2>2
<1>5. /\ previous_capture' \in Nat /\ previous_capture' > 0 /\ interval_valid' \in BOOLEAN
      /\ TimTpWait \in Nat /\ PpsTimeout \in Nat
      /\ captures' \in Seq(Nat) /\ Len(captures') <= QueueLength
  BY <1>2, <1>3, <1>4, MonitorAssumption DEF Edge, TakeCapture, IntervalValid
<1>6. \/ /\ pc' = "gnss" /\ deadline' = now + TimTpWait
         /\ now - previous_capture' <= PpsTimeout
      \/ pc' = "update" /\ deadline' = deadline
  BY <1>2 DEF TakeCapture, Usable
<1>7. MonitorTypeOK'
  <2>1. deadline' \in Nat /\ pc' \in {"init", "capture", "gnss", "update", "enforce"}
    BY <1>2, <1>5, <1>6 DEF MonitorIInv, MonitorTypeOK
  <2> QED
    BY <1>1, <1>2, <1>5, <2>1 DEF MonitorIInv, MonitorTypeOK, IInv
<1>8. PpsInv'
  BY <1>2, <1>4, <1>5 DEF PpsInv, Edge
<1>9. TimTpInv'
  BY <1>2 DEF MonitorIInv, TimTpInv
<1>10. WaitInv'
  BY <1>2, <1>5, <1>6 DEF MonitorIInv, WaitInv
<1> QED
  BY <1>1, <1>7, <1>8, <1>9, <1>10 DEF MonitorIInv

LEMMA OtherInv ==
    ASSUME MonitorIInv,
           \/ HandleNavPvt \/ StartTask \/ CaptureTimeout \/ TakeTimTp \/ NoTimTpSample
           \/ Update \/ Enforce \/ Horizon \/ UNCHANGED monitorVars
    PROVE  MonitorIInv'
<1>1. IInv' /\ TypeOK'
  BY ClockInv DEF MonitorNext, IInv
<1>2. now' = now /\ UNCHANGED <<captures, previous_capture, interval_valid, tim_tp>>
  BY DEF HandleNavPvt, StartTask, CaptureTimeout, TakeTimTp, NoTimTpSample, Update, Enforce,
     Horizon, monitorVars, vars, pps, gnss, Submit, FirstSample, AcceptSample, RejectBackward,
     Reanchor, UpdateReferenceState, EnforceHoldoverPolicy
<1>3. gnss_valid' \in BOOLEAN /\ last_tim_tp' \in Nat
  BY DEF HandleNavPvt, StartTask, CaptureTimeout, TakeTimTp, NoTimTpSample, Update, Enforce,
     Horizon, monitorVars, gnss, task, Submit, MonitorIInv, MonitorTypeOK
<1>7. /\ now \in Nat /\ CaptureWait \in Nat /\ deadline \in Nat
      /\ pc \in {"init", "capture", "gnss", "update", "enforce"}
      /\ pc = "capture" => deadline >= now
  BY MonitorAssumption DEF MonitorIInv, MonitorTypeOK, TypeOK, WaitInv
<1>4. /\ deadline' \in Nat /\ pc' \in {"init", "capture", "gnss", "update", "enforce"}
      /\ \/ pc' \in {"init", "update", "enforce"}
         \/ pc' = "capture" /\ deadline' >= now
         \/ pc' = "gnss" /\ pc = "gnss" /\ deadline' = deadline
  BY <1>7 DEF HandleNavPvt, StartTask, CaptureTimeout, TakeTimTp, NoTimTpSample, Update,
     Enforce, Horizon, monitorVars, task
<1>5. MonitorTypeOK'
  BY <1>1, <1>2, <1>3, <1>4 DEF MonitorIInv, MonitorTypeOK
<1>6. PpsInv' /\ TimTpInv' /\ WaitInv'
  BY <1>2, <1>4 DEF MonitorIInv, PpsInv, Edge, TimTpInv, WaitInv
<1> QED
  BY <1>1, <1>5, <1>6 DEF MonitorIInv

LEMMA MonitorInvariance == MonitorSpec => []MonitorIInv
<1>1. MonitorIInv /\ [MonitorNext]_monitorVars => MonitorIInv'
  BY TickInv, HandleTimTpInv, TakeCaptureInv, OtherInv DEF MonitorNext
<1> QED
  BY <1>1, StartInv, PTL DEF MonitorSpec

\* The monitor implements the clock: every step of its task is an operation of
\* s_clock or leaves it alone (clock_monitor_task).
THEOREM ClockRefinement == MonitorSpec => ImplementsClock
<1>1. MonitorInit => Init
  BY DEF MonitorInit
<1>2. MonitorIInv /\ [MonitorNext]_monitorVars => [Next]_vars
  BY StepOfClock
<1> QED
  BY <1>1, <1>2, MonitorInvariance, PTL DEF MonitorSpec, ImplementsClock, Spec

\* The monitor's state keeps its types, and the capture queue its length.
THEOREM MonitorTypes == MonitorSpec => []MonitorTypeOK
<1>1. MonitorIInv => MonitorTypeOK
  BY DEF MonitorIInv
<1> QED
  BY <1>1, MonitorInvariance, PTL
-------------------------------------------------------------------------------

\* A step moves the anchor only to the sample that TakeTimTp submits.
LEMMA AnchorMoves ==
    ASSUME MonitorIInv, [MonitorNext]_monitorVars,
           \/ last' # last
           \/ solution_valid' /\ ~solution_valid
           \/ Serving' /\ ~Serving
    PROVE  /\ TakeTimTp /\ now' = now
           /\ last' = [capture |-> previous_capture, utc |-> tim_tp.second]
<1>1. CASE TakeTimTp
  BY <1>1 DEF TakeTimTp, Submit, FirstSample, AcceptSample, RejectBackward, Reanchor, Reject,
     Serving
<1>2. CASE Tick
  BY <1>2 DEF Tick, Advance, clock, Serving
<1>3. CASE Update
  BY <1>3 DEF Update, UpdateReferenceState, Serving
<1>4. CASE Enforce
  BY <1>4 DEF Enforce, EnforceHoldoverPolicy, Serving
<1>5. ASSUME \/ \E qerr_ok \in BOOLEAN : HandleTimTp(qerr_ok)
             \/ HandleNavPvt \/ StartTask \/ TakeCapture \/ CaptureTimeout
             \/ NoTimTpSample \/ Horizon \/ UNCHANGED monitorVars
      PROVE  UNCHANGED vars
  BY <1>5 DEF HandleTimTp, HandleNavPvt, StartTask, TakeCapture, CaptureTimeout,
     NoTimTpSample, Horizon, monitorVars, vars, clock
<1> QED
  BY <1>1, <1>2, <1>3, <1>4, <1>5 DEF MonitorNext, vars, clock, Serving

\* How old the capture of a submitted sample may be.
LEMMA SampleAge ==
    ASSUME MonitorIInv, TakeTimTp
    PROVE  /\ Edge(previous_capture, now) /\ now < deadline
           /\ now - previous_capture <= PpsTimeout + TimTpWait - 1
<1>1. /\ pc = "gnss" /\ now < deadline /\ previous_capture # 0
      /\ deadline - previous_capture <= PpsTimeout + TimTpWait
      /\ now \in Nat /\ deadline \in Nat /\ previous_capture \in Nat
      /\ PpsTimeout \in Nat /\ TimTpWait \in Nat
      /\ Edge(previous_capture, now)
  BY MonitorAssumption DEF TakeTimTp, MonitorIInv, MonitorTypeOK, TypeOK, WaitInv, PpsInv
<1> QED
  BY <1>1

\* PairingErrorBounded
PairInv ==
    solution_valid => last.utc * Second - last.capture
                        \in -Second .. PpsTimeout + TimTpWait + Second - 2

\* The second of a fresh record against the capture it is given to.
LEMMA SamplePaired ==
    ASSUME MonitorIInv, TakeTimTp, TimTpMaxAge <= 2 * Second
    PROVE  tim_tp.second * Second - previous_capture
             \in -Second .. PpsTimeout + TimTpWait + Second - 2
<1> DEFINE u == tim_tp.second
           k == previous_capture \div Second
<1>1. /\ Second \in Nat \ {0}
      /\ PpsTimeout \in Nat /\ TimTpWait \in Nat /\ TimTpMaxAge \in Nat
      /\ now \in Nat /\ previous_capture \in Nat /\ previous_capture <= now
      /\ now - previous_capture <= PpsTimeout + TimTpWait - 1
      /\ previous_capture % Second = 0
  BY SampleAge, ClockAssumption, MonitorAssumption DEF Edge, MonitorIInv, MonitorTypeOK, TypeOK
<1>2. /\ u \in Nat /\ tim_tp.arrival \in Nat /\ tim_tp.arrival <= now
      /\ u * Second \in tim_tp.arrival + 1 .. tim_tp.arrival + Second - 1
      /\ now - tim_tp.arrival <= TimTpMaxAge
  BY DEF TakeTimTp, RecordAvailable, GnssReady, TimingPulseValid, TimTpAge, MonitorIInv,
     MonitorTypeOK, TimTpInv
<1>3. k \in Nat /\ previous_capture = k * Second
  BY <1>1, WholeSeconds
<1> HIDE DEF u, k
<1>4. u * Second \in Nat /\ u * Second - previous_capture <= PpsTimeout + TimTpWait + Second - 2
  BY <1>1, <1>2
<1>5. k <= u + 1
  <2>1. (u + 2) * Second = u * Second + 2 * Second
    BY <1>1, <1>2
  <2>2. k * Second < (u + 2) * Second
    BY <1>1, <1>2, <1>3, <2>1
  <2>3. ~(u + 2 <= k)
    BY <1>2, <1>3, <2>2, <1>1, TicksMonotone
  <2> QED
    BY <1>2, <1>3, <2>3
<1>6. previous_capture <= u * Second + Second
  <2>1. k * Second <= (u + 1) * Second
    BY <1>2, <1>3, <1>5, TicksMonotone
  <2> QED
    BY <1>1, <1>2, <1>3, <2>1
<1> QED
  BY <1>1, <1>4, <1>6 DEF u

\* However pulses and records are lost, late or backlogged, a capture is given
\* a second at most one behind its own, and ahead by no more than the ages that
\* the code allows (wait_for_gnss_sample).  The code's limit on a record's age
\* is a second and a half.
THEOREM PairingProof ==
    ASSUME TimTpMaxAge <= 2 * Second
    PROVE  MonitorSpec => []PairingErrorBounded
<1>1. MonitorInit => PairInv
  BY DEF MonitorInit, Init, PairInv
<1>2. MonitorIInv /\ PairInv /\ [MonitorNext]_monitorVars => PairInv'
  BY AnchorMoves, SamplePaired DEF PairInv
<1>3. PairInv => PairingErrorBounded
  BY DEF PairInv, PairingErrorBounded
<1> QED
  BY <1>1, <1>2, <1>3, MonitorInvariance, PTL DEF MonitorSpec

\* The longest age at which enforce_holdover_policy leaves a solution.
HoldoverEnd == (HoldoverMax + 1) * Second

\* The age of the anchor of a serving clock, by where the task is.
AgeInv ==
    Serving =>
      /\ pc # "init"
      /\ now - last.capture < HoldoverEnd + CaptureWait + TimTpWait
      /\ pc = "capture" => deadline - last.capture < HoldoverEnd + CaptureWait
      /\ pc = "gnss" => deadline - last.capture < HoldoverEnd + CaptureWait + TimTpWait

\* Every wait adds its length once, and a new anchor is young enough.
LEMMA AgeNext ==
    ASSUME PpsTimeout <= HoldoverEnd + CaptureWait,
           MonitorIInv, AgeInv, [MonitorNext]_monitorVars
    PROVE  AgeInv'
<1> SUFFICES ASSUME Serving'
             PROVE  /\ pc' # "init"
                    /\ now' - last'.capture < HoldoverEnd + CaptureWait + TimTpWait
                    /\ pc' = "capture" => deadline' - last'.capture < HoldoverEnd + CaptureWait
                    /\ pc' = "gnss" => deadline' - last'.capture
                                         < HoldoverEnd + CaptureWait + TimTpWait
  BY DEF AgeInv
<1>1. /\ HoldoverEnd \in Nat /\ CaptureWait \in Nat
      /\ TimTpWait \in Nat /\ PpsTimeout \in Nat
      /\ now \in Nat /\ deadline \in Nat /\ last.capture \in Nat /\ previous_capture \in Nat
      /\ pc \in {"capture", "gnss"} => now <= deadline
  BY ClockAssumption, MonitorAssumption
     DEF HoldoverEnd, MonitorIInv, MonitorTypeOK, TypeOK, Sample, WaitInv
<1>2. CASE last' # last \/ ~Serving
  <2>1. TakeTimTp /\ now' = now /\ last'.capture = previous_capture
    BY <1>2, AnchorMoves
  <2>2. pc' = "update" /\ now - previous_capture <= PpsTimeout + TimTpWait - 1
    BY <2>1, SampleAge DEF TakeTimTp
  <2> QED
    BY <1>1, <2>1, <2>2
<1>3. CASE last' = last /\ Serving
  <2>1. /\ pc # "init"
        /\ now - last.capture < HoldoverEnd + CaptureWait + TimTpWait
        /\ pc = "capture" => deadline - last.capture < HoldoverEnd + CaptureWait
        /\ pc = "gnss" => deadline - last.capture < HoldoverEnd + CaptureWait + TimTpWait
    BY <1>3 DEF AgeInv
  <2>2. CASE Tick
    <3>1. /\ now' = now + 1 /\ pc' = pc /\ deadline' = deadline
          /\ pc \in {"capture", "gnss"} /\ now < deadline
      BY <2>1, <2>2 DEF Tick, Advance, Blocked, task
    <3> QED
      BY <1>1, <1>3, <2>1, <3>1
  <2>3. CASE TakeCapture
    <3>1. /\ now' = now /\ pc = "capture"
          /\ \/ pc' = "gnss" /\ deadline' = now + TimTpWait
             \/ pc' = "update"
      BY <2>3 DEF TakeCapture, vars
    <3> QED
      BY <1>1, <1>3, <2>1, <3>1
  <2>4. CASE Enforce
    <3>1. /\ now' = now /\ pc' = "capture" /\ deadline' = now + CaptureWait
          /\ ~(HoldoverSeconds > HoldoverMax)
      BY <2>4 DEF Enforce, EnforceHoldoverPolicy, Serving
    <3>2. HoldoverSeconds = (now - last.capture) \div Second /\ now - last.capture \in Nat
      BY <1>1, <1>3 DEF HoldoverSeconds, Serving, MonitorIInv, IInv
    <3>3. now - last.capture < HoldoverEnd
      <4> DEFINE age == now - last.capture
      <4>1. age \in Nat /\ ~(age \div Second > HoldoverMax) /\ Second \in Nat \ {0}
            /\ HoldoverMax \in Nat
        BY <3>1, <3>2, ClockAssumption
      <4> HIDE DEF age
      <4>2. age < (HoldoverMax + 1) * Second
        BY <4>1
      <4> QED
        BY <4>2 DEF age, HoldoverEnd
    <3> QED
      BY <1>1, <1>3, <3>1, <3>3
  <2>5. CASE CaptureTimeout \/ TakeTimTp \/ NoTimTpSample \/ Update
    <3>1. pc' \in {"update", "enforce"} /\ now' = now
      BY <2>5 DEF CaptureTimeout, TakeTimTp, NoTimTpSample, Update, UpdateReferenceState,
         Submit, FirstSample, AcceptSample, RejectBackward, Reanchor, vars
    <3> QED
      BY <1>3, <2>1, <3>1
  <2>6. CASE \/ \E qerr_ok \in BOOLEAN : HandleTimTp(qerr_ok)
             \/ HandleNavPvt \/ Horizon \/ UNCHANGED monitorVars
    <3>1. UNCHANGED <<now, pc, deadline>>
      BY <2>6 DEF HandleTimTp, HandleNavPvt, Horizon, monitorVars, task, vars
    <3> QED
      BY <1>3, <2>1, <3>1
  <2>7. ~StartTask
    BY <2>1 DEF StartTask
  <2> QED
    BY <2>2, <2>3, <2>4, <2>5, <2>6, <2>7 DEF MonitorNext
<1> QED
  BY <1>2, <1>3

\* No client is answered a loop beyond the holdover limit, although the
\* timestamp functions never look at it (enforce_holdover_policy).  A capture
\* may be 2.5 s old, so this asks for a holdover of two seconds at least.
THEOREM HoldoverProof ==
    ASSUME PpsTimeout <= HoldoverEnd + CaptureWait
    PROVE  MonitorSpec => []ServiceEndsAfterHoldover
<1>1. MonitorInit => AgeInv
  BY DEF MonitorInit, Init, AgeInv, Serving
<1>2. MonitorIInv /\ AgeInv /\ [MonitorNext]_monitorVars => AgeInv'
  BY AgeNext
<1>3. AgeInv => ServiceEndsAfterHoldover
  BY DEF AgeInv, ServiceEndsAfterHoldover, HoldoverEnd
<1> QED
  BY <1>1, <1>2, <1>3, MonitorInvariance, PTL DEF MonitorSpec

\* The order of reference and transmit time, of the clock as it is driven.
THEOREM MonitoredReferenceOrder == MonitorSpec => []ReferenceNotAfterTransmit
BY ClockRefinement, ReferenceOrder, PTL DEF ImplementsClock

-------------------------------------------------------------------------------

\* Captures leave the queue in the order of their edges.
QueueInv ==
    /\ \A i \in 1 .. Len(captures) : previous_capture < captures[i]
    /\ \A i, j \in 1 .. Len(captures) : i < j => captures[i] < captures[j]

\* The anchor is an earlier capture, and the mailbox no older than its second;
\* from the second accepted sample on, the record of that second is used up.
AnchorInv ==
    solution_valid =>
      /\ last.capture <= previous_capture
      /\ pc = "gnss" => last.capture < previous_capture
      /\ last.utc <= tim_tp.second
      /\ accepted >= 2 => last_tim_tp = last.utc

OrderInv == QueueInv /\ AnchorInv

\* A later record does not tell an earlier second.
LEMMA RecordsAdvance ==
    ASSUME MonitorIInv, NEW qerr_ok \in BOOLEAN, HandleTimTp(qerr_ok)
    PROVE  tim_tp'.second = NextPulse /\ tim_tp.second <= NextPulse
<1>1. tim_tp'.second = NextPulse /\ now % Second # 0 /\ now \in Nat
  BY WholeSeconds DEF HandleTimTp, MonitorIInv, MonitorTypeOK, TypeOK
<1>2. NextPulse \in Nat /\ NextPulse * Second >= now + 1
  <2>1. now \div Second \in Nat /\ (now \div Second + 1) * Second \in now + 1 .. now + Second - 1
    BY <1>1, WholeSeconds
  <2> QED BY <1>1, <2>1, ClockAssumption DEF NextPulse
<1>3. CASE tim_tp = NoTimTp
  BY <1>1, <1>2, <1>3 DEF NoTimTp
<1>4. CASE tim_tp # NoTimTp
  <2> DEFINE u == tim_tp.second
             n == NextPulse
  <2>1. /\ u \in Nat /\ tim_tp.arrival \in Nat /\ tim_tp.arrival <= now
        /\ u * Second <= tim_tp.arrival + Second - 1 /\ Second \in Nat \ {0}
    BY <1>4, ClockAssumption DEF MonitorIInv, MonitorTypeOK, TimTpInv
  <2>2. n \in Nat /\ n * Second >= now + 1
    BY <1>2
  <2> HIDE DEF u, n
  <2>3. (n + 1) * Second = n * Second + Second /\ n * Second \in Nat /\ u * Second \in Nat
    BY <2>1, <2>2
  <2>4. u * Second < (n + 1) * Second
    BY <1>1, <2>1, <2>2, <2>3
  <2>5. ~(n + 1 <= u)
    BY <2>1, <2>2, <2>4, TicksMonotone
  <2>6. u <= n
    BY <2>1, <2>2, <2>5
  <2> QED BY <1>1, <2>6 DEF u, n
<1> QED
  BY <1>3, <1>4

LEMMA TickOrder == ASSUME MonitorIInv, OrderInv, Tick PROVE OrderInv'
<1>1. /\ now \in Nat /\ captures \in Seq(Nat) /\ previous_capture \in Nat
      /\ UNCHANGED <<solution_valid, last, accepted, previous_capture, tim_tp,
                     last_tim_tp, pc>>
  BY DEF Tick, Advance, MonitorIInv, MonitorTypeOK, TypeOK, clock, gnss, task
<1>2. AnchorInv'
  BY <1>1 DEF OrderInv, AnchorInv
<1>3. CASE captures' = captures
  <2>1. QueueInv'
    BY <1>1, <1>3, Zenon DEF OrderInv, QueueInv
  <2> QED BY <1>2, <2>1 DEF OrderInv
<1>4. CASE captures' = Append(captures, now + 1)
  <2>1. /\ Len(captures) \in Nat /\ Len(captures') = Len(captures) + 1
        /\ captures'[Len(captures) + 1] = now + 1
        /\ \A i \in 1 .. Len(captures) : captures'[i] = captures[i]
    BY <1>1, <1>4, AppendProperties
  <2>2. /\ previous_capture < now + 1
        /\ \A i \in 1 .. Len(captures) : captures[i] \in Nat /\ captures[i] < now + 1
    BY <1>1 DEF MonitorIInv, PpsInv, Edge
  <2>3. ASSUME NEW i \in 1 .. Len(captures') PROVE previous_capture < captures'[i]
    BY <2>1, <2>2 DEF OrderInv, QueueInv
  <2>4. ASSUME NEW i \in 1 .. Len(captures'), NEW j \in 1 .. Len(captures'), i < j
        PROVE  captures'[i] < captures'[j]
    <3>1. i \in 1 .. Len(captures)
      BY <2>1, <2>4
    <3>2. CASE j \in 1 .. Len(captures)
      BY <2>1, <2>4, <3>1, <3>2 DEF OrderInv, QueueInv
    <3>3. CASE j = Len(captures) + 1
      BY <2>1, <2>2, <3>1, <3>3
    <3> QED
      BY <2>1, <3>2, <3>3
  <2>5. QueueInv'
    BY <1>1, <2>3, <2>4 DEF QueueInv
  <2> QED
    BY <1>2, <2>5 DEF OrderInv
<1> QED
  BY <1>3, <1>4 DEF Tick, PpsEdge

LEMMA TakeCaptureOrder == ASSUME MonitorIInv, OrderInv, TakeCapture PROVE OrderInv'
<1>1. /\ captures \in Seq(Nat) /\ captures # <<>> /\ captures' = Tail(captures)
      /\ previous_capture' = Head(captures) /\ previous_capture \in Nat
      /\ last \in Sample
      /\ UNCHANGED <<solution_valid, last, accepted, tim_tp, last_tim_tp>>
  BY DEF TakeCapture, MonitorIInv, MonitorTypeOK, TypeOK, gnss, vars, clock
<1>2. /\ Len(captures) \in Nat \ {0} /\ Head(captures) = captures[1]
      /\ captures[1] \in Nat
      /\ Len(captures') = Len(captures) - 1
      /\ \A i \in 1 .. Len(captures') : captures'[i] = captures[i + 1]
  BY <1>1, EmptySeq, HeadTailProperties
<1>3. \A i \in 1 .. Len(captures') : i + 1 \in 1 .. Len(captures)
  BY <1>2
<1>4. QueueInv'
  <2>1. ASSUME NEW i \in 1 .. Len(captures') PROVE captures[1] < captures'[i]
    <3>1. 1 \in 1 .. Len(captures) /\ i + 1 \in 1 .. Len(captures) /\ 1 < i + 1
      BY <1>2, <1>3
    <3> QED BY <1>2, <3>1 DEF OrderInv, QueueInv
  <2>2. ASSUME NEW i \in 1 .. Len(captures'), NEW j \in 1 .. Len(captures'), i < j
        PROVE  captures'[i] < captures'[j]
    <3>1. i + 1 \in 1 .. Len(captures) /\ j + 1 \in 1 .. Len(captures) /\ i + 1 < j + 1
      BY <1>2, <1>3, <2>2
    <3> QED BY <1>2, <3>1 DEF OrderInv, QueueInv
  <2> QED
    BY <1>1, <1>2, <2>1, <2>2 DEF QueueInv
<1>5. previous_capture < previous_capture'
  BY <1>1, <1>2 DEF OrderInv, QueueInv
<1>6. AnchorInv'
  BY <1>1, <1>2, <1>5 DEF OrderInv, AnchorInv, Sample
<1> QED
  BY <1>4, <1>6 DEF OrderInv

\* The sample is later than the anchor by its capture, and by its second unless
\* the last sample was rejected.
LEMMA TakeTimTpOrder == ASSUME MonitorIInv, OrderInv, TakeTimTp PROVE OrderInv'
<1> DEFINE sample == [capture |-> previous_capture, utc |-> tim_tp.second]
<1>1. /\ Submit(sample) /\ pc' = "update"
      /\ UNCHANGED <<captures, previous_capture, tim_tp>>
  BY DEF TakeTimTp, pps, gnss
<1>2. /\ sample.capture = previous_capture /\ sample.utc = tim_tp.second
      /\ previous_capture \in Nat /\ tim_tp.second \in Nat /\ accepted \in Nat
  BY DEF MonitorIInv, MonitorTypeOK, TypeOK
<1> HIDE DEF sample
<1>3. QueueInv'
  BY <1>1, Zenon DEF OrderInv, QueueInv
<1>4. AnchorInv'
  <2>1. CASE (FirstSample(sample) \/ AcceptSample(sample)) /\ last_tim_tp' = sample.utc
    <3>1. last' = sample
      BY <2>1 DEF FirstSample, AcceptSample
    <3> QED BY <1>1, <1>2, <2>1, <3>1 DEF AnchorInv
  <2>2. CASE RejectBackward(sample) /\ last_tim_tp' = last_tim_tp
    <3>1. solution_valid /\ last' = last
      BY <2>2 DEF RejectBackward
    <3>2. accepted' = 0 \/ accepted' = accepted
      BY <2>2, Zenon DEF RejectBackward, Reject
    <3> QED BY <1>1, <2>2, <3>1, <3>2 DEF OrderInv, AnchorInv
  <2>3. CASE Reanchor(sample) /\ last_tim_tp' = last_tim_tp
    <3>1. last' = sample
      BY <2>3 DEF Reanchor
    <3>2. accepted' = 0 \/ accepted' = 1
      BY <2>3, Zenon DEF Reanchor, Reject
    <3> QED BY <1>1, <1>2, <3>1, <3>2 DEF AnchorInv
  <2> QED
    BY <1>1, <2>1, <2>2, <2>3 DEF Submit
<1> QED
  BY <1>3, <1>4 DEF OrderInv

\* Steps that leave anchor, captures and records alone.
LEMMA OtherOrder ==
    ASSUME MonitorIInv, OrderInv,
           \/ HandleNavPvt \/ StartTask \/ CaptureTimeout \/ NoTimTpSample
           \/ Update \/ Enforce \/ Horizon \/ UNCHANGED monitorVars
    PROVE  OrderInv'
<1>1. UNCHANGED <<captures, previous_capture, tim_tp, last, accepted, last_tim_tp>>
  BY DEF HandleNavPvt, StartTask, CaptureTimeout, NoTimTpSample, Update, Enforce,
     Horizon, monitorVars, vars, clock, pps, gnss, task, UpdateReferenceState,
     EnforceHoldoverPolicy
<1>2. (solution_valid' => solution_valid) /\ (pc' = "gnss" => pc = "gnss")
  BY DEF HandleNavPvt, StartTask, CaptureTimeout, NoTimTpSample, Update, Enforce,
     Horizon, monitorVars, vars, clock, task, UpdateReferenceState,
     EnforceHoldoverPolicy
<1>3. QueueInv'
  BY <1>1, Zenon DEF OrderInv, QueueInv
<1>4. AnchorInv'
  BY <1>1, <1>2 DEF OrderInv, AnchorInv
<1> QED
  BY <1>3, <1>4 DEF OrderInv

LEMMA HandleTimTpOrder ==
    ASSUME MonitorIInv, OrderInv, NEW qerr_ok \in BOOLEAN, HandleTimTp(qerr_ok)
    PROVE  OrderInv'
<1>1. UNCHANGED <<captures, previous_capture, solution_valid, last, accepted,
                  last_tim_tp, pc>>
  BY DEF HandleTimTp, vars, clock, pps, task
<1>2. /\ tim_tp.second <= tim_tp'.second /\ tim_tp.second \in Nat
      /\ tim_tp'.second \in Nat /\ last.utc \in Nat
  <2>0. MonitorIInv'
    BY HandleTimTpInv
  <2>1. tim_tp'.second \in Nat
    BY <2>0 DEF MonitorIInv, MonitorTypeOK
  <2>2. tim_tp.second <= tim_tp'.second
    BY RecordsAdvance
  <2>3. tim_tp.second \in Nat /\ last.utc \in Nat
    BY DEF MonitorIInv, MonitorTypeOK, TypeOK, Sample
  <2> QED
    BY <2>1, <2>2, <2>3
<1>3. QueueInv'
  BY <1>1, Zenon DEF OrderInv, QueueInv
<1>4. AnchorInv'
  BY <1>1, <1>2 DEF OrderInv, AnchorInv
<1> QED
  BY <1>3, <1>4 DEF OrderInv

LEMMA OrderInvariance == MonitorSpec => []OrderInv
<1>1. MonitorInit => OrderInv
  <2> SUFFICES ASSUME MonitorInit PROVE OrderInv
    OBVIOUS
  <2>1. Len(captures) = 0 /\ ~solution_valid
    BY DEF MonitorInit, Init
  <2> QED BY <2>1 DEF OrderInv, QueueInv, AnchorInv
<1>2. MonitorIInv /\ OrderInv /\ [MonitorNext]_monitorVars => OrderInv'
  BY TickOrder, TakeCaptureOrder, TakeTimTpOrder, OtherOrder, HandleTimTpOrder
     DEF MonitorNext
<1> QED
  BY <1>1, <1>2, MonitorInvariance, PTL DEF MonitorSpec

\* Only TakeTimTp counts a rejection.
LEMMA RejectsRise ==
    ASSUME MonitorIInv, [MonitorNext]_monitorVars, rejects' > rejects
    PROVE  TakeTimTp
<1>1. rejects \in Nat
  BY DEF MonitorIInv, MonitorTypeOK, TypeOK
<1>2. ~TakeTimTp => rejects' = rejects
  BY DEF MonitorNext, Tick, HandleTimTp, HandleNavPvt, StartTask, TakeCapture,
     CaptureTimeout, NoTimTpSample, Update, Enforce, Horizon, monitorVars, vars, clock,
     Advance, UpdateReferenceState, EnforceHoldoverPolicy
<1> QED
  BY <1>1, <1>2

\* A rejection never finds more accepted samples than the one that a rejected
\* sample starts again from: reject_sample_locked keeps the count when the sample
\* lies behind the anchor, but captures come in order, and a record is only used
\* a second time when its first sample was rejected (wait_for_gnss_sample,
\* tim_tp_is_new).
THEOREM LockSamplesProof == MonitorSpec => LockSamplesConsecutive
<1>1. MonitorIInv /\ OrderInv /\ [MonitorNext]_monitorVars =>
        [rejects' > rejects /\ state = "ACQUIRING" => accepted' <= 1]_monitorVars
  <2> SUFFICES ASSUME MonitorIInv, OrderInv, [MonitorNext]_monitorVars,
                      rejects' > rejects
               PROVE  accepted' <= 1
    OBVIOUS
  <2> DEFINE sample == [capture |-> previous_capture, utc |-> tim_tp.second]
  <2>1. TakeTimTp
    BY RejectsRise
  <2>2. Submit(sample) /\ pc = "gnss" /\ tim_tp.second # last_tim_tp
    BY <2>1 DEF TakeTimTp, RecordAvailable
  <2>3. /\ sample.capture = previous_capture /\ sample.utc = tim_tp.second
        /\ previous_capture \in Nat /\ tim_tp.second \in Nat
        /\ last.capture \in Nat /\ last.utc \in Nat
        /\ accepted \in Nat /\ rejects \in Nat
    BY DEF MonitorIInv, MonitorTypeOK, TypeOK, Sample
  <2> HIDE DEF sample
  <2>4. CASE FirstSample(sample) \/ AcceptSample(sample)
    BY <2>3, <2>4 DEF FirstSample, AcceptSample
  <2>5. CASE RejectBackward(sample)
    <3>1. solution_valid /\ Backward(sample) /\ accepted' \in {0, accepted}
      BY <2>5 DEF RejectBackward, Reject
    <3>2. last.capture < previous_capture /\ last.utc <= tim_tp.second
      BY <2>2, <3>1 DEF OrderInv, AnchorInv
    <3>3. tim_tp.second <= last.utc
      BY <2>3, <3>1, <3>2 DEF Backward
    <3>4. ~(accepted >= 2)
      BY <2>2, <2>3, <3>1, <3>2, <3>3 DEF OrderInv, AnchorInv
    <3> QED BY <2>3, <3>1, <3>4
  <2>6. CASE Reanchor(sample)
    <3>1. accepted' = 0 \/ accepted' = 1
      BY <2>6, Zenon DEF Reanchor, Reject
    <3> QED BY <3>1
  <2> QED
    BY <2>2, <2>4, <2>5, <2>6 DEF Submit
<1> QED
  BY <1>1, MonitorInvariance, OrderInvariance, PTL
     DEF MonitorSpec, LockSamplesConsecutive

-------------------------------------------------------------------------------

\* What keeps a capture and its second together: nothing is lost from the start
\* on, the task starts before the second pulse, and the record that tells an
\* edge's second is not too old when the edge comes.
Undisturbed ==
    /\ FaultsUntil = 0
    /\ BootDelay < 2 * Second
    /\ Second <= TimTpMaxAge + 1
    /\ Second <= GnssTimeout + 1

LastPulse == now \div Second

\* Until TimTpLatest the mailbox may tell the last pulse, then the next one.
FeedInv ==
    /\ now > 1 => gnss_valid
    /\ tim_tp.second \in {LastPulse, NextPulse}
    /\ now % Second = 0 => tim_tp.second = LastPulse
    /\ now % Second > TimTpLatest => tim_tp.second = NextPulse

\* A queued capture is the last pulse, taken at once but for the first one, and
\* finds its record in the mailbox.
PromptInv ==
    /\ \A i \in 1 .. Len(captures) : captures[i] = LastPulse * Second
    /\ captures # <<>> => now % Second = 0 \/ previous_capture = 0
    /\ pc = "init" => previous_capture = 0
    /\ last_tim_tp * Second <= previous_capture
    /\ pc = "gnss" => /\ now % Second = 0 /\ now > 1
                      /\ previous_capture = now
                      /\ last_tim_tp * Second < now

\* The anchor is an edge with its own second.
RightInv == solution_valid => last.utc * Second = last.capture

CorrelationInv == FeedInv /\ PromptInv /\ RightInv

\* The tick that completes a second, and the others.
LEMMA NextTick ==
    ASSUME NEW n \in Nat
    PROVE  \/ /\ (n + 1) % Second = 0 /\ n % Second = Second - 1
              /\ (n + 1) \div Second = n \div Second + 1
           \/ /\ (n + 1) % Second = (n % Second) + 1
              /\ (n + 1) \div Second = n \div Second
<1> DEFINE q == n \div Second
           p == (n + 1) \div Second
           r == n % Second
           s == (n + 1) % Second
<1>1. /\ q \in Nat /\ p \in Nat /\ r \in 0 .. Second - 1 /\ s \in 0 .. Second - 1
      /\ n = q * Second + r /\ n + 1 = p * Second + s
      /\ Second \in Nat \ {0}
  <2>1. n + 1 \in Nat
    OBVIOUS
  <2>2. q \in Nat /\ r \in 0 .. Second - 1 /\ n = q * Second + r
    BY WholeSeconds
  <2>3. p \in Nat /\ s \in 0 .. Second - 1 /\ n + 1 = p * Second + s
    BY <2>1, WholeSeconds
  <2> QED BY <2>2, <2>3, ClockAssumption
<1>2. q <= p
  <2>1. n + 1 \in Nat /\ n <= n + 1
    OBVIOUS
  <2> QED BY <2>1, WholeSeconds
<1> HIDE DEF q, p, r, s
<1>3. q * Second \in Nat /\ p * Second \in Nat /\ (q + 1) * Second = q * Second + Second
      /\ (q + 2) * Second = q * Second + Second + Second
  BY <1>1
<1>4. ~(q + 2 <= p)
  <2> SUFFICES ASSUME q + 2 <= p PROVE FALSE
    OBVIOUS
  <2>1. (q + 2) * Second <= p * Second
    BY <1>1, TicksMonotone
  <2> QED BY <1>1, <1>3, <2>1
<1>5. p = q \/ p = q + 1
  BY <1>1, <1>2, <1>4
<1>6. CASE p = q
  <2>1. s = r + 1
    BY <1>1, <1>3, <1>6
  <2> QED BY <1>6, <2>1 DEF q, p, r, s
<1>7. CASE p = q + 1
  <2>1. s = 0 /\ r = Second - 1
    BY <1>1, <1>3, <1>7
  <2> QED BY <1>7, <2>1 DEF q, p, r, s
<1> QED
  BY <1>5, <1>6, <1>7

\* The state as the steps below find it.
LEMMA TypesOfFeed ==
    ASSUME MonitorIInv
    PROVE  /\ now \in Nat /\ captures \in Seq(Nat) /\ Len(captures) \in Nat
           /\ previous_capture \in Nat /\ last_tim_tp \in Nat
           /\ tim_tp.second \in Nat /\ tim_tp.arrival \in Nat
           /\ LastPulse \in Nat /\ NextPulse = LastPulse + 1
           /\ now % Second \in 0 .. Second - 1
           /\ now = LastPulse * Second + (now % Second)
           /\ TimTpLatest \in 1 .. Second - 1 /\ Second \in Nat \ {0}
           /\ last \in Sample
<1>1. now \in Nat
  BY DEF MonitorIInv, MonitorTypeOK, TypeOK
<1>2. /\ LastPulse \in Nat /\ NextPulse = LastPulse + 1
      /\ now % Second \in 0 .. Second - 1 /\ now = LastPulse * Second + (now % Second)
  <2>1. /\ now \div Second \in Nat /\ now % Second \in 0 .. Second - 1
        /\ now = (now \div Second) * Second + (now % Second)
    BY <1>1, WholeSeconds
  <2>2. LastPulse = now \div Second
    BY DEF LastPulse
  <2>3. NextPulse = LastPulse + 1
    BY DEF LastPulse, NextPulse
  <2> QED BY <2>1, <2>2, <2>3, Zenon
<1>3. /\ captures \in Seq(Nat) /\ previous_capture \in Nat /\ last_tim_tp \in Nat
      /\ tim_tp.second \in Nat /\ tim_tp.arrival \in Nat /\ last \in Sample
  BY DEF MonitorIInv, MonitorTypeOK, TypeOK
<1>4. Len(captures) \in Nat
  BY <1>3, LenProperties
<1> QED
  BY <1>1, <1>2, <1>3, <1>4, MonitorAssumption, ClockAssumption

\* On an edge the record of its second is in the mailbox, and is usable.
LEMMA RecordOnEdge ==
    ASSUME Undisturbed, MonitorIInv, CorrelationInv, pc = "gnss"
    PROVE  RecordAvailable /\ tim_tp.second * Second = previous_capture
<1>1. /\ now % Second = 0 /\ now > 1 /\ previous_capture = now
      /\ last_tim_tp * Second < now /\ gnss_valid /\ tim_tp.second = LastPulse
  BY TypesOfFeed DEF CorrelationInv, PromptInv, FeedInv
<1>0. /\ now \in Nat /\ LastPulse \in Nat /\ now = LastPulse * Second + (now % Second)
      /\ Second \in Nat \ {0} /\ tim_tp.arrival \in Nat /\ last_tim_tp \in Nat
  BY TypesOfFeed
<1>2. tim_tp.second * Second = now /\ tim_tp.second # 0
  <2>1. LastPulse * Second = now
    BY <1>0, <1>1
  <2>2. LastPulse # 0
    BY <1>0, <1>1, <2>1
  <2> QED BY <1>1, <2>1, <2>2
<1>3. tim_tp # NoTimTp
  BY <1>2 DEF NoTimTp
<1>4. tim_tp.arrival <= now /\ now <= tim_tp.arrival + Second - 1
  <2>1. tim_tp.arrival <= now
    BY <1>3 DEF MonitorIInv, TimTpInv
  <2>2. now \in tim_tp.arrival + 1 .. tim_tp.arrival + Second - 1
    BY <1>2, <1>3 DEF MonitorIInv, TimTpInv
  <2> QED BY <1>0, <2>1, <2>2
<1>5. TimTpAge <= TimTpMaxAge /\ TimTpAge <= GnssTimeout
  <2>1. TimTpMaxAge \in Nat /\ GnssTimeout \in Nat
    BY MonitorAssumption
  <2> QED BY <1>0, <1>4, <2>1 DEF TimTpAge, Undisturbed
<1>6. tim_tp.second # last_tim_tp
  BY <1>1, <1>2, <1>0
<1> QED
  BY <1>1, <1>2, <1>3, <1>5, <1>6 DEF RecordAvailable, GnssReady, TimingPulseValid

\* Time passes: the task does not wait for a record, and is free at each edge.
LEMMA TickCorrelation ==
    ASSUME Undisturbed, MonitorIInv, CorrelationInv, Tick
    PROVE  CorrelationInv'
<1> DEFINE second == now \div Second
           ticks == now % Second
<1>1. /\ now \in Nat /\ now' = now + 1
      /\ captures \in Seq(Nat) /\ Len(captures) \in Nat
      /\ previous_capture \in Nat /\ last_tim_tp \in Nat
      /\ second \in Nat /\ ticks \in 0 .. Second - 1 /\ now = second * Second + ticks
      /\ LastPulse = second /\ NextPulse = second + 1
      /\ TimTpLatest \in 1 .. Second - 1 /\ Second \in Nat \ {0}
  BY TypesOfFeed DEF Tick, Advance, LastPulse
<1>2. /\ UNCHANGED <<gnss_valid, tim_tp, solution_valid, last, previous_capture,
                     last_tim_tp, pc>>
      /\ Blocked
  BY DEF Tick, Advance, clock, gnss, task
<1>3. pc # "gnss" /\ (pc = "init" => now < BootDelay)
      /\ (pc # "init" => captures = <<>>)
  BY <1>2, RecordOnEdge DEF Blocked
<1>4. now >= 1 => gnss_valid /\ (ticks = TimTpLatest => tim_tp.second = second + 1)
  <2>1. ~Faulty <=> now >= 1
    BY <1>1 DEF Faulty, Undisturbed
  <2> QED BY <1>1, <2>1 DEF Tick
<1>5. /\ tim_tp.second \in {second, second + 1}
      /\ ticks = 0 => tim_tp.second = second
      /\ ticks > TimTpLatest => tim_tp.second = second + 1
  BY <1>1 DEF CorrelationInv, FeedInv
<1>6. ticks >= TimTpLatest => tim_tp.second = second + 1
  <2>1. ticks = TimTpLatest => now >= 1
    BY <1>1
  <2> QED BY <1>1, <1>4, <1>5, <2>1
<1>7. /\ second * Second \in Nat /\ (second + 1) * Second = second * Second + Second
  BY <1>1
<1>8. RightInv'
  BY <1>2 DEF CorrelationInv, RightInv
<1>9. /\ now' > 1 => gnss_valid'
  BY <1>1, <1>2, <1>4
<1>10. /\ pc' = "init" => previous_capture' = 0
       /\ last_tim_tp' * Second <= previous_capture'
       /\ pc' # "gnss"
  BY <1>2, <1>3 DEF CorrelationInv, PromptInv
<1>11. CASE (now + 1) % Second = 0 /\ ticks = Second - 1 /\ (now + 1) \div Second = second + 1
  <2>1. LastPulse' = second + 1 /\ NextPulse' = second + 2 /\ now' % Second = 0
    BY <1>1, <1>11 DEF LastPulse, NextPulse
  <2>2. FeedInv'
    BY <1>1, <1>2, <1>6, <1>9, <1>11, <2>1 DEF FeedInv
  <2>3. captures = <<>>
    <3>1. CASE pc = "init"
      <4>1. now < 2 * Second - 1 /\ BootDelay \in Nat
        <5>1. BootDelay \in Nat
          BY MonitorAssumption
        <5>2. now < BootDelay /\ BootDelay < 2 * Second
          BY <1>3, <3>1 DEF Undisturbed
        <5> QED BY <1>1, <5>1, <5>2
      <4>2. second = 0
        <5>1. second * Second < Second
          BY <1>1, <1>7, <1>11, <4>1
        <5>2. 1 <= second => 1 * Second <= second * Second
          BY <1>1, TicksMonotone
        <5> QED BY <1>1, <1>7, <5>1, <5>2
      <4>3. ASSUME NEW i \in 1 .. Len(captures) PROVE FALSE
        <5>1. captures[i] = 0
          BY <1>1, <4>2 DEF CorrelationInv, PromptInv
        <5> QED BY <5>1 DEF MonitorIInv, PpsInv, Edge
      <4>4. Len(captures) = 0
        BY <1>1, <4>3
      <4> QED BY <1>1, <4>4, EmptySeq
    <3> QED BY <1>3, <3>1
  <2>4. captures' = <<>> \/ captures' = Append(captures, now + 1)
    BY <2>3 DEF Tick, PpsEdge
  <2>5. now + 1 = (second + 1) * Second
    BY <1>1, <1>7, <1>11
  <2>6. \A i \in 1 .. Len(captures') : captures'[i] = (second + 1) * Second
    <3>1. CASE captures' = <<>>
      <4>1. Len(captures') = 0
        BY <3>1
      <4> QED BY <4>1
    <3>2. CASE captures' = Append(captures, now + 1)
      <4>1. Len(captures') = 1 /\ captures'[1] = now + 1
        BY <1>1, <2>3, <3>2, AppendProperties
      <4> QED BY <2>5, <4>1
    <3> QED BY <2>4, <3>1, <3>2
  <2>7. PromptInv'
    BY <1>10, <2>1, <2>6, Zenon DEF PromptInv
  <2> QED
    BY <1>8, <2>2, <2>7 DEF CorrelationInv
<1>12. CASE (now + 1) % Second = ticks + 1 /\ (now + 1) \div Second = second
  <2>1. LastPulse' = second /\ NextPulse' = second + 1 /\ now' % Second = ticks + 1
    BY <1>1, <1>12 DEF LastPulse, NextPulse
  <2>2. FeedInv'
    BY <1>1, <1>2, <1>5, <1>6, <1>9, <2>1 DEF FeedInv
  <2>3. captures' = captures
    BY <1>1, <1>12 DEF Tick
  <2>4. captures # <<>> => previous_capture = 0
    BY <1>3 DEF CorrelationInv, PromptInv
  <2>5. PromptInv'
    BY <1>1, <1>2, <1>10, <2>1, <2>3, <2>4, Zenon DEF CorrelationInv, PromptInv
  <2> QED
    BY <1>8, <2>2, <2>5 DEF CorrelationInv
<1> QED
  BY <1>1, <1>11, <1>12, NextTick

\* A record comes once an edge is past, for the next one.
LEMMA HandleTimTpCorrelation ==
    ASSUME MonitorIInv, CorrelationInv, NEW qerr_ok \in BOOLEAN, HandleTimTp(qerr_ok)
    PROVE  CorrelationInv'
<1>1. /\ tim_tp'.second = NextPulse /\ now % Second # 0 /\ now' = now
      /\ UNCHANGED <<captures, previous_capture, gnss_valid, solution_valid, last,
                     last_tim_tp, pc>>
  BY TypesOfFeed DEF HandleTimTp, vars, clock, pps, task
<1>2. LastPulse' = LastPulse /\ NextPulse' = NextPulse
  BY <1>1 DEF LastPulse, NextPulse
<1>3. FeedInv'
  BY <1>1, <1>2, Zenon DEF CorrelationInv, FeedInv
<1>4. PromptInv' /\ RightInv'
  BY <1>1, <1>2, Zenon DEF CorrelationInv, PromptInv, RightInv
<1> QED
  BY <1>3, <1>4 DEF CorrelationInv

\* The capture that is taken is the only one, and the last edge.
LEMMA TakeCaptureCorrelation ==
    ASSUME Undisturbed, MonitorIInv, OrderInv, CorrelationInv, TakeCapture
    PROVE  CorrelationInv'
<1>1. /\ captures \in Seq(Nat) /\ captures # <<>> /\ captures' = Tail(captures)
      /\ previous_capture' = Head(captures) /\ previous_capture \in Nat
      /\ last_tim_tp \in Nat /\ now' = now
      /\ UNCHANGED <<solution_valid, last, gnss_valid, tim_tp, last_tim_tp>>
  BY DEF TakeCapture, MonitorIInv, MonitorTypeOK, gnss, vars, clock
<1>2. /\ Len(captures) \in Nat \ {0} /\ Head(captures) = captures[1]
      /\ Tail(captures) \in Seq(Nat) /\ Len(Tail(captures)) = Len(captures) - 1
  BY <1>1, EmptySeq, HeadTailProperties
<1>3. LastPulse' = LastPulse /\ NextPulse' = NextPulse
  BY <1>1 DEF LastPulse, NextPulse
<1>4. /\ captures[1] = LastPulse * Second /\ captures[1] \in Nat
      /\ previous_capture < captures[1]
  BY <1>1, <1>2 DEF CorrelationInv, PromptInv, OrderInv, QueueInv
<1>5. Len(captures) = 1
  <2> SUFFICES ASSUME Len(captures) # 1 PROVE FALSE
    OBVIOUS
  <2>1. 1 \in 1 .. Len(captures) /\ 2 \in 1 .. Len(captures)
    BY <1>2
  <2>2. captures[1] < captures[2] /\ captures[2] = captures[1]
    BY <2>1 DEF CorrelationInv, PromptInv, OrderInv, QueueInv
  <2> QED BY <1>4, <2>2
<1>6. captures' = <<>> /\ Len(captures') = 0
  BY <1>1, <1>2, <1>5, EmptySeq
<1>7. pc' \in {"gnss", "update"}
      /\ (pc' = "gnss" => IntervalValid(captures[1]))
  BY <1>1, <1>2 DEF TakeCapture, Usable
<1>8. pc' = "gnss" => /\ now' % Second = 0 /\ now' > 1
                      /\ previous_capture' = now'
                      /\ last_tim_tp' * Second < now'
  <2> SUFFICES ASSUME pc' = "gnss"
               PROVE  /\ now % Second = 0 /\ now > 1
                      /\ captures[1] = now
                      /\ last_tim_tp * Second < now
    BY <1>1, <1>2
  <2>1. previous_capture # 0 /\ captures[1] - previous_capture = Second
    BY <1>7 DEF IntervalValid
  <2>2. now % Second = 0 /\ last_tim_tp * Second <= previous_capture
    BY <1>1, <2>1 DEF CorrelationInv, PromptInv
  <2>3. captures[1] = now
    BY <1>4, <2>2, TypesOfFeed
  <2>4. Second \in Nat \ {0} /\ last_tim_tp * Second \in Nat
    BY <1>1, ClockAssumption
  <2> QED BY <1>1, <1>4, <2>1, <2>2, <2>3, <2>4
<1>9. last_tim_tp' * Second <= previous_capture'
  <2>1. last_tim_tp * Second \in Nat
    BY <1>1, ClockAssumption
  <2>2. last_tim_tp * Second <= previous_capture
    BY DEF CorrelationInv, PromptInv
  <2> QED BY <1>1, <1>2, <1>4, <2>1, <2>2
<1>10. PromptInv'
  BY <1>6, <1>7, <1>8, <1>9 DEF PromptInv
<1>11. FeedInv' /\ RightInv'
  BY <1>1, <1>3, Zenon DEF CorrelationInv, FeedInv, RightInv
<1> QED
  BY <1>10, <1>11 DEF CorrelationInv

\* The sample is an edge with its own second.
LEMMA TakeTimTpCorrelation ==
    ASSUME Undisturbed, MonitorIInv, CorrelationInv, TakeTimTp
    PROVE  CorrelationInv'
<1> DEFINE sample == [capture |-> previous_capture, utc |-> tim_tp.second]
<1>1. /\ Submit(sample) /\ pc = "gnss" /\ pc' = "update"
      /\ UNCHANGED <<captures, previous_capture, interval_valid, gnss_valid, tim_tp>>
  BY DEF TakeTimTp, pps, gnss
<1>2. /\ sample.utc * Second = sample.capture
      /\ sample.utc * Second = previous_capture /\ previous_capture \in Nat
  BY <1>1, RecordOnEdge, TypesOfFeed
<1> HIDE DEF sample
<1>3. now' = now
  BY <1>1 DEF Submit, FirstSample, AcceptSample, RejectBackward, Reanchor
<1>4. LastPulse' = LastPulse /\ NextPulse' = NextPulse
  BY <1>3 DEF LastPulse, NextPulse
<1>5. FeedInv'
  BY <1>1, <1>3, <1>4, Zenon DEF CorrelationInv, FeedInv
<1>6. last_tim_tp' = sample.utc \/ last_tim_tp' = last_tim_tp
  BY <1>1 DEF Submit
<1>7. last_tim_tp' * Second <= previous_capture'
  BY <1>1, <1>2, <1>6 DEF CorrelationInv, PromptInv
<1>8. PromptInv'
  BY <1>1, <1>3, <1>4, <1>7 DEF CorrelationInv, PromptInv
<1>9. last' = sample \/ (last' = last /\ solution_valid)
  BY <1>1 DEF Submit, FirstSample, AcceptSample, RejectBackward, Reanchor
<1>10. RightInv'
  BY <1>2, <1>9 DEF CorrelationInv, RightInv
<1> QED
  BY <1>5, <1>8, <1>10 DEF CorrelationInv

\* Steps that leave captures and records alone.
LEMMA OtherCorrelation ==
    ASSUME Undisturbed, MonitorIInv, CorrelationInv,
           \/ HandleNavPvt \/ StartTask \/ CaptureTimeout \/ NoTimTpSample
           \/ Update \/ Enforce \/ Horizon \/ UNCHANGED monitorVars
    PROVE  CorrelationInv'
<1>1. UNCHANGED <<now, captures, previous_capture, tim_tp, last, last_tim_tp>>
  BY DEF HandleNavPvt, StartTask, CaptureTimeout, NoTimTpSample, Update, Enforce,
     Horizon, monitorVars, vars, clock, pps, gnss, task, UpdateReferenceState,
     EnforceHoldoverPolicy
<1>2. /\ solution_valid' => solution_valid
      /\ pc' = "gnss" => pc = "gnss"
      /\ pc' = "init" => pc = "init"
  BY DEF HandleNavPvt, StartTask, CaptureTimeout, NoTimTpSample, Update, Enforce,
     Horizon, monitorVars, vars, clock, task, UpdateReferenceState,
     EnforceHoldoverPolicy
<1>3. gnss_valid' = gnss_valid \/ gnss_valid' \/ now = 0
  <2>1. Faulty => now = 0
    BY TypesOfFeed DEF Faulty, Undisturbed
  <2> QED
    BY <2>1 DEF HandleNavPvt, StartTask, CaptureTimeout, NoTimTpSample, Update, Enforce,
       Horizon, monitorVars, gnss
<1>4. LastPulse' = LastPulse /\ NextPulse' = NextPulse
  BY <1>1 DEF LastPulse, NextPulse
<1>5. FeedInv'
  <2>1. now' = now /\ ~(0 > 1)
    BY <1>1
  <2>2. now' > 1 => now > 1 /\ now # 0
    BY <2>1, TypesOfFeed
  <2>3. now' > 1 => gnss_valid'
    BY <1>3, <2>2, Zenon DEF CorrelationInv, FeedInv
  <2> QED BY <1>1, <1>4, <2>3, Zenon DEF CorrelationInv, FeedInv
<1>6. PromptInv'
  BY <1>1, <1>2, <1>4, Zenon DEF CorrelationInv, PromptInv
<1>7. RightInv'
  BY <1>1, <1>2 DEF CorrelationInv, RightInv
<1> QED
  BY <1>5, <1>6, <1>7 DEF CorrelationInv

\* clock_discipline.h says of a sample that it is submitted "only after a PPS edge
\* has been correlated to a valid GNSS UTC second".  Where nothing is lost and the
\* task starts before the second pulse, the edge is correlated to its own second
\* (clock_monitor_task, wait_for_gnss_sample); a run shows that one lost record ends it.
THEOREM CorrelationProof ==
    ASSUME Undisturbed
    PROVE  MonitorSpec => []EdgeCorrelatedToItsSecond
<1>1. MonitorInit => CorrelationInv
  <2> SUFFICES ASSUME MonitorInit PROVE CorrelationInv
    OBVIOUS
  <2>1. /\ now = 0 /\ captures = <<>> /\ Len(captures) = 0 /\ ~solution_valid
        /\ previous_capture = 0 /\ last_tim_tp = 0 /\ tim_tp.second = 0 /\ pc = "init"
    BY DEF MonitorInit, Init, NoTimTp
  <2>2. LastPulse = 0 /\ now % Second = 0 /\ TimTpLatest \in Nat /\ 0 * Second = 0
    <3>1. /\ 0 \div Second \in Nat /\ 0 % Second \in 0 .. Second - 1
          /\ 0 = (0 \div Second) * Second + (0 % Second)
      BY WholeSeconds
    <3> DEFINE q == 0 \div Second
               r == 0 % Second
    <3>2. q \in Nat /\ r \in Nat /\ 0 = q * Second + r /\ Second \in Nat \ {0}
      BY <3>1, ClockAssumption
    <3> HIDE DEF q, r
    <3>3. q = 0 /\ r = 0 /\ 0 * Second = 0
      BY <3>2
    <3> QED BY <2>1, <3>3, ClockAssumption, MonitorAssumption DEF LastPulse, q, r
  <2> QED
    BY <2>1, <2>2 DEF CorrelationInv, FeedInv, PromptInv, RightInv
<1>2. MonitorIInv /\ OrderInv /\ CorrelationInv /\ [MonitorNext]_monitorVars
        => CorrelationInv'
  BY TickCorrelation, HandleTimTpCorrelation, TakeCaptureCorrelation,
     TakeTimTpCorrelation, OtherCorrelation DEF MonitorNext
<1>3. MonitorIInv /\ CorrelationInv => EdgeCorrelatedToItsSecond
  BY DEF MonitorIInv, IInv, CorrelationInv, RightInv, EdgeCorrelatedToItsSecond,
     RejectsEndSolution
<1> QED
  BY <1>1, <1>2, <1>3, MonitorInvariance, OrderInvariance, PTL DEF MonitorSpec

-------------------------------------------------------------------------------
(* The checksum of a datagram, in one's complement. *)

LEMMA RadixOfInt ==
    ASSUME NEW n \in Int
    PROVE  /\ n \div Radix \in Int /\ n % Radix \in 0 .. Radix - 1
           /\ n = Radix * (n \div Radix) + (n % Radix)
BY ReplyAssumption

\* Folding takes multiples of AllOnes away, and makes nothing of nothing only.
LEMMA FoldSum ==
    ASSUME NEW s \in 0 .. 3 * AllOnes
    PROVE  /\ Fold(s) \in Word
           /\ Fold(s) \in {s, s - AllOnes, s - 2 * AllOnes}
           /\ s # 0 => Fold(s) # 0
<1> DEFINE q == s \div Radix
           r == s % Radix
<1>1. /\ q \in Int /\ r \in 0 .. Radix - 1 /\ s = Radix * q + r
      /\ Radix \in Nat /\ Radix >= 2
      /\ AllOnes = Radix - 1 /\ Word = 0 .. AllOnes /\ s \in Nat
      /\ Carry(s) = r + q
  BY RadixOfInt, ReplyAssumption DEF AllOnes, Word, Carry
<1>2. /\ Radix % Radix = 0 /\ Radix \div Radix = 1
  BY ReplyAssumption
<1>3. Carry(Radix) = 1
  BY <1>2 DEF Carry
<1> HIDE DEF q, r
<1>4. q \in {0, 1, 2}
  <2>1. ASSUME q >= 3 PROVE FALSE
    <3>1. Radix * q >= Radix * 3
      BY <1>1, <2>1
    <3> QED BY <1>1, <3>1
  <2>2. ASSUME q < 0 PROVE FALSE
    <3>1. Radix * q <= Radix * (-1)
      BY <1>1, <2>2
    <3> QED BY <1>1, <3>1
  <2> QED BY <1>1, <2>1, <2>2
<1>5. CASE q = 0
  <2>1. s = r
    BY <1>1, <1>5
  <2> QED BY <1>1, <2>1 DEF Fold
<1>6. CASE q = 1
  <2>1. s = Radix + r /\ Carry(s) = r + 1
    BY <1>1, <1>6
  <2>2. CASE r + 1 < Radix
    <3>1. Fold(s) = r + 1
      BY <1>1, <2>1, <2>2 DEF Fold
    <3> QED BY <1>1, <2>1, <2>2, <3>1
  <2>3. CASE r + 1 = Radix
    <3>1. Fold(s) = 1
      BY <1>1, <1>3, <2>1, <2>3 DEF Fold
    <3> QED BY <1>1, <2>1, <2>3, <3>1
  <2> QED BY <1>1, <2>2, <2>3
<1>7. CASE q = 2
  <2>1. s = 2 * Radix + r /\ Carry(s) = r + 2
    BY <1>1, <1>7
  <2>2. r + 2 < Radix
    BY <1>1, <2>1
  <2>3. Fold(s) = r + 2
    BY <1>1, <2>1, <2>2 DEF Fold
  <2> QED BY <1>1, <2>1, <2>2, <2>3
<1> QED BY <1>4, <1>5, <1>6, <1>7

LEMMA WordsOfDatagram ==
    /\ AllOnes \in Nat \ {0} /\ Word = 0 .. AllOnes /\ 0 \in Word
    /\ \A time \in Int : High(time) \in Word /\ Low(time) \in Word
<1>1. /\ AllOnes \in Nat \ {0} /\ Word = 0 .. AllOnes /\ 0 \in Word
  BY ReplyAssumption DEF AllOnes, Word
<1>2. ASSUME NEW time \in Int PROVE High(time) \in Word /\ Low(time) \in Word
  <2>1. time \div Radix \in Int /\ Low(time) \in Word
    BY RadixOfInt DEF Low, Word, AllOnes
  <2>2. High(time) \in Word
    BY <2>1, RadixOfInt DEF High, Word, AllOnes
  <2> QED BY <2>1, <2>2
<1> QED BY <1>1, <1>2

\* The sum of all words of a datagram, its checksum among them, is a multiple of
\* AllOnes.
Balanced(others, high, low, checksum) ==
    (others + high) + (low + checksum)
        \in {AllOnes, 2 * AllOnes, 3 * AllOnes, 4 * AllOnes}

\* That is what a client's stack finds out.
LEMMA VerifiesIsBalanced ==
    ASSUME NEW others \in Word \ {0}, NEW high \in Word, NEW low \in Word,
           NEW checksum \in Word \ {0}
    PROVE  Fold(Fold(Fold(others + high) + low) + checksum) = AllOnes
             <=> Balanced(others, high, low, checksum)
<1> DEFINE first == Fold(others + high)
           second == Fold(first + low)
           third == Fold(second + checksum)
<1>1. /\ AllOnes \in Nat \ {0} /\ Word = 0 .. AllOnes
  BY WordsOfDatagram
<1>2. /\ first \in Word \ {0}
      /\ first \in {others + high, (others + high) - AllOnes}
  <2>1. others + high \in 0 .. 3 * AllOnes /\ others + high # 0
    BY <1>1
  <2>2. /\ first \in Word /\ first # 0
        /\ first \in {others + high, (others + high) - AllOnes,
                      (others + high) - 2 * AllOnes}
    BY <2>1, FoldSum
  <2> HIDE DEF first
  <2> QED BY <1>1, <2>2
<1> HIDE DEF first
<1>3. /\ second \in Word \ {0}
      /\ second \in {first + low, (first + low) - AllOnes}
  <2>1. first + low \in 0 .. 3 * AllOnes /\ first + low # 0
    BY <1>1, <1>2
  <2>2. /\ second \in Word /\ second # 0
        /\ second \in {first + low, (first + low) - AllOnes,
                       (first + low) - 2 * AllOnes}
    BY <2>1, FoldSum
  <2> HIDE DEF second
  <2> QED BY <1>1, <1>2, <2>2
<1> HIDE DEF second
<1>4. /\ third \in Word \ {0}
      /\ third \in {second + checksum, (second + checksum) - AllOnes}
  <2>1. second + checksum \in 0 .. 3 * AllOnes /\ second + checksum # 0
    BY <1>1, <1>3
  <2>2. /\ third \in Word /\ third # 0
        /\ third \in {second + checksum, (second + checksum) - AllOnes,
                      (second + checksum) - 2 * AllOnes}
    BY <2>1, FoldSum
  <2> HIDE DEF third
  <2> QED BY <1>1, <1>3, <2>2
<1> HIDE DEF third
<1>5. third = AllOnes <=> Balanced(others, high, low, checksum)
  BY <1>1, <1>2, <1>3, <1>4 DEF Balanced
<1> QED BY <1>5 DEF third, second, first

\* The stack's checksum balances the datagram.
LEMMA ComposedVerifies ==
    ASSUME NEW others \in Word \ {0}, NEW time \in Int
    PROVE  /\ ChecksumOf(others, time) \in Word \ {0}
           /\ Fold(SumOf(others, time) + ChecksumOf(others, time)) = AllOnes
<1> DEFINE first == Fold(others + High(time))
           sum == Fold(first + Low(time))
<1>1. /\ AllOnes \in Nat \ {0} /\ Word = 0 .. AllOnes
      /\ High(time) \in Word /\ Low(time) \in Word
  BY WordsOfDatagram
<1>2. first \in Word \ {0}
  <2>1. others + High(time) \in 0 .. 3 * AllOnes /\ others + High(time) # 0
    BY <1>1
  <2> QED BY <2>1, FoldSum
<1> HIDE DEF first
<1>3. sum \in Word \ {0}
  <2>1. first + Low(time) \in 0 .. 3 * AllOnes /\ first + Low(time) # 0
    BY <1>1, <1>2
  <2> QED BY <2>1, FoldSum
<1>4. SumOf(others, time) = sum
  BY DEF SumOf, first, sum
<1> HIDE DEF sum
<1>5. ChecksumOf(others, time)
        = IF AllOnes - sum = 0 THEN AllOnes ELSE AllOnes - sum
  BY <1>4 DEF ChecksumOf, NonZero, Complement
<1>6. /\ ChecksumOf(others, time) \in Word \ {0}
      /\ sum + ChecksumOf(others, time) \in {AllOnes, 2 * AllOnes}
  BY <1>1, <1>3, <1>5
<1>7. sum + ChecksumOf(others, time) \in 0 .. 3 * AllOnes
  BY <1>1, <1>6
<1> DEFINE whole == sum + ChecksumOf(others, time)
<1>8. /\ Fold(whole) \in Word /\ (whole # 0 => Fold(whole) # 0)
      /\ Fold(whole) \in {whole, whole - AllOnes, whole - 2 * AllOnes}
  BY <1>7, FoldSum
<1>9. Fold(whole) = AllOnes
  BY <1>1, <1>6, <1>8
<1> QED BY <1>4, <1>6, <1>9

\* Replacing a word changes the checksum by the difference of the words.
LEMMA ReplaceKeeps ==
    ASSUME NEW checksum \in Word, NEW old \in Word, NEW new \in Word
    PROVE  /\ ReplaceWord(checksum, old, new) \in Word
           /\ ReplaceWord(checksum, old, new)
                \in {((checksum + old) - new) - AllOnes, (checksum + old) - new,
                     ((checksum + old) - new) + AllOnes}
<1> DEFINE s == (AllOnes - checksum) + (AllOnes - old) + new
<1>1. /\ AllOnes \in Nat \ {0} /\ Word = 0 .. AllOnes
  BY WordsOfDatagram
<1>2. s \in 0 .. 3 * AllOnes
  BY <1>1
<1>3. ReplaceWord(checksum, old, new) = AllOnes - Fold(s)
  BY DEF ReplaceWord, Complement
<1>4. Fold(s) \in Word /\ Fold(s) \in {s, s - AllOnes, s - 2 * AllOnes}
  BY <1>2, FoldSum
<1>5. s = 2 * AllOnes - ((checksum + old) - new)
  BY <1>1
<1> HIDE DEF s
<1> QED BY <1>1, <1>3, <1>4, <1>5

LEMMA WordsReplaced ==
    ASSUME NEW others \in Word \ {0}, NEW high \in Word, NEW low \in Word,
           NEW checksum \in Word \ {0}, NEW high2 \in Word, NEW low2 \in Word,
           Fold(Fold(Fold(others + high) + low) + checksum) = AllOnes
    PROVE  LET stamped == NonZero(ReplaceWord(ReplaceWord(checksum, high, high2),
                                              low, low2))
           IN  /\ stamped \in Word \ {0}
               /\ Fold(Fold(Fold(others + high2) + low2) + stamped) = AllOnes
<1> DEFINE half == ReplaceWord(checksum, high, high2)
           full == ReplaceWord(half, low, low2)
           stamped == NonZero(full)
<1>1. /\ AllOnes \in Nat \ {0} /\ Word = 0 .. AllOnes
  BY WordsOfDatagram
<1>2. Balanced(others, high, low, checksum)
  BY VerifiesIsBalanced
<1>3. /\ half \in Word
      /\ half \in {((checksum + high) - high2) - AllOnes,
                   (checksum + high) - high2,
                   ((checksum + high) - high2) + AllOnes}
  BY ReplaceKeeps
<1>0. half \in Word
  BY <1>3
<1> HIDE DEF half
<1>4. /\ full \in Word
      /\ full \in {((half + low) - low2) - AllOnes, (half + low) - low2,
                   ((half + low) - low2) + AllOnes}
  BY <1>0, ReplaceKeeps
<1> HIDE DEF full
<1>5. /\ stamped \in Word \ {0}
      /\ stamped \in {full, full + AllOnes}
  BY <1>1, <1>4 DEF NonZero
<1> HIDE DEF stamped
<1>6. Balanced(others, high2, low2, stamped)
  <2> DEFINE before == (others + high) + (low + checksum)
             after == (others + high2) + (low2 + stamped)
  <2>1. /\ before \in Int /\ after \in Int /\ 0 < after /\ after <= 4 * AllOnes
    BY <1>1, <1>5
  <2>2. after \in {before - 2 * AllOnes, before - AllOnes, before, before + AllOnes,
                   before + 2 * AllOnes, before + 3 * AllOnes}
    BY <1>1, <1>3, <1>4, <1>5
  <2>3. before \in {AllOnes, 2 * AllOnes, 3 * AllOnes, 4 * AllOnes}
    BY <1>2 DEF Balanced
  <2> HIDE DEF before, after
  <2>4. after \in {AllOnes, 2 * AllOnes, 3 * AllOnes, 4 * AllOnes}
    BY <1>1, <2>1, <2>2, <2>3
  <2> QED BY <2>4 DEF Balanced, after
<1>7. Fold(Fold(Fold(others + high2) + low2) + stamped) = AllOnes
  BY <1>1, <1>5, <1>6, VerifiesIsBalanced
<1> QED BY <1>5, <1>7 DEF stamped, full, half

\* The late stamp leaves a datagram balanced.
LEMMA RestampedVerifies ==
    ASSUME NEW others \in Word \ {0}, NEW old \in Int, NEW new \in Int,
           NEW checksum \in Word \ {0},
           Fold(SumOf(others, old) + checksum) = AllOnes
    PROVE  /\ Restamped(checksum, old, new) \in Word \ {0}
           /\ Fold(SumOf(others, new) + Restamped(checksum, old, new)) = AllOnes
<1>1. /\ High(old) \in Word /\ Low(old) \in Word
      /\ High(new) \in Word /\ Low(new) \in Word
  BY WordsOfDatagram
<1>2. Fold(Fold(Fold(others + High(old)) + Low(old)) + checksum) = AllOnes
  BY DEF SumOf
<1> QED
  BY <1>1, <1>2, WordsReplaced DEF Restamped, SumOf

LEMMA RestampedTyped ==
    ASSUME NEW checksum \in Word, NEW old \in Int, NEW new \in Int
    PROVE  Restamped(checksum, old, new) \in Word
<1> DEFINE half == ReplaceWord(checksum, High(old), High(new))
           full == ReplaceWord(half, Low(old), Low(new))
<1>1. half \in Word
  BY WordsOfDatagram, ReplaceKeeps
<1>2. full \in Word
  BY <1>1, WordsOfDatagram, ReplaceKeeps
<1> QED
  BY <1>2, WordsOfDatagram DEF Restamped, NonZero

-------------------------------------------------------------------------------
(* The server task. *)

Steps == {"before", "ptp", "after", "clock", "quality", "reference",
          "transmit", "built", "sent"}

Datagrams == [length : Nat, others : Word, checksum : Word, summed : BOOLEAN]

Replies == [pc : Steps, age : 0 .. ReplyTime,
            mapped : Int, receive : Int, reference : Int, transmit : Int,
            turnaround : Int, sampled : BOOLEAN, moved : BOOLEAN,
            datagram : Datagrams]

\* The locals of the server task keep their types.
ReplyTypeOK == reply = NoReply \/ reply \in Replies

\* The solution is the one the request found: after a sample only a serving
\* clock is known to be, and one that does not serve opens by a sample only.
Kept == solution_valid /\ (reply.sampled => state \in {"SYNCHRONIZED", "HOLDOVER"})

\* The frame's arrival in the time served now.
Arrival == NtpTimestamp - reply.age

\* What the one sample may have changed since an earlier read.
Slack == IF reply.sampled THEN AcceptableError ELSE 0

Mapped == {"clock", "quality", "reference", "transmit", "built"}

\* A sample that moved the clock has come, and the age the PTP counter told is
\* not over the age now.
HistoryInv ==
    /\ Busy /\ reply.moved => reply.sampled
    /\ reply.pc = "after" => reply.receive \in 0 .. reply.age

\* The first read of the clock, and what is made of it and the second one.
ReceiveInv ==
    Busy /\ Kept /\ ~reply.moved =>
        /\ reply.pc = "ptp" => reply.mapped <= NtpTimestamp + Slack
        /\ reply.pc = "after" => reply.mapped - reply.receive <= Arrival + Slack
        /\ reply.pc \in Mapped =>
             reply.receive - Arrival \in -(MaxBracket + Slack) .. MaxBracket + Slack

\* The clock's reference only moves on.
ReferenceInv ==
    reply.pc \in {"transmit", "built"} /\ Kept => reply.reference <= ReferenceTimestamp

Turnaround == (reply.transmit - reply.receive) - reply.turnaround

\* The reply once it is composed.
ComposedInv ==
    reply.pc \in {"built", "sent"} =>
        /\ reply.reference <= reply.transmit
        /\ ~reply.moved =>
             Turnaround \in -(AcceptableError + MaxBracket)
                            .. AcceptableError + MaxBracket

ReplyIInv ==
    /\ IInv
    /\ ReplyTypeOK
    /\ HistoryInv
    /\ ReceiveInv
    /\ ReferenceInv
    /\ ComposedInv

-------------------------------------------------------------------------------
(* The server task only reads. *)

LEMMA ReadsOnly == ASSUME [ReplyNext]_replyVars PROVE [Next]_vars
<1>1. CASE ReplyAdvance
  BY <1>1 DEF ReplyAdvance, Next
<1>2. ASSUME NEW sample \in Samples, ReplySample(sample) PROVE Next
  BY <1>2 DEF ReplySample, Next
<1>3. CASE ReplyPolicy
  BY <1>3 DEF ReplyPolicy, Next
<1>4. CASE UNCHANGED replyVars
  BY <1>4 DEF replyVars
<1> QED
  BY <1>1, <1>2, <1>3, <1>4
     DEF ReplyNext, Take, ReadBefore, ReadPtp, ReadAfter, ReadClock, ReadQuality,
         ReadReference, ReadTransmit, Drop, SendComposed, SendStamped, Finish, Read

\* The times served are integers, and the slack is the error accepted at most.
LEMMA TimeTyped ==
    ASSUME TypeOK
    PROVE  /\ NtpTimestamp \in Int /\ ReferenceTimestamp \in Int
           /\ AcceptableError \in Nat /\ MaxBracket \in Nat
           /\ Slack \in 0 .. AcceptableError
<1>1. /\ last.utc \in Nat /\ last.capture \in Nat /\ now \in Nat
      /\ reference.utc \in Nat /\ Second \in Nat
  BY ClockAssumption DEF TypeOK, Sample
<1>2. last.utc * Second \in Int /\ reference.utc * Second \in Int
  BY <1>1
<1> QED
  BY <1>1, <1>2, ClockAssumption, ReplyAssumption
     DEF NtpTimestamp, ReferenceTimestamp, Slack

\* What serves is kept, and its reference is not ahead of it.
LEMMA ServingKept ==
    ASSUME IInv, Serving
    PROVE  Kept /\ ReferenceTimestamp <= NtpTimestamp
<1>1. Kept
  BY DEF Serving, Kept
<1>2. reference.utc <= last.utc
  BY DEF IInv, Serving
<1>3. /\ reference.utc \in Nat /\ last.utc \in Nat
      /\ last.capture \in Nat /\ now \in Nat /\ last.capture <= now
  BY DEF IInv, TypeOK, Sample
<1>4. reference.utc * Second <= last.utc * Second
  BY <1>2, <1>3, TicksMonotone
<1>5. reference.utc * Second \in Int /\ last.utc * Second \in Int
  BY <1>3, ClockAssumption
<1> QED
  BY <1>1, <1>3, <1>4, <1>5 DEF ReferenceTimestamp, NtpTimestamp

LEMMA ReplyInitInv == ReplyInit => ReplyIInv
BY InitInv
   DEF ReplyInit, NoReply, ReplyIInv, ReplyTypeOK, Busy, HistoryInv,
       ReceiveInv, ReferenceInv, ComposedInv

\* A task that waits for a request has nothing to keep.
LEMMA IdleKeeps ==
    ASSUME reply' = NoReply
    PROVE  (ReplyTypeOK /\ HistoryInv /\ ReceiveInv /\ ReferenceInv /\ ComposedInv)'
BY DEF NoReply, ReplyTypeOK, Busy, HistoryInv, ReceiveInv, ReferenceInv, ComposedInv

-------------------------------------------------------------------------------
(* The clock moves on under a request. *)

LEMMA AdvanceKeeps ==
    ASSUME ReplyIInv, ReplyAdvance
    PROVE  (ReplyTypeOK /\ HistoryInv /\ ReceiveInv /\ ReferenceInv /\ ComposedInv)'
<1>1. CASE ~Busy
  <2>1. reply' = NoReply
    BY <1>1 DEF ReplyAdvance, ReplyIInv, ReplyTypeOK, Replies, Steps, Busy, NoReply
  <2> QED
    BY <2>1, IdleKeeps
<1>2. CASE Busy
  <2>1. /\ reply \in Replies /\ reply.age < ReplyTime
        /\ reply' = [reply EXCEPT !.age = @ + 1]
    BY <1>2 DEF ReplyAdvance, ReplyIInv, ReplyTypeOK, Busy, NoReply
  <2>2. /\ reply.age + 1 \in 0 .. ReplyTime
        /\ reply.age \in Nat
    BY <2>1, ReplyAssumption DEF Replies
  <2>3. /\ reply'.age = reply.age + 1
        /\ reply' \in Replies
        /\ reply'.pc = reply.pc /\ reply'.turnaround = reply.turnaround
        /\ reply'.mapped = reply.mapped /\ reply'.receive = reply.receive
        /\ reply'.reference = reply.reference /\ reply'.transmit = reply.transmit
        /\ reply'.sampled = reply.sampled /\ reply'.moved = reply.moved
    BY <2>1, <2>2 DEF Replies
  <2>4. UNCHANGED clock /\ now' = now + 1 /\ TypeOK
    BY DEF ReplyAdvance, Advance, ReplyIInv, IInv
  <2>5. NtpTimestamp' = NtpTimestamp + 1 /\ NtpTimestamp \in Int
    <3>1. last.utc * Second \in Int /\ last.capture \in Int /\ now \in Int
      BY <2>4, ClockAssumption DEF TypeOK, Sample
    <3> QED
      BY <2>4, <3>1 DEF NtpTimestamp, clock
  <2>6. Arrival' = Arrival /\ Arrival \in Int
    BY <2>2, <2>3, <2>5 DEF Arrival
  <2>7. /\ Kept' = Kept /\ Slack' = Slack /\ Busy' = Busy
        /\ ReferenceTimestamp' = ReferenceTimestamp /\ Turnaround' = Turnaround
    BY <2>3, <2>4 DEF Kept, Slack, Busy, ReferenceTimestamp, Turnaround, clock
  <2>8. HistoryInv'
    BY <2>2, <2>3, <2>7 DEF HistoryInv, ReplyIInv
  <2>9. ReceiveInv'
    <3> SUFFICES ASSUME Busy, Kept, ~reply.moved
                 PROVE  /\ reply.pc = "ptp" => reply.mapped <= NtpTimestamp' + Slack
                        /\ reply.pc = "after"
                             => reply.mapped - reply.receive <= Arrival + Slack
                        /\ reply.pc \in Mapped =>
                             reply.receive - Arrival
                                 \in -(MaxBracket + Slack) .. MaxBracket + Slack
      BY <2>3, <2>6, <2>7 DEF ReceiveInv
    <3>1. Slack \in Int /\ reply.mapped \in Int
      BY <2>1, <2>4, TimeTyped DEF Replies
    <3> QED
      BY <2>5, <3>1 DEF ReceiveInv, ReplyIInv
  <2>10. ReferenceInv' /\ ComposedInv'
    BY <2>3, <2>7 DEF ReferenceInv, ComposedInv, ReplyIInv
  <2> QED
    BY <2>3, <2>8, <2>9, <2>10 DEF ReplyTypeOK
<1> QED
  BY <1>1, <1>2

\* A policy keeps the time, and never makes a clock serve.
LEMMA PolicyKeeps ==
    ASSUME ReplyIInv, ReplyPolicy
    PROVE  (ReplyTypeOK /\ HistoryInv /\ ReceiveInv /\ ReferenceInv /\ ComposedInv)'
<1>1. reply' = reply /\ UNCHANGED <<now, last, reference>>
  BY DEF ReplyPolicy, UpdateReferenceState, EnforceHoldoverPolicy
<1>2. solution_valid' => solution_valid
  BY DEF ReplyPolicy, UpdateReferenceState, EnforceHoldoverPolicy
<1>3. /\ solution_valid'
      /\ state' \in {"SYNCHRONIZED", "HOLDOVER"}
      => state \in {"SYNCHRONIZED", "HOLDOVER"}
  BY <1>2 DEF ReplyPolicy, UpdateReferenceState, EnforceHoldoverPolicy
<1>4. Kept' => Kept
  BY <1>1, <1>2, <1>3 DEF Kept
<1>5. /\ NtpTimestamp' = NtpTimestamp /\ ReferenceTimestamp' = ReferenceTimestamp
      /\ Slack' = Slack /\ Arrival' = Arrival /\ Busy' = Busy
      /\ Turnaround' = Turnaround
  BY <1>1 DEF NtpTimestamp, ReferenceTimestamp, Slack, Arrival, Busy, Turnaround
<1>6. ReplyTypeOK' /\ HistoryInv' /\ ComposedInv'
  BY <1>1, <1>5 DEF ReplyIInv, ReplyTypeOK, HistoryInv, ComposedInv
<1>7. ReceiveInv' /\ ReferenceInv'
  BY <1>1, <1>4, <1>5 DEF ReplyIInv, ReceiveInv, ReferenceInv
<1> QED
  BY <1>6, <1>7

-------------------------------------------------------------------------------
(* A sample reaches the clock under a request. *)

\* What every outcome of a sample leaves of the reply.
LEMMA SampledReply ==
    ASSUME ReplyIInv, Busy, NEW sample \in Samples, ReplySample(sample)
    PROVE  /\ reply \in Replies /\ reply' \in Replies /\ ~reply.sampled /\ ~reply.moved
           /\ reply'.sampled /\ reply'.moved = Moves(sample)
           /\ reply'.pc = reply.pc /\ reply'.turnaround = reply.turnaround
           /\ reply'.age = reply.age
           /\ reply'.mapped = reply.mapped /\ reply'.receive = reply.receive
           /\ reply'.reference = reply.reference /\ reply'.transmit = reply.transmit
           /\ Busy' /\ Turnaround' = Turnaround
           /\ Slack = 0 /\ Slack' = AcceptableError
<1>1. reply \in Replies
  BY DEF ReplyIInv, ReplyTypeOK, Busy, NoReply
<1>2. /\ ~reply.sampled
      /\ reply' = [reply EXCEPT !.sampled = TRUE, !.moved = Moves(sample)]
  BY DEF ReplySample
<1>3. Moves(sample) \in BOOLEAN /\ TRUE \in BOOLEAN
  BY DEF Moves, Backward, Acceptable, ReplyIInv, IInv, TypeOK
<1>4. /\ reply'.sampled /\ reply'.moved = Moves(sample)
      /\ reply'.pc = reply.pc /\ reply'.turnaround = reply.turnaround
      /\ reply'.age = reply.age
      /\ reply'.mapped = reply.mapped /\ reply'.receive = reply.receive
      /\ reply'.reference = reply.reference /\ reply'.transmit = reply.transmit
  BY <1>1, <1>2 DEF Replies
<1>5. reply' \in Replies
  BY <1>1, <1>2, <1>3 DEF Replies
<1>6. ~reply.moved
  BY <1>2 DEF ReplyIInv, HistoryInv
<1>7. Busy' /\ Turnaround' = Turnaround
  BY <1>4 DEF Busy, Turnaround
<1>8. Slack = 0 /\ Slack' = AcceptableError
  BY <1>2, <1>4 DEF Slack
<1> QED
  BY <1>1, <1>2, <1>4, <1>5, <1>6, <1>7, <1>8

\* Arithmetic of a bounded step.
LEMMA StepBound ==
    ASSUME NEW a \in Int, NEW b \in Int, NEW e \in Nat, b - a \in -e .. e
    PROVE  a <= b + e
OBVIOUS

LEMMA BelowStep ==
    ASSUME NEW a \in Int, NEW b \in Int, NEW e \in Nat, a <= b + e,
           NEW m \in Int, NEW r \in Int
    PROVE  /\ m <= a => m <= b + e
           /\ \A k \in Int : m - r <= a - k => m - r <= (b - k) + e
OBVIOUS

\* A step of the time served by no more than the error accepted is within the
\* slack of a request that has met its sample.
LEMMA BoundedStepKeeps ==
    ASSUME ReplyIInv, Busy, NEW sample \in Samples, ReplySample(sample),
           solution_valid, NtpTimestamp' \in Int,
           NtpTimestamp' - NtpTimestamp \in -AcceptableError .. AcceptableError
    PROVE  ReceiveInv'
<1>1. /\ reply \in Replies /\ ~reply.sampled /\ ~reply.moved
      /\ reply'.pc = reply.pc /\ reply'.age = reply.age
      /\ reply'.mapped = reply.mapped /\ reply'.receive = reply.receive
      /\ Slack = 0 /\ Slack' = AcceptableError
  BY SampledReply
<1>2. Kept
  BY <1>1 DEF Kept
<1>3. /\ NtpTimestamp \in Int /\ AcceptableError \in Nat /\ MaxBracket \in Nat
  BY TimeTyped DEF ReplyIInv, IInv
<1>4. /\ reply.age \in Int /\ reply.mapped \in Int /\ reply.receive \in Int
  BY <1>1, ReplyAssumption, ClockAssumption DEF Replies
<1>5. /\ reply.pc = "ptp" => reply.mapped <= NtpTimestamp
      /\ reply.pc = "after" => reply.mapped - reply.receive <= NtpTimestamp - reply.age
      /\ reply.pc \in Mapped =>
           reply.receive - (NtpTimestamp - reply.age) \in -MaxBracket .. MaxBracket
  BY <1>1, <1>2, <1>3, <1>4 DEF ReplyIInv, ReceiveInv, Arrival
<1>0. NtpTimestamp <= NtpTimestamp' + AcceptableError
  BY <1>3, StepBound
<1>6. ASSUME reply.pc = "ptp" PROVE reply.mapped <= NtpTimestamp' + AcceptableError
  <2>1. reply.mapped <= NtpTimestamp
    BY <1>5, <1>6
  <2> QED
    BY <1>3, <1>4, <1>0, <2>1, BelowStep
<1>7. ASSUME reply.pc = "after"
      PROVE  reply.mapped - reply.receive
               <= (NtpTimestamp' - reply.age) + AcceptableError
  <2>1. reply.mapped - reply.receive <= NtpTimestamp - reply.age
    BY <1>5, <1>7
  <2> QED
    BY <1>3, <1>4, <1>0, <2>1, BelowStep
<1>8. ASSUME reply.pc \in Mapped
      PROVE  reply.receive - (NtpTimestamp' - reply.age)
               \in -(MaxBracket + AcceptableError) .. MaxBracket + AcceptableError
  <2> DEFINE error == reply.receive - (NtpTimestamp - reply.age)
             step == NtpTimestamp' - NtpTimestamp
  <2>1. /\ error \in -MaxBracket .. MaxBracket
        /\ step \in -AcceptableError .. AcceptableError
    BY <1>5, <1>8
  <2>2. reply.receive - (NtpTimestamp' - reply.age) = error - step
    BY <1>3, <1>4
  <2>3. error - step \in -(MaxBracket + AcceptableError) .. MaxBracket + AcceptableError
    <3> HIDE DEF error, step
    <3> QED BY <1>3, <2>1
  <2> QED
    BY <2>2, <2>3
<1> QED
  BY <1>1, <1>6, <1>7, <1>8 DEF ReceiveInv, Arrival

\* A second that is not backward is later than the reference.
LEMMA ReferenceMovesOn ==
    ASSUME IInv, NEW sample \in Samples, solution_valid, ~Backward(sample),
           reference' \in {reference, sample}
    PROVE  ReferenceTimestamp <= ReferenceTimestamp'
<1>1. /\ sample \in Sample /\ reference \in Sample /\ last \in Sample
      /\ Second \in Nat
  BY SampleTyped, ClockAssumption DEF IInv, TypeOK
<1>2. /\ reference.utc \in Nat /\ reference'.utc \in Nat
      /\ reference.utc <= reference'.utc
  BY <1>1 DEF IInv, Sample, Backward
<1>3. reference.utc * Second <= reference'.utc * Second
  BY <1>2, TicksMonotone
<1> QED
  BY <1>3 DEF ReferenceTimestamp

LEMMA SampleKeeps ==
    ASSUME ReplyIInv, NEW sample \in Samples, ReplySample(sample)
    PROVE  (ReplyTypeOK /\ HistoryInv /\ ReceiveInv /\ ReferenceInv /\ ComposedInv)'
<1>1. CASE ~Busy
  <2>1. reply' = NoReply
    BY <1>1 DEF ReplySample, ReplyIInv, ReplyTypeOK, Replies, Steps, Busy, NoReply
  <2> QED
    BY <2>1, IdleKeeps
<1>2. CASE Busy
  <2>1. /\ reply \in Replies /\ reply' \in Replies /\ ~reply.sampled /\ ~reply.moved
        /\ reply'.sampled /\ reply'.moved = Moves(sample)
        /\ reply'.pc = reply.pc /\ Turnaround' = Turnaround
        /\ reply'.age = reply.age /\ reply'.receive = reply.receive
        /\ reply'.reference = reply.reference /\ reply'.transmit = reply.transmit
    BY <1>2, SampledReply
  <2>2. ReplyTypeOK' /\ HistoryInv' /\ ComposedInv'
    BY <2>1 DEF ReplyTypeOK, HistoryInv, ComposedInv, ReplyIInv
  <2>3. /\ SubmitSample(sample) /\ IInv /\ TypeOK
        /\ sample \in Sample /\ NtpTimestamp \in Int
        /\ ReferenceTimestamp \in Int /\ AcceptableError \in Nat
    BY SampleTyped, TimeTyped DEF ReplySample, ReplyIInv, IInv, TypeOK
  <2>4. CASE FirstSample(sample)
    <3>1. ~Kept'
      BY <2>1, <2>4 DEF FirstSample, Kept
    <3> QED
      BY <2>2, <3>1 DEF ReceiveInv, ReferenceInv
  <2>5. CASE RejectBackward(sample)
    <3>1. /\ solution_valid /\ UNCHANGED <<now, last, reference>>
      BY <2>5 DEF RejectBackward
    <3>2. NtpTimestamp' = NtpTimestamp /\ ReferenceTimestamp' = ReferenceTimestamp
      BY <3>1 DEF NtpTimestamp, ReferenceTimestamp
    <3>3. NtpTimestamp' - NtpTimestamp \in -AcceptableError .. AcceptableError
      BY <2>3, <3>2
    <3>4. ReceiveInv'
      BY <1>2, <2>3, <3>1, <3>2, <3>3, BoundedStepKeeps
    <3>5. Kept
      BY <2>1, <3>1 DEF Kept
    <3>6. ReferenceInv'
      BY <2>1, <3>2, <3>5 DEF ReferenceInv, ReplyIInv
    <3> QED
      BY <2>2, <3>4, <3>6
  <2>6. CASE Reanchor(sample)
    <3>1. /\ solution_valid /\ ~Backward(sample) /\ ~Acceptable(sample)
          /\ reference' = reference
      BY <2>6 DEF Reanchor
    <3>2. reply'.moved
      BY <2>1, <3>1 DEF Moves
    <3>3. Kept /\ ReferenceTimestamp' = ReferenceTimestamp
      BY <2>1, <3>1 DEF Kept, ReferenceTimestamp
    <3>4. ReferenceInv'
      BY <2>1, <3>3 DEF ReferenceInv, ReplyIInv
    <3> QED
      BY <2>2, <3>2, <3>4 DEF ReceiveInv
  <2>7. CASE AcceptSample(sample)
    <3>1. /\ solution_valid /\ ~Backward(sample) /\ Acceptable(sample)
          /\ reference' = sample /\ last' = sample /\ now' = now
      BY <2>7 DEF AcceptSample
    <3>2. NtpTimestamp' - NtpTimestamp \in -AcceptableError .. AcceptableError
      BY <2>3, <3>1, StepIsPhaseError DEF Acceptable
    <3>3. NtpTimestamp' \in Int
      <4>1. sample.utc * Second \in Int /\ sample.capture \in Int /\ now \in Int
        BY <2>3, ClockAssumption DEF Sample, TypeOK
      <4> QED
        BY <3>1, <4>1 DEF NtpTimestamp
    <3>4. ReceiveInv'
      BY <1>2, <3>1, <3>2, <3>3, BoundedStepKeeps
    <3>5. Kept /\ ReferenceTimestamp <= ReferenceTimestamp'
      BY <2>1, <2>3, <3>1, ReferenceMovesOn DEF Kept
    <3>6. ReferenceTimestamp' \in Int
      BY <2>3, <3>1, ClockAssumption DEF ReferenceTimestamp, Sample
    <3>7. reply.reference \in Int
      BY <2>1 DEF Replies
    <3>8. ASSUME reply.pc \in {"transmit", "built"}
          PROVE  reply.reference <= ReferenceTimestamp'
      <4>1. reply.reference <= ReferenceTimestamp
        BY <3>5, <3>8 DEF ReferenceInv, ReplyIInv
      <4> QED
        BY <2>3, <3>5, <3>6, <3>7, <4>1
    <3>9. ReferenceInv'
      BY <2>1, <3>8 DEF ReferenceInv
    <3> QED
      BY <2>2, <3>4, <3>9
  <2> QED
    BY <2>3, <2>4, <2>5, <2>6, <2>7 DEF SubmitSample
<1> QED
  BY <1>1, <1>2

-------------------------------------------------------------------------------
(* The steps of the server task: the clock stands still. *)

LEMMA ClockStands ==
    ASSUME UNCHANGED vars
    PROVE  /\ NtpTimestamp' = NtpTimestamp
           /\ ReferenceTimestamp' = ReferenceTimestamp
           /\ solution_valid' = solution_valid /\ state' = state
BY DEF vars, clock, NtpTimestamp, ReferenceTimestamp

\* A step within a request keeps its history, so what is Kept and the slack.
LEMMA TaskStep ==
    ASSUME ReplyTypeOK, UNCHANGED vars, reply' \in Replies,
           reply'.sampled = reply.sampled, reply'.age = reply.age
    PROVE  /\ Kept' = Kept /\ Slack' = Slack /\ Arrival' = Arrival
           /\ NtpTimestamp' = NtpTimestamp
           /\ ReferenceTimestamp' = ReferenceTimestamp
           /\ ReplyTypeOK'
BY ClockStands DEF Kept, Slack, Arrival, ReplyTypeOK

\* The integers of a request.
LEMMA RequestTyped ==
    ASSUME ReplyIInv, reply.pc \in Steps
    PROVE  /\ reply \in Replies /\ Busy
           /\ reply.mapped \in Int /\ reply.receive \in Int
           /\ reply.reference \in Int /\ reply.transmit \in Int
           /\ reply.age \in Nat /\ reply.age \in 0 .. ReplyTime
           /\ NtpTimestamp \in Int /\ ReferenceTimestamp \in Int
           /\ Arrival = NtpTimestamp - reply.age /\ Arrival \in Int
           /\ AcceptableError \in Nat /\ MaxBracket \in Nat
           /\ Slack \in Nat /\ Slack <= AcceptableError
<1>1. reply \in Replies /\ Busy
  BY DEF ReplyIInv, ReplyTypeOK, NoReply, Steps, Busy
<1>2. reply.age \in Nat /\ reply.age \in 0 .. ReplyTime
  BY <1>1, ReplyAssumption, ClockAssumption DEF Replies
<1>3. /\ NtpTimestamp \in Int /\ ReferenceTimestamp \in Int
      /\ AcceptableError \in Nat /\ MaxBracket \in Nat
      /\ Slack \in 0 .. AcceptableError
  BY TimeTyped DEF ReplyIInv, IInv
<1>4. Arrival = NtpTimestamp - reply.age /\ Arrival \in Int
  BY <1>2, <1>3 DEF Arrival
<1> QED
  BY <1>1, <1>2, <1>3, <1>4 DEF Replies

LEMMA TakeKeeps ==
    ASSUME ReplyIInv, NEW age \in 0 .. ReplyTime, Take(age)
    PROVE  (ReplyTypeOK /\ HistoryInv /\ ReceiveInv /\ ReferenceInv /\ ComposedInv)'
<1>1. NoDatagram \in Datagrams
  BY WordsOfDatagram DEF NoDatagram, Datagrams
<1>2. /\ reply' = Request(age) /\ reply' \in Replies
      /\ reply'.pc = "before" /\ ~reply'.moved
  BY <1>1 DEF Take, Request, Replies, Steps
<1> QED
  BY <1>2 DEF ReplyTypeOK, HistoryInv, ReceiveInv, ReferenceInv, ComposedInv, Mapped

LEMMA ReadBeforeKeeps ==
    ASSUME ReplyIInv, ReadBefore
    PROVE  (ReplyTypeOK /\ HistoryInv /\ ReceiveInv /\ ReferenceInv /\ ComposedInv)'
<1>1. /\ reply.pc = "before" /\ UNCHANGED vars
      /\ reply' = [reply EXCEPT !.pc = "ptp", !.mapped = NtpTimestamp]
  BY DEF ReadBefore, Read
<1>2. reply \in Replies /\ Busy /\ NtpTimestamp \in Int /\ Slack \in Nat
  BY <1>1, RequestTyped DEF Steps
<1>3. /\ reply' \in Replies /\ reply'.pc = "ptp" /\ reply'.mapped = NtpTimestamp
      /\ reply'.sampled = reply.sampled /\ reply'.moved = reply.moved
      /\ reply'.age = reply.age
  BY <1>1, <1>2 DEF Replies, Steps
<1>4. /\ ReplyTypeOK' /\ NtpTimestamp' = NtpTimestamp /\ Slack' = Slack
  BY <1>1, <1>3, TaskStep DEF ReplyIInv
<1>5. NtpTimestamp <= NtpTimestamp + Slack
  BY <1>2
<1>6. HistoryInv' /\ ReferenceInv' /\ ComposedInv'
  BY <1>2, <1>3 DEF HistoryInv, ReferenceInv, ComposedInv, ReplyIInv
<1>7. ReceiveInv'
  BY <1>3, <1>4, <1>5 DEF ReceiveInv, Mapped
<1> QED
  BY <1>4, <1>6, <1>7

LEMMA ReadPtpKeeps ==
    ASSUME ReplyIInv, ReadPtp
    PROVE  (ReplyTypeOK /\ HistoryInv /\ ReceiveInv /\ ReferenceInv /\ ComposedInv)'
<1> DEFINE age == reply.age
<1>1. /\ reply.pc = "ptp" /\ UNCHANGED vars
      /\ reply' = [reply EXCEPT !.pc = "after", !.receive = age]
  BY DEF ReadPtp
<1>2. /\ reply \in Replies /\ Busy /\ reply.age \in Nat /\ reply.mapped \in Int
      /\ NtpTimestamp \in Int /\ Slack \in Nat /\ Arrival = NtpTimestamp - reply.age
  BY <1>1, RequestTyped DEF Steps
<1>3. /\ reply' \in Replies /\ reply'.pc = "after" /\ reply'.mapped = reply.mapped
      /\ reply'.receive = reply.age /\ reply'.age = reply.age
      /\ reply'.sampled = reply.sampled /\ reply'.moved = reply.moved
  <2>1. age \in Int
    BY <1>2
  <2> HIDE DEF age
  <2>2. /\ reply' \in Replies /\ reply'.pc = "after" /\ reply'.mapped = reply.mapped
        /\ reply'.receive = age /\ reply'.age = reply.age
        /\ reply'.sampled = reply.sampled /\ reply'.moved = reply.moved
    BY <1>1, <1>2, <2>1 DEF Replies, Steps
  <2> QED
    BY <2>2 DEF age
<1>4. /\ ReplyTypeOK' /\ Kept' = Kept /\ Slack' = Slack /\ Arrival' = Arrival
  BY <1>1, <1>3, TaskStep DEF ReplyIInv
<1>5. reply.age \in 0 .. reply.age
  BY <1>2
<1>6. HistoryInv' /\ ReferenceInv' /\ ComposedInv'
  BY <1>2, <1>3, <1>5 DEF HistoryInv, ReferenceInv, ComposedInv, ReplyIInv
<1>7. ASSUME Kept, ~reply.moved PROVE reply.mapped - reply.age <= Arrival + Slack
  <2>1. reply.mapped <= NtpTimestamp + Slack
    BY <1>1, <1>2, <1>7 DEF ReceiveInv, ReplyIInv
  <2> QED
    BY <1>2, <2>1
<1>8. ReceiveInv'
  BY <1>3, <1>4, <1>7 DEF ReceiveInv, Mapped
<1> QED
  BY <1>4, <1>6, <1>8

\* The middle of the two reads, less the age told between them, is the arrival
\* to within the bracket and what a sample moved between the reads.
LEMMA MiddleOfReads ==
    ASSUME NEW m \in Int, NEW n \in Int, NEW r \in Nat, NEW a \in Nat,
           NEW b \in Nat, NEW s \in Nat,
           r <= a, n - m \in 0 .. b, m - r <= (n - a) + s
    PROVE  /\ (m + (n - m) \div 2) - r \in Int
           /\ ((m + (n - m) \div 2) - r) - (n - a) \in -(b + s) .. b + s
<1>1. PICK h \in Int : h = (n - m) \div 2 /\ 0 <= h /\ h <= n - m
  OBVIOUS
<1>2. /\ (m + h) - r \in Int
      /\ ((m + h) - r) - (n - a) \in -(b + s) .. b + s
  BY <1>1
<1> QED
  BY <1>1, <1>2

LEMMA ReadAfterKeeps ==
    ASSUME ReplyIInv, ReadAfter
    PROVE  (ReplyTypeOK /\ HistoryInv /\ ReceiveInv /\ ReferenceInv /\ ComposedInv)'
<1> DEFINE middle == reply.mapped + (NtpTimestamp - reply.mapped) \div 2
           mapped == middle - reply.receive
<1>1. /\ reply.pc = "after" /\ UNCHANGED vars /\ Serving
      /\ NtpTimestamp - reply.mapped \in 0 .. MaxBracket
  BY DEF ReadAfter, Read, InBracket
<1>0. reply' = [reply EXCEPT !.pc = "clock", !.mapped = 0, !.receive = mapped]
  BY DEF ReadAfter, Read
<1>2. /\ reply \in Replies /\ Busy /\ reply.age \in Nat /\ reply.mapped \in Int
      /\ NtpTimestamp \in Int /\ Slack \in Nat /\ Arrival = NtpTimestamp - reply.age
      /\ MaxBracket \in Nat
  BY <1>1, RequestTyped DEF Steps
<1>3. reply.receive \in Nat /\ reply.receive <= reply.age
  BY <1>1, <1>2 DEF HistoryInv, ReplyIInv
<1>4. mapped \in Int
  BY <1>2, <1>3
<1>5. ASSUME Kept, ~reply.moved
      PROVE  mapped - Arrival \in -(MaxBracket + Slack) .. MaxBracket + Slack
  <2>1. reply.mapped - reply.receive <= (NtpTimestamp - reply.age) + Slack
    BY <1>1, <1>2, <1>5 DEF ReceiveInv, ReplyIInv
  <2> QED
    BY <1>1, <1>2, <1>3, <2>1, MiddleOfReads
<1> HIDE DEF middle, mapped
<1>6. /\ reply' \in Replies /\ reply'.pc = "clock" /\ reply'.receive = mapped
      /\ reply'.age = reply.age
      /\ reply'.sampled = reply.sampled /\ reply'.moved = reply.moved
  <2>1. reply \in Replies
    BY <1>2
  <2> DEFINE cleared == [reply EXCEPT !.mapped = 0]
             stepped == [cleared EXCEPT !.pc = "clock"]
  <2>2. /\ cleared \in Replies /\ cleared.age = reply.age
        /\ cleared.sampled = reply.sampled /\ cleared.moved = reply.moved
    BY <2>1 DEF Replies
  <2>3. reply' = [stepped EXCEPT !.receive = mapped]
    BY <1>0, <2>1 DEF Replies
  <2> HIDE DEF cleared
  <2>4. /\ stepped \in Replies /\ stepped.pc = "clock" /\ stepped.age = reply.age
        /\ stepped.sampled = reply.sampled /\ stepped.moved = reply.moved
    BY <2>2 DEF Replies, Steps
  <2> HIDE DEF stepped
  <2> QED
    BY <1>4, <2>3, <2>4 DEF Replies
<1>7. /\ ReplyTypeOK' /\ Kept' = Kept /\ Slack' = Slack /\ Arrival' = Arrival
  BY <1>1, <1>6, TaskStep DEF ReplyIInv
<1>8. HistoryInv' /\ ReferenceInv' /\ ComposedInv'
  BY <1>2, <1>6 DEF HistoryInv, ReferenceInv, ComposedInv, ReplyIInv
<1>9. ReceiveInv'
  BY <1>5, <1>6, <1>7 DEF ReceiveInv
<1> QED
  BY <1>7, <1>8, <1>9

\* A step that moves on behind the mapping, and leaves what it mapped.
LEMMA MappedKeeps ==
    ASSUME ReplyIInv, UNCHANGED vars, reply.pc \in Mapped, reply' \in Replies,
           reply'.pc \in Mapped \cup {"sent"},
           reply'.receive = reply.receive, reply'.age = reply.age,
           reply'.sampled = reply.sampled, reply'.moved = reply.moved
    PROVE  (ReplyTypeOK /\ HistoryInv /\ ReceiveInv)'
<1>1. reply \in Replies /\ Busy
  BY RequestTyped DEF Mapped, Steps
<1>2. /\ ReplyTypeOK' /\ Kept' = Kept /\ Slack' = Slack /\ Arrival' = Arrival
  BY TaskStep DEF ReplyIInv
<1>3. HistoryInv'
  BY <1>1 DEF HistoryInv, ReplyIInv, Mapped
<1>4. ReceiveInv'
  BY <1>1, <1>2 DEF ReceiveInv, ReplyIInv, Mapped
<1> QED
  BY <1>2, <1>3, <1>4

\* ReadClock and ReadQuality.
LEMMA CheckKeeps ==
    ASSUME ReplyIInv, ReadClock \/ ReadQuality
    PROVE  (ReplyTypeOK /\ HistoryInv /\ ReceiveInv /\ ReferenceInv /\ ComposedInv)'
<1>1. PICK to \in {"quality", "reference"} :
        /\ reply.pc \in {"clock", "quality"} /\ UNCHANGED vars
        /\ reply' = [reply EXCEPT !.pc = to]
  BY DEF ReadClock, ReadQuality, Read
<1>2. reply \in Replies
  BY <1>1, RequestTyped DEF Steps
<1>3. /\ reply' \in Replies /\ reply'.pc = to
      /\ reply'.receive = reply.receive /\ reply'.age = reply.age
      /\ reply'.sampled = reply.sampled /\ reply'.moved = reply.moved
  BY <1>1, <1>2 DEF Replies, Steps
<1>4. (ReplyTypeOK /\ HistoryInv /\ ReceiveInv)'
  BY <1>1, <1>3, MappedKeeps DEF Mapped
<1> QED
  BY <1>3, <1>4 DEF ReferenceInv, ComposedInv

LEMMA ReadReferenceKeeps ==
    ASSUME ReplyIInv, ReadReference
    PROVE  (ReplyTypeOK /\ HistoryInv /\ ReceiveInv /\ ReferenceInv /\ ComposedInv)'
<1>1. /\ reply.pc = "reference" /\ UNCHANGED vars
      /\ reply' = [reply EXCEPT !.pc = "transmit", !.reference = ReferenceTimestamp]
  BY DEF ReadReference, Read
<1>2. reply \in Replies /\ ReferenceTimestamp \in Int
  BY <1>1, RequestTyped DEF Steps
<1>3. /\ reply' \in Replies /\ reply'.pc = "transmit"
      /\ reply'.reference = ReferenceTimestamp
      /\ reply'.receive = reply.receive /\ reply'.age = reply.age
      /\ reply'.sampled = reply.sampled /\ reply'.moved = reply.moved
  BY <1>1, <1>2 DEF Replies, Steps
<1>4. (ReplyTypeOK /\ HistoryInv /\ ReceiveInv)'
  BY <1>1, <1>3, MappedKeeps DEF Mapped
<1>5. ReferenceTimestamp' = ReferenceTimestamp
  BY <1>1, ClockStands
<1>6. ReferenceInv'
  BY <1>2, <1>3, <1>5 DEF ReferenceInv
<1> QED
  BY <1>3, <1>4, <1>6 DEF ComposedInv

\* Of a transmit time read now: not before the reference, and as far from the
\* receive time as the request is old, to within the bracket and the slack.
LEMMA TransmitNow ==
    ASSUME ReplyIInv, Serving, reply.pc \in {"transmit", "built"}
    PROVE  /\ reply.reference <= NtpTimestamp
           /\ ~reply.moved =>
                (NtpTimestamp - reply.receive) - reply.age
                    \in -(AcceptableError + MaxBracket)
                          .. AcceptableError + MaxBracket
<1>1. Kept /\ ReferenceTimestamp <= NtpTimestamp
  BY ServingKept DEF ReplyIInv
<1>2. /\ reply \in Replies /\ Busy
      /\ reply.receive \in Int /\ reply.reference \in Int /\ reply.age \in Nat
      /\ NtpTimestamp \in Int /\ ReferenceTimestamp \in Int
      /\ Arrival = NtpTimestamp - reply.age
      /\ AcceptableError \in Nat /\ MaxBracket \in Nat
      /\ Slack \in Nat /\ Slack <= AcceptableError
  BY RequestTyped DEF Steps
<1>3. reply.reference <= ReferenceTimestamp
  BY <1>1 DEF ReferenceInv, ReplyIInv
<1>4. reply.reference <= NtpTimestamp
  BY <1>1, <1>2, <1>3
<1>5. ASSUME ~reply.moved
      PROVE  (NtpTimestamp - reply.receive) - reply.age
               \in -(AcceptableError + MaxBracket) .. AcceptableError + MaxBracket
  <2>1. reply.receive - (NtpTimestamp - reply.age)
          \in -(MaxBracket + Slack) .. MaxBracket + Slack
    BY <1>1, <1>2, <1>5 DEF ReceiveInv, ReplyIInv, Mapped
  <2> QED
    BY <1>2, <2>1
<1> QED
  BY <1>4, <1>5

-------------------------------------------------------------------------------
(* The two steps that make a datagram. *)

LEMMA ReadTransmitMakes ==
    ASSUME ReplyIInv, ReadTransmit
    PROVE  /\ reply.pc = "transmit" /\ UNCHANGED vars /\ Serving
           /\ \E d \in Datagrams :
                /\ d.others # 0
                /\ IF d.summed THEN Verifies(d, NtpTimestamp) ELSE d.checksum = 0
                /\ reply' = [reply EXCEPT !.pc = "built", !.transmit = NtpTimestamp,
                                          !.turnaround = reply.age, !.datagram = d]
<1>1. PICK length \in {PlainLength, SealedLength}, others \in Word \ {0},
           summed \in BOOLEAN :
        Read("transmit",
             [reply EXCEPT
                !.pc = "built", !.transmit = NtpTimestamp, !.turnaround = reply.age,
                !.datagram = Datagram(length, others, NtpTimestamp, summed)])
  BY DEF ReadTransmit
<1> DEFINE d == Datagram(length, others, NtpTimestamp, summed)
<1>2. /\ reply.pc = "transmit" /\ UNCHANGED vars /\ Serving
      /\ reply' = [reply EXCEPT !.pc = "built", !.transmit = NtpTimestamp,
                                !.turnaround = reply.age, !.datagram = d]
  BY <1>1 DEF Read
<1>3. NtpTimestamp \in Int
  BY TimeTyped DEF ReplyIInv, IInv
<1>4. /\ ChecksumOf(others, NtpTimestamp) \in Word \ {0}
      /\ Fold(SumOf(others, NtpTimestamp) + ChecksumOf(others, NtpTimestamp))
           = AllOnes
  BY <1>3, ComposedVerifies
<1>5. length \in Nat /\ 0 \in Word
  BY WordsOfDatagram DEF PlainLength, SealedLength
<1>6. /\ d \in Datagrams /\ d.others = others /\ d.summed = summed
      /\ d.checksum = IF summed THEN ChecksumOf(others, NtpTimestamp) ELSE 0
  BY <1>4, <1>5 DEF Datagram, Datagrams
<1>7. IF d.summed THEN Verifies(d, NtpTimestamp) ELSE d.checksum = 0
  <2> HIDE DEF d
  <2> QED BY <1>4, <1>6 DEF Verifies
<1> QED
  BY <1>2, <1>6, <1>7

\* The datagram handed over is one, and verifies if it has a checksum.
ChecksumInv ==
    reply.pc \in {"built", "sent"} =>
        /\ reply.datagram.others # 0
        /\ IF reply.datagram.summed THEN Verifies(reply.datagram, reply.transmit)
           ELSE reply.datagram.checksum = 0

LEMMA SendStampedMakes ==
    ASSUME ReplyIInv, SendStamped
    PROVE  /\ reply.pc = "built" /\ UNCHANGED vars /\ Serving
           /\ \E d \in Datagrams :
                /\ ChecksumInv =>
                     /\ d.others # 0 /\ d.summed /\ Verifies(d, NtpTimestamp)
                /\ reply' = [reply EXCEPT !.pc = "sent", !.transmit = NtpTimestamp,
                                          !.turnaround = reply.age, !.datagram = d]
<1> DEFINE old == reply.datagram
           checksum == Restamped(old.checksum, reply.transmit, NtpTimestamp)
           d == [old EXCEPT !.checksum = checksum]
<1>1. /\ reply.pc = "built" /\ UNCHANGED vars /\ Serving /\ old.checksum # 0
      /\ reply' = [reply EXCEPT !.pc = "sent", !.transmit = NtpTimestamp,
                                !.turnaround = reply.age,
                                !.datagram.checksum = checksum]
  BY DEF SendStamped, Read, Qualified
<1>2. /\ reply \in Replies /\ NtpTimestamp \in Int /\ reply.transmit \in Int
  BY <1>1, RequestTyped DEF Steps
<1>3. old \in Datagrams
  BY <1>2 DEF Replies
<1>4. reply' = [reply EXCEPT !.pc = "sent", !.transmit = NtpTimestamp,
                             !.turnaround = reply.age, !.datagram = d]
  BY <1>1, <1>2 DEF Replies
<1> HIDE DEF old
<1>5. /\ old.checksum \in Word /\ old.others \in Word
  BY <1>3 DEF Datagrams
<1>6. checksum \in Word
  BY <1>2, <1>5, RestampedTyped
<1> HIDE DEF checksum
<1>7. /\ d \in Datagrams /\ d.checksum = checksum
      /\ d.others = old.others /\ d.summed = old.summed
  BY <1>3, <1>6 DEF Datagrams
<1> HIDE DEF d
<1>8. ASSUME ChecksumInv
      PROVE  d.others # 0 /\ d.summed /\ Verifies(d, NtpTimestamp)
  <2>1. /\ old.others # 0 /\ old.summed
        /\ Fold(SumOf(old.others, reply.transmit) + old.checksum) = AllOnes
    BY <1>1, <1>8 DEF ChecksumInv, Verifies, old
  <2>2. /\ checksum \in Word \ {0}
        /\ Fold(SumOf(old.others, NtpTimestamp) + checksum) = AllOnes
    BY <1>1, <1>2, <1>5, <2>1, RestampedVerifies DEF checksum
  <2> QED BY <1>7, <2>1, <2>2 DEF Verifies
<1> QED
  BY <1>1, <1>4, <1>7, <1>8

LEMMA ReadTransmitKeeps ==
    ASSUME ReplyIInv, ReadTransmit
    PROVE  (ReplyTypeOK /\ HistoryInv /\ ReceiveInv /\ ReferenceInv /\ ComposedInv)'
<1>1. /\ reply.pc = "transmit" /\ UNCHANGED vars /\ Serving
      /\ \E d \in Datagrams :
           reply' = [reply EXCEPT !.pc = "built", !.transmit = NtpTimestamp,
                                  !.turnaround = reply.age, !.datagram = d]
  BY ReadTransmitMakes
<1>0. PICK d \in Datagrams :
           reply' = [reply EXCEPT !.pc = "built", !.transmit = NtpTimestamp,
                                  !.turnaround = reply.age, !.datagram = d]
  BY <1>1
<1> DEFINE sent == [reply EXCEPT !.pc = "built", !.transmit = NtpTimestamp]
           filled == [sent EXCEPT !.datagram = d]
           age == reply.age
<1>2. reply \in Replies /\ NtpTimestamp \in Int /\ age \in Int
  BY <1>1, RequestTyped DEF Steps
<1>3. reply' = [filled EXCEPT !.turnaround = age]
  BY <1>0, <1>2 DEF Replies
<1> HIDE DEF age
<1>4. /\ sent \in Replies /\ sent.pc = "built" /\ sent.transmit = NtpTimestamp
      /\ sent.reference = reply.reference
      /\ sent.receive = reply.receive /\ sent.age = reply.age
      /\ sent.sampled = reply.sampled /\ sent.moved = reply.moved
  BY <1>2 DEF Replies, Steps
<1> HIDE DEF sent
<1>5. /\ filled \in Replies /\ filled.pc = "built" /\ filled.transmit = NtpTimestamp
      /\ filled.reference = reply.reference
      /\ filled.receive = reply.receive /\ filled.age = reply.age
      /\ filled.sampled = reply.sampled /\ filled.moved = reply.moved
  BY <1>2, <1>4 DEF Replies
<1> HIDE DEF filled
<1>6. /\ reply' \in Replies /\ reply'.pc = "built" /\ reply'.transmit = NtpTimestamp
      /\ reply'.turnaround = age
      /\ reply'.reference = reply.reference
      /\ reply'.receive = reply.receive /\ reply'.age = reply.age
      /\ reply'.sampled = reply.sampled /\ reply'.moved = reply.moved
  BY <1>2, <1>3, <1>5 DEF Replies
<1>7. (ReplyTypeOK /\ HistoryInv /\ ReceiveInv)'
  BY <1>1, <1>6, MappedKeeps DEF Mapped
<1>8. /\ reply.reference <= NtpTimestamp
      /\ ~reply.moved => (NtpTimestamp - reply.receive) - age
                            \in -(AcceptableError + MaxBracket)
                                  .. AcceptableError + MaxBracket
  BY <1>1, TransmitNow DEF age
<1>9. Turnaround' = (NtpTimestamp - reply.receive) - age
  BY <1>6 DEF Turnaround
<1>10. ComposedInv'
  BY <1>6, <1>8, <1>9 DEF ComposedInv
<1>11. Kept' = Kept /\ ReferenceTimestamp' = ReferenceTimestamp
  BY <1>1, <1>6, TaskStep DEF ReplyIInv
<1>12. ReferenceInv'
  BY <1>1, <1>6, <1>11 DEF ReferenceInv, ReplyIInv
<1> QED
  BY <1>7, <1>10, <1>12

LEMMA SendComposedKeeps ==
    ASSUME ReplyIInv, SendComposed
    PROVE  (ReplyTypeOK /\ HistoryInv /\ ReceiveInv /\ ReferenceInv /\ ComposedInv)'
<1>1. /\ reply.pc = "built" /\ UNCHANGED vars
      /\ reply' = [reply EXCEPT !.pc = "sent"]
  BY DEF SendComposed
<1>2. reply \in Replies
  BY <1>1, RequestTyped DEF Steps
<1>3. /\ reply' \in Replies /\ reply'.pc = "sent"
      /\ reply'.receive = reply.receive /\ reply'.age = reply.age
      /\ reply'.reference = reply.reference /\ reply'.transmit = reply.transmit
      /\ reply'.turnaround = reply.turnaround
      /\ reply'.sampled = reply.sampled /\ reply'.moved = reply.moved
  BY <1>1, <1>2 DEF Replies, Steps
<1>4. (ReplyTypeOK /\ HistoryInv /\ ReceiveInv)'
  BY <1>1, <1>3, MappedKeeps DEF Mapped
<1>5. Turnaround' = Turnaround
  BY <1>3 DEF Turnaround
<1>6. ComposedInv'
  BY <1>1, <1>3, <1>5 DEF ComposedInv, ReplyIInv
<1> QED
  BY <1>3, <1>4, <1>6 DEF ReferenceInv

LEMMA SendStampedKeeps ==
    ASSUME ReplyIInv, SendStamped
    PROVE  (ReplyTypeOK /\ HistoryInv /\ ReceiveInv /\ ReferenceInv /\ ComposedInv)'
<1>1. /\ reply.pc = "built" /\ UNCHANGED vars /\ Serving
      /\ \E d \in Datagrams :
           reply' = [reply EXCEPT !.pc = "sent", !.transmit = NtpTimestamp,
                                  !.turnaround = reply.age, !.datagram = d]
  BY SendStampedMakes
<1>0. PICK d \in Datagrams :
           reply' = [reply EXCEPT !.pc = "sent", !.transmit = NtpTimestamp,
                                  !.turnaround = reply.age, !.datagram = d]
  BY <1>1
<1> DEFINE stamped == [reply EXCEPT !.pc = "sent", !.transmit = NtpTimestamp]
           filled == [stamped EXCEPT !.datagram = d]
           age == reply.age
<1>2. reply \in Replies /\ NtpTimestamp \in Int /\ age \in Int
  BY <1>1, RequestTyped DEF Steps
<1>3. reply' = [filled EXCEPT !.turnaround = age]
  BY <1>0, <1>2 DEF Replies
<1> HIDE DEF age
<1>4. /\ stamped \in Replies /\ stamped.pc = "sent" /\ stamped.transmit = NtpTimestamp
      /\ stamped.reference = reply.reference
      /\ stamped.receive = reply.receive /\ stamped.age = reply.age
      /\ stamped.sampled = reply.sampled /\ stamped.moved = reply.moved
  BY <1>2 DEF Replies, Steps
<1> HIDE DEF stamped
<1>10. /\ filled \in Replies /\ filled.pc = "sent" /\ filled.transmit = NtpTimestamp
       /\ filled.reference = reply.reference
       /\ filled.receive = reply.receive /\ filled.age = reply.age
       /\ filled.sampled = reply.sampled /\ filled.moved = reply.moved
  BY <1>4 DEF Replies
<1> HIDE DEF filled
<1>5. /\ reply' \in Replies /\ reply'.pc = "sent" /\ reply'.transmit = NtpTimestamp
      /\ reply'.turnaround = age
      /\ reply'.reference = reply.reference
      /\ reply'.receive = reply.receive /\ reply'.age = reply.age
      /\ reply'.sampled = reply.sampled /\ reply'.moved = reply.moved
  BY <1>2, <1>3, <1>10 DEF Replies
<1>6. (ReplyTypeOK /\ HistoryInv /\ ReceiveInv)'
  BY <1>1, <1>5, MappedKeeps DEF Mapped
<1>7. /\ reply.reference <= NtpTimestamp
      /\ ~reply.moved => (NtpTimestamp - reply.receive) - age
                            \in -(AcceptableError + MaxBracket)
                                  .. AcceptableError + MaxBracket
  BY <1>1, TransmitNow DEF age
<1>8. Turnaround' = (NtpTimestamp - reply.receive) - age
  BY <1>5 DEF Turnaround
<1>9. ComposedInv'
  BY <1>1, <1>5, <1>7, <1>8 DEF ComposedInv
<1> QED
  BY <1>5, <1>6, <1>9 DEF ReferenceInv

-------------------------------------------------------------------------------
LEMMA ReplyNextInv == ReplyIInv /\ [ReplyNext]_replyVars => ReplyIInv'
<1> SUFFICES ASSUME ReplyIInv, [ReplyNext]_replyVars PROVE ReplyIInv'
  OBVIOUS
<1> DEFINE Goal == (ReplyTypeOK /\ HistoryInv /\ ReceiveInv /\ ReferenceInv /\ ComposedInv)'
<1>1. IInv'
  BY ReadsOnly, NextInv DEF ReplyIInv
<1>2. CASE ReplyAdvance
  <2>1. Goal
    BY <1>2, AdvanceKeeps
  <2> QED
    BY <1>1, <2>1 DEF ReplyIInv
<1>3. ASSUME NEW sample \in Samples, ReplySample(sample) PROVE ReplyIInv'
  <2>1. Goal
    BY <1>3, SampleKeeps
  <2> QED
    BY <1>1, <2>1 DEF ReplyIInv
<1>4. CASE ReplyPolicy
  <2>1. Goal
    BY <1>4, PolicyKeeps
  <2> QED
    BY <1>1, <2>1 DEF ReplyIInv
<1>5. ASSUME NEW age \in 0 .. ReplyTime, Take(age) PROVE ReplyIInv'
  <2>1. Goal
    BY <1>5, TakeKeeps
  <2> QED
    BY <1>1, <2>1 DEF ReplyIInv
<1>6. CASE ReadBefore \/ ReadPtp \/ ReadAfter
  <2>1. Goal
    BY <1>6, ReadBeforeKeeps, ReadPtpKeeps, ReadAfterKeeps
  <2> QED
    BY <1>1, <2>1 DEF ReplyIInv
<1>7. CASE ReadClock \/ ReadQuality \/ ReadReference \/ ReadTransmit
  <2>1. Goal
    BY <1>7, CheckKeeps, ReadReferenceKeeps, ReadTransmitKeeps
  <2> QED
    BY <1>1, <2>1 DEF ReplyIInv
<1>8. CASE Drop \/ Finish
  <2>1. reply' = NoReply
    BY <1>8 DEF Drop, Finish
  <2>2. Goal
    BY <2>1, IdleKeeps
  <2> QED
    BY <1>1, <2>2 DEF ReplyIInv
<1>9. CASE SendComposed \/ SendStamped
  <2>1. Goal
    BY <1>9, SendComposedKeeps, SendStampedKeeps
  <2> QED
    BY <1>1, <2>1 DEF ReplyIInv
<1>10. CASE UNCHANGED replyVars
  <2>1. reply' = reply /\ UNCHANGED vars
    BY <1>10 DEF replyVars
  <2>2. Kept' = Kept /\ Slack' = Slack /\ Arrival' = Arrival /\ Busy' = Busy
        /\ NtpTimestamp' = NtpTimestamp /\ Turnaround' = Turnaround
        /\ ReferenceTimestamp' = ReferenceTimestamp
    BY <2>1, ClockStands DEF Kept, Slack, Arrival, Busy, Turnaround
  <2>3. Goal
    BY <2>1, <2>2
       DEF ReplyIInv, ReplyTypeOK, HistoryInv, ReceiveInv, ReferenceInv, ComposedInv
  <2> QED
    BY <1>1, <2>3 DEF ReplyIInv
<1> QED
  BY <1>2, <1>3, <1>4, <1>5, <1>6, <1>7, <1>8, <1>9, <1>10 DEF ReplyNext

\* What a reply is composed of is tied to the clock at every step of it.
THEOREM ReplyInductive == ReplySpec => []ReplyIInv
BY ReplyInitInv, ReplyNextInv, PTL DEF ReplySpec

-------------------------------------------------------------------------------
\* The server task only reads the clock.
LEMMA RepliesOnlyRead == ReplySpec => Spec
<1>1. ReplyInit => Init
  BY DEF ReplyInit
<1>2. [ReplyNext]_replyVars => [Next]_vars
  BY ReadsOnly
<1> QED
  BY <1>1, <1>2, PTL DEF ReplySpec, Spec

\* The clock keeps its guarantees while replies are composed from it.
THEOREM ClockBesideReplies ==
    ReplySpec => /\ []ReferenceNotAfterTransmit
                 /\ []RejectsEndSolution
                 /\ ReferenceMovesByAgreement
                 /\ ServiceStartsLocked
BY RepliesOnlyRead, ReferenceOrder, RejectsBound, AgreementProof, LockProof, PTL

\* A reply leaves with a Reference Timestamp that is not later than its
\* Transmit Timestamp, whatever sample comes between the reads of the two and of
\* the late stamp (build_server_response, eth_ntp_tx_probe_transmit).
THEOREM ReplyReferenceOrder == ReplySpec => []ReferenceInOrder
<1>1. ReplyIInv => ReferenceInOrder
  BY DEF ReplyIInv, ComposedInv, ReferenceInOrder
<1> QED
  BY <1>1, ReplyInductive, PTL

\* The server's share of the round trip is told to within the largest error
\* accepted and the bracket, for every value of either, unless a sample that was
\* rejected moved the clock meanwhile (eth_service_take_ntp_rx_timestamp).
THEOREM TurnaroundBound == ReplySpec => []TurnaroundKept
<1>1. ReplyIInv => TurnaroundKept
  BY DEF ReplyIInv, ComposedInv, TurnaroundKept, Turnaround
<1> QED
  BY <1>1, ReplyInductive, PTL


\* A checksum stays right under every step but the late stamp, which keeps it so.
LEMMA ChecksumNext ==
    ReplyIInv /\ ChecksumInv /\ [ReplyNext]_replyVars => ChecksumInv'
<1> SUFFICES ASSUME ReplyIInv, ChecksumInv, [ReplyNext]_replyVars,
                    reply'.pc \in {"built", "sent"}
             PROVE  ChecksumInv'
  BY DEF ChecksumInv
<1> DEFINE Same == /\ reply.pc \in {"built", "sent"}
                   /\ reply'.datagram = reply.datagram
                   /\ reply'.transmit = reply.transmit
<1>1. ASSUME Same PROVE ChecksumInv'
  BY <1>1 DEF ChecksumInv
<1>2. reply = NoReply \/ reply \in Replies
  BY DEF ReplyIInv, ReplyTypeOK
<1>3. CASE ReplyAdvance
  <2>1. reply' = reply \/ reply' = [reply EXCEPT !.age = @ + 1]
    BY <1>3 DEF ReplyAdvance
  <2>2. Same
    BY <1>2, <1>3, <2>1 DEF ReplyAdvance, Busy, NoReply, Replies
  <2> QED BY <1>1, <2>2
<1>4. ASSUME NEW sample \in Samples, ReplySample(sample) PROVE ChecksumInv'
  <2>1. Same
    BY <1>2, <1>4 DEF ReplySample, Busy, NoReply, Replies
  <2> QED BY <1>1, <2>1
<1>5. CASE ReplyPolicy \/ UNCHANGED replyVars
  <2>1. reply' = reply
    BY <1>5 DEF ReplyPolicy, replyVars
  <2> QED BY <1>1, <2>1
<1>6. CASE \/ \E age \in 0 .. ReplyTime : Take(age)
           \/ ReadBefore \/ ReadPtp \/ ReadAfter
           \/ ReadClock \/ ReadQuality \/ ReadReference \/ Drop \/ Finish
  <2>1. reply'.pc \notin {"built", "sent"}
    <3>1. CASE \E age \in 0 .. ReplyTime : Take(age)
      BY <3>1 DEF Take, Request
    <3>2. CASE Drop \/ Finish
      BY <3>2 DEF Drop, Finish, NoReply
    <3>3. CASE ReadBefore \/ ReadPtp \/ ReadAfter
      BY <1>2, <3>3 DEF ReadBefore, ReadPtp, ReadAfter, Read, NoReply, Replies
    <3>4. CASE ReadClock \/ ReadQuality \/ ReadReference
      BY <1>2, <3>4 DEF ReadClock, ReadQuality, ReadReference, Read, NoReply, Replies
    <3> QED BY <1>6, <3>1, <3>2, <3>3, <3>4
  <2> QED BY <2>1
<1>7. CASE ReadTransmit
  <2>1. PICK d \in Datagrams :
          /\ d.others # 0
          /\ IF d.summed THEN Verifies(d, NtpTimestamp) ELSE d.checksum = 0
          /\ reply' = [reply EXCEPT !.pc = "built", !.transmit = NtpTimestamp,
                                    !.turnaround = reply.age, !.datagram = d]
    BY <1>7, ReadTransmitMakes
  <2>2. reply.pc = "transmit" /\ reply \in Replies
    BY <1>2, <1>7 DEF ReadTransmit, Read, NoReply
  <2>3. reply'.datagram = d /\ reply'.transmit = NtpTimestamp
    BY <2>1, <2>2 DEF Replies
  <2> QED BY <2>1, <2>3 DEF ChecksumInv
<1>8. CASE SendComposed
  <2>1. Same
    BY <1>2, <1>8 DEF SendComposed, NoReply, Replies
  <2> QED BY <1>1, <2>1
<1>9. CASE SendStamped
  <2>1. PICK d \in Datagrams :
          /\ ChecksumInv => d.others # 0 /\ d.summed /\ Verifies(d, NtpTimestamp)
          /\ reply' = [reply EXCEPT !.pc = "sent", !.transmit = NtpTimestamp,
                                    !.turnaround = reply.age, !.datagram = d]
    BY <1>9, SendStampedMakes
  <2>2. reply.pc = "built" /\ reply \in Replies
    BY <1>2, <1>9 DEF SendStamped, NoReply
  <2>3. reply'.datagram = d /\ reply'.transmit = NtpTimestamp
    BY <2>1, <2>2 DEF Replies
  <2> QED BY <2>1, <2>3 DEF ChecksumInv
<1> QED
  BY <1>3, <1>4, <1>5, <1>6, <1>7, <1>8, <1>9 DEF ReplyNext

\* For every radix, every old and new time and whatever else the datagram holds,
\* the late stamp leaves a checksum that verifies (checksum_replace_word,
\* eth_frame_apply_ntp_late_stamp).
THEOREM ChecksumProof == ReplySpec => []ChecksumKept
<1>1. ReplyInit => ChecksumInv
  BY DEF ReplyInit, NoReply, ChecksumInv
<1>2. ReplyIInv /\ ChecksumInv /\ [ReplyNext]_replyVars => ChecksumInv'
  BY ChecksumNext
<1>3. ChecksumInv => ChecksumKept
  BY DEF ChecksumInv, ChecksumKept
<1> QED
  BY <1>1, <1>2, <1>3, ReplyInductive, PTL DEF ReplySpec
===============================================================================
