--------------------------- MODULE CertRenewalProofs ---------------------------
(***************************************************************************)
(* Proofs about CertRenewal, for any number of credentials, failures,      *)
(* restarts and requests: its types, the spacing of the automatic orders,  *)
(* the removal of the TXT records, the fall back to the last known good    *)
(* server, the fate of a handoff on record, and that the operator's choice *)
(* of a credential is kept.                                                *)
(*                                                                         *)
(* IInv is the inductive invariant: the types of the records, and for each *)
(* property what the tasks know at the places in between - that the        *)
(* cooldown was armed before the order, which credential is in memory      *)
(* while the server is down, what the handoff on record waits for.         *)
(***************************************************************************)
EXTENDS CertRenewal, TLAPS

\* The records of the NVS partition, and what is written to them.
Intents == [pending : BOOLEAN, previous : Leaves, target : Leaves]
Handoffs == [busy : BOOLEAN, retry : BOOLEAN]

\* What survives a restart.
RecordType ==
    nvs \in [cred : Leaves, boot : BOOLEAN, auto : BOOLEAN, intent : Intents,
             handoff : Handoffs, attempt : BOOLEAN]

\* The server and what the console knows of it.
TlsType ==
    /\ server \in [source : Sources \cup {"down"}, leaf : Leaves]
    /\ tls \in [source : Sources, leaf : Leaves, stored : Leaves]

\* Where the two tasks can be.
TransitionPcs == {"none", "begin", "stop", "start", "identify", "prefer", "settle",
                  "finish", "restore", "emergency", "release"}

SchedPcs == {"sleep", "load", "evaluate", "consume", "persist", "inspect", "intend",
             "order", "create", "verify", "undo", "challenge", "finalize", "cleanup",
             "replaced", "announce", "drop", "check", "begin", "claim", "abort", "complete", "retry"}

\* tls_transition_task
TransitionType ==
    transition \in [pc : TransitionPcs, target : Sources, auto : BOOLEAN, source : Sources,
                    leaf : Leaves, stored : Leaves, failed : BOOLEAN]

\* renewal_scheduler_task
SchedType == sched \in [pc : SchedPcs, leaf : Leaves, stored : BOOLEAN, last : BOOLEAN]

\* The rest.
FlagType ==
    /\ cooldown \in BOOLEAN /\ time \in BOOLEAN
    /\ txt \subseteq {"auto", "manual"}
    /\ faults \in 0 .. MaxFaults /\ ops \in 0 .. MaxOps

\* The console serves before anything else runs: no transition before the boot
\* path has started the server, no scheduler before it is up (web_console_start).
PhaseInv ==
    /\ boot \in {"serve", "fallback", "embedded", "down"} => server = Down
    /\ boot \in {"serve", "fallback", "embedded", "identify", "down"} => transition.pc = "none"
    /\ sched.pc # "load" => boot = "up"

\* From the moment the attempt is consumed there has been no order since the
\* cooldown ended; the cooldown is armed before it is persisted, persisted before
\* the order, and both outlive it (renewal_scheduler_execute_if_ready).
OrdersInv ==
    /\ orders \in {0, 1}
    /\ orders = 1 => nvs.attempt /\ (sched.pc = "load" \/ cooldown)
    /\ sched.pc \in {"consume", "persist", "inspect", "intend", "order"} => orders = 0
    /\ sched.pc \in {"persist", "inspect", "intend", "order"} => cooldown
    /\ sched.pc \in {"inspect", "intend", "order"} => nvs.attempt

\* A record is there only while its transaction is between the creation and the
\* deletion (renewal_dns01_prepare, cloudflare_client_delete_dns01_txt_content).
TxtInv ==
    ~excused =>
        /\ "auto" \in txt => sched.pc \in {"verify", "undo", "challenge", "finalize", "cleanup"}
        /\ "manual" \in txt => httpd \in {"verify", "delete_valid", "delete_failed"}

\* The server that runs with the credential in memory.
Memory == [source |-> tls.source, leaf |-> IF tls.source = "production" THEN tls.stored ELSE 0]

\* The credential in memory is the one the server runs with; with no server there
\* is none (start_https_server, and what tls_transition_task frees).
ServerInv ==
    /\ tls.source = "embedded" => tls.stored = 0
    /\ server = Down => tls.stored = 0
    /\ server # Down => server = Memory

\* The server the transition can go back to.
LastGood == [source |-> transition.source, leaf |-> RestoredLeaf]

\* A transition that has stopped the server holds the credential that server ran
\* with, or has nothing to restore; only an activation of production is automatic.
TransitionInv ==
    /\ transition.auto => transition.pc # "none" /\ transition.target = "production"
    /\ transition.pc \in {"none", "begin"} \/ transition.source = "embedded"
       => transition.stored = 0
    /\ transition.pc = "stop" => transition.source = tls.source
    /\ transition.pc \notin {"none", "begin", "stop"} /\ transition.stored # 0
       => prior = LastGood
    /\ transition.pc = "emergency" => server = Down
    /\ transition.failed => transition.pc \in {"restore", "emergency", "finish", "release"}
    /\ LastKnownGood

\* A handoff on record is finished before its transition is released.
BusyInv ==
    nvs.handoff.busy =>
        \/ transition.auto /\ transition.pc # "release"
        \/ sched.pc \in {"claim", "abort"}
        \/ boot \in Booting
        \/ broken \/ boot = "down"

\* From the preflight to the claim, production TLS runs and nobody has claimed the
\* transition, or the operator has (tls_activation_schedule_pending_target).
KeptInv ==
    sched.pc \in {"begin", "claim"} =>
        \/ overtaken
        \/ tls.source = "production" /\ transition.pc = "none"

\* The types together.
TypeInv == RecordType /\ TlsType /\ TransitionType /\ SchedType /\ FlagType

\* The inductive invariant.
IInv == TypeInv /\ PhaseInv /\ OrdersInv /\ TxtInv /\ ServerInv /\ TransitionInv /\ BusyInv /\ KeptInv

\* The initial records have their types.
LEMMA InitTypes == Init => TypeInv
<1> SUFFICES ASSUME Init PROVE TypeInv
  OBVIOUS
<1> USE ConsoleAssumption DEF Init, ConsoleInit, Leaves, Sources
<1>1. RecordType
  BY DEF RecordType, Intents, Handoffs, NoIntent, NoHandoff
<1>2. TlsType
  BY DEF TlsType, Down, EmbeddedTls
<1>3. TransitionType
  BY DEF TransitionType, NoTransition, TransitionPcs
<1>4. SchedType
  <2>1. sched = [pc |-> "load", leaf |-> 0, stored |-> FALSE, last |-> FALSE]
    BY DEF Asleep
  <2>2. 0 \in Leaves /\ "load" \in SchedPcs
    BY SMT DEF SchedPcs
  <2> HIDE DEF Init, Leaves
  <2> QED
    BY <2>1, <2>2 DEF SchedType
<1>5. FlagType
  <2>1. MaxFaults \in Nat /\ MaxOps \in Nat
    BY ConsoleAssumption
  <2>2. 0 \in 0 .. MaxFaults /\ 0 \in 0 .. MaxOps
    BY <2>1
  <2> QED
    BY <2>2 DEF FlagType
<1> QED
  BY <1>1, <1>2, <1>3, <1>4, <1>5 DEF TypeInv

\* What the boot path leaves alone, and when it runs.
LEMMA BootLeaves ==
    BootPath => UNCHANGED <<transition, httpd, time, ops, prior>> /\ boot # "up" /\ boot' # "serve"
BY DEF BootPath, BootServe, BootFallback, BootEmbedded, BootIdentify, BootReconcileIntent,
       BootReconcileHandoff

\* What the transition leaves alone, and when it runs.
LEMMA TransitionLeaves ==
    TransitionTask => UNCHANGED <<boot, httpd, time, ops>> /\ transition.pc # "none"
BY DEF TransitionTask, TransitionBegin, TransitionStop, TransitionStart, TransitionIdentify,
       TransitionPrefer, TransitionSettle, TransitionFinish, TransitionRestore,
       TransitionEmergency, TransitionRelease

\* What the operator's renewal leaves alone.
LEMMA ManualLeaves ==
    ManualStart \/ ManualTask => UNCHANGED <<server, tls, transition, boot, time, prior, sched, orders,
                                            cooldown, overtaken>>
BY DEF ManualStart, ManualTask, ManualStep, ManualFinalize, HandlerVars, renewalVars

\* A request of the operator claims the transition or leaves it alone.
OperatorClaims(source) ==
    /\ transition.pc = "none" /\ server # Down /\ boot # "identify"
    /\ Claim(source, FALSE)

\* What the other requests leave alone.
LEMMA OperatorLeaves ==
    ASSUME OperatorRequest
    PROVE  /\ UNCHANGED <<server, tls, boot, httpd, time, faults, broken, prior,
                          sched, cooldown, due, txt, orders, untargeted, excused>>
           /\ UNCHANGED transition \/ \E source \in Sources : OperatorClaims(source)
           /\ overtaken' = (overtaken \/ transition' # transition)
BY DEF OperatorRequest, Operator, SetAutomatic, Select, Request, OperatorClaims, Claimable

\* What the scheduler leaves alone.
LEMMA SchedulerLeaves ==
    SchedulerTask => UNCHANGED <<server, tls, boot, httpd, time, ops, prior>>
<1> SUFFICES ASSUME SchedulerTask
             PROVE  UNCHANGED <<server, tls, boot, httpd, time, ops, prior>>
  OBVIOUS
<1> USE DEF consoleVars, RemoteVars
<1>1. CASE Load \/ Evaluate \/ Consume \/ PersistAttempt \/ InspectCredential \/ InspectReplacement \/ Intend
  BY <1>1 DEF Load, Evaluate, Consume, PersistAttempt, InspectCredential, InspectReplacement,
              Intend, Persisting
<1>2. CASE Order \/ Create \/ Verify \/ Undo \/ Challenge \/ Finalize \/ Cleanup
  BY <1>2 DEF Order, Create, Verify, Undo, Challenge, Finalize, Cleanup
<1>3. CASE Announce \/ Drop \/ Check \/ Begin \/ BeginRefused
  BY <1>3 DEF Announce, Drop, Check, Begin, BeginRefused, Persisting
<1>4. CASE ClaimTransition \/ Abort \/ CompleteAttempt \/ Retry
  BY <1>4 DEF ClaimTransition, Abort, CompleteAttempt, Retry, Persisting
<1> QED
  BY <1>1, <1>2, <1>3, <1>4 DEF SchedulerTask

\* A record stays one when a field is written with a value of its type.
LEMMA Written ==
    ASSUME RecordType, NEW f, NEW v, nvs' = [nvs EXCEPT ![f] = v],
           \/ f = "intent" /\ v \in Intents
           \/ f = "handoff" /\ v \in Handoffs
           \/ f \in {"boot", "auto", "attempt"} /\ v \in BOOLEAN
           \/ f = "cred" /\ v \in Leaves
    PROVE  RecordType'
BY DEF RecordType

\* A record that is left alone stays one.
LEMMA RecordKept == RecordType /\ UNCHANGED nvs => RecordType'
BY DEF RecordType

\* Every value that is written has the type of its field.
LEMMA Values ==
    ASSUME TypeInv
    PROVE  /\ NoIntent \in Intents
           /\ [nvs.intent EXCEPT !.target = sched.leaf] \in Intents
           /\ [pending |-> TRUE, previous |-> sched.leaf, target |-> 0] \in Intents
           /\ \A a, b \in BOOLEAN : [busy |-> a, retry |-> b] \in Handoffs
           /\ time \in BOOLEAN /\ nvs.handoff.retry \in BOOLEAN
           /\ \A success \in BOOLEAN : HandoffFinished(success) \in Handoffs
           /\ cooldown \in BOOLEAN
           /\ nvs.cred \in Leaves
<1> USE ConsoleAssumption
<1>1. NoIntent \in Intents
  BY DEF NoIntent, Intents, Leaves
<1>2. [pending |-> TRUE, previous |-> sched.leaf, target |-> 0] \in Intents
  BY DEF Intents, Leaves, TypeInv, SchedType
<1>3. [nvs.intent EXCEPT !.target = sched.leaf] \in Intents
  BY DEF Intents, TypeInv, RecordType, SchedType
<1>4. \A a, b \in BOOLEAN : [busy |-> a, retry |-> b] \in Handoffs
  BY DEF Handoffs
<1>5. time \in BOOLEAN /\ nvs.handoff.retry \in BOOLEAN /\ cooldown \in BOOLEAN /\ nvs.cred \in Leaves
  BY DEF TypeInv, RecordType, FlagType, Handoffs
<1>6. \A success \in BOOLEAN : HandoffFinished(success) \in Handoffs
  <2> TAKE success \in BOOLEAN
  <2>1. (IF success THEN FALSE ELSE time \/ nvs.handoff.retry) \in BOOLEAN
    BY <1>5
  <2> QED
    BY <2>1, <1>4 DEF HandoffFinished
<1> QED
  BY <1>1, <1>2, <1>3, <1>4, <1>5, <1>6

\* A renewal installs a credential of the model.
LEMMA Installed ==
    ASSUME TypeInv, nvs.cred < MaxCerts
    PROVE  nvs.cred + 1 \in Leaves
BY ConsoleAssumption DEF TypeInv, RecordType, Leaves

\* The boot path keeps the records' types.
LEMMA RecordBoot == ASSUME TypeInv, BootPath PROVE RecordType'
<1> USE RecordKept DEF TypeInv
<1>1. CASE BootServe
  BY <1>1, Written DEF BootServe
<1>2. CASE BootFallback \/ BootEmbedded \/ BootIdentify
  BY <1>2, Written DEF BootFallback, BootEmbedded, BootIdentify, Write, RecordFails
<1>3. CASE BootReconcileIntent
  BY <1>3, Written, Values DEF BootReconcileIntent, Write, RecordFails
<1>4. CASE BootReconcileHandoff
  BY <1>4, Written, Values DEF BootReconcileHandoff, Write, RecordFails
<1> QED
  BY <1>1, <1>2, <1>3, <1>4 DEF BootPath

\* The transition keeps them.
LEMMA RecordTransition == ASSUME TypeInv, TransitionTask PROVE RecordType'
<1> USE RecordKept DEF TypeInv
<1>1. CASE TransitionBegin \/ TransitionStop \/ TransitionStart \/ TransitionIdentify
           \/ TransitionRelease
  BY <1>1 DEF TransitionBegin, TransitionStop, TransitionStart, TransitionIdentify,
              TransitionRelease
<1>2. CASE TransitionPrefer
  BY <1>2, Written DEF TransitionPrefer, Write, RecordFails
<1>3. CASE TransitionSettle
  BY <1>3, Written, Values DEF TransitionSettle, Write, RecordFails
<1>4. CASE TransitionFinish
  <2>1. (~transition.failed) \in BOOLEAN
    OBVIOUS
  <2> QED
    BY <1>4, <2>1, Written, Values DEF TransitionFinish, Write, RecordFails
<1>5. CASE TransitionRestore
  BY <1>5, Written DEF TransitionRestore, Write, RecordFails
<1>6. CASE TransitionEmergency
  BY <1>6, Written DEF TransitionEmergency, Write, RecordFails
<1> QED
  BY <1>1, <1>2, <1>3, <1>4, <1>5, <1>6 DEF TransitionTask

\* The scheduler keeps them.
LEMMA RecordScheduler == ASSUME TypeInv, SchedulerTask PROVE RecordType'
<1> USE RecordKept DEF TypeInv, consoleVars, RemoteVars
<1>1. CASE Load \/ Evaluate \/ Consume \/ InspectCredential \/ InspectReplacement \/ Order \/ Create \/ Verify
           \/ Undo \/ Challenge \/ Cleanup \/ Check \/ BeginRefused \/ ClaimTransition \/ Retry
  BY <1>1 DEF Load, Evaluate, Consume, InspectCredential, InspectReplacement, Order, Create, Verify,
              Undo, Challenge, Cleanup, Check, BeginRefused, ClaimTransition, Retry
<1>2. CASE PersistAttempt \/ CompleteAttempt
  BY <1>2, Written, Values DEF PersistAttempt, CompleteAttempt, Persisting, Write, RecordFails
<1>3. CASE Intend \/ Announce \/ Drop
  BY <1>3, Written, Values
     DEF Intend, Announce, Drop, Target, Persisting, Write, RecordFails
<1>4. CASE Begin \/ Abort
  BY <1>4, Written, Values DEF Begin, Abort, Persisting, Write, RecordFails
<1>5. CASE Finalize
  <2>1. CASE Install("auto")
    BY <2>1, Installed, Written DEF Install
  <2> QED
    BY <1>5, <2>1 DEF Finalize
<1> QED
  BY <1>1, <1>2, <1>3, <1>4, <1>5 DEF SchedulerTask

\* The operator, time and power keep them.
LEMMA RecordRest ==
    ASSUME TypeInv,
           \/ ManualStart \/ ManualTask \/ OperatorRequest
           \/ Tick \/ LoadFails \/ TimeLost \/ TimeFound \/ PowerLoss
    PROVE  RecordType'
<1> USE RecordKept DEF TypeInv
<1>1. CASE ManualStart \/ ManualStep \/ LoadFails \/ TimeLost \/ TimeFound \/ PowerLoss
  BY <1>1 DEF ManualStart, ManualStep, LoadFails, RecordFails, TimeLost, TimeFound, PowerLoss
<1>2. CASE ManualFinalize
  <2>1. CASE Install("manual")
    BY <2>1, Installed, Written DEF Install
  <2> QED
    BY <1>2, <2>1 DEF ManualFinalize
<1>3. CASE OperatorRequest
  <2>1. CASE SetAutomatic
    BY <2>1, Written DEF SetAutomatic
  <2>2. ASSUME NEW source \in Sources, Select(source)
        PROVE  RecordType'
    BY <2>2, Written DEF Select
  <2> QED
    BY <1>3, <2>1, <2>2 DEF OperatorRequest, Operator
<1>4. CASE Tick
  <2>1. nvs' = [nvs EXCEPT !.attempt = FALSE, !.handoff = [nvs.handoff EXCEPT !.retry = FALSE]]
    BY <1>4 DEF Tick, RecordType
  <2>2. [nvs.handoff EXCEPT !.retry = FALSE] \in Handoffs
    BY DEF RecordType, Handoffs
  <2> QED
    BY <2>1, <2>2 DEF RecordType
<1> QED
  BY <1>1, <1>2, <1>3, <1>4 DEF ManualTask

\* Every step keeps the types of the records.
LEMMA RecordStep == ASSUME TypeInv, [Next]_vars PROVE RecordType'
BY RecordBoot, RecordTransition, RecordScheduler, RecordRest, RecordKept
   DEF Next, vars, consoleVars, TypeInv
\* A request of the operator is counted.
Counted == ops < MaxOps /\ ops' = ops + 1

\* Only a fault counts as one, and only a request as a request.
LEMMA Counters ==
    [Next]_vars => (UNCHANGED faults \/ Fault) /\ (UNCHANGED ops \/ Counted)
<1> SUFFICES ASSUME [Next]_vars
             PROVE  /\ UNCHANGED faults \/ Fault
                    /\ UNCHANGED ops \/ Counted
  OBVIOUS
<1> USE DEF consoleVars, RemoteVars, Write, RecordFails, Identify
<1>1. CASE BootPath
  BY <1>1 DEF BootPath, BootServe, BootFallback, BootEmbedded, BootIdentify, BootReconcileIntent,
              BootReconcileHandoff
<1>2. CASE TransitionBegin \/ TransitionStop \/ TransitionStart \/ TransitionIdentify
           \/ TransitionPrefer \/ TransitionSettle
  BY <1>2 DEF TransitionBegin, TransitionStop, TransitionStart, TransitionIdentify,
              TransitionPrefer, TransitionSettle
<1>3. CASE TransitionFinish \/ TransitionRestore \/ TransitionEmergency \/ TransitionRelease
  BY <1>3 DEF TransitionFinish, TransitionRestore, TransitionEmergency, TransitionRelease
<1>4. CASE Load \/ Evaluate \/ Consume \/ PersistAttempt \/ InspectCredential \/ InspectReplacement \/ Intend
  BY <1>4 DEF Load, Evaluate, Consume, PersistAttempt, InspectCredential, InspectReplacement,
              Intend, Persisting
<1>5. CASE Order \/ Create \/ Verify \/ Undo \/ Challenge \/ Finalize \/ Cleanup
  BY <1>5 DEF Order, Create, Verify, Undo, Challenge, Finalize, Cleanup, Delete
<1>6. CASE Announce \/ Drop \/ Check \/ Begin \/ BeginRefused
  BY <1>6 DEF Announce, Drop, Check, Begin, BeginRefused, Persisting
<1>7. CASE ClaimTransition \/ Abort \/ CompleteAttempt \/ Retry
  BY <1>7 DEF ClaimTransition, Abort, CompleteAttempt, Retry, Persisting
<1>8. CASE ManualStart \/ ManualStep \/ ManualFinalize
  BY <1>8 DEF ManualStart, ManualStep, ManualFinalize, Delete, Request, Counted
<1>9. CASE OperatorRequest
  BY <1>9 DEF OperatorRequest, Operator, SetAutomatic, Select, Request, Counted
<1>10. CASE Tick \/ LoadFails \/ TimeLost \/ TimeFound \/ PowerLoss \/ UNCHANGED vars
  BY <1>10 DEF Tick, LoadFails, RecordFails, TimeLost, TimeFound, PowerLoss, vars
<1> QED
  BY <1>1, <1>2, <1>3, <1>4, <1>5, <1>6, <1>7, <1>8, <1>9, <1>10
     DEF Next, TransitionTask, SchedulerTask, ManualTask

\* The clock, the cooldown and the TXT records.
LEMMA Flags ==
    ASSUME TypeInv, [Next]_vars
    PROVE  /\ cooldown' \in BOOLEAN /\ time' \in BOOLEAN
           /\ txt' \subseteq {"auto", "manual"}
<1> USE DEF TypeInv, FlagType, consoleVars, RemoteVars, HandlerVars, renewalVars
<1>1. CASE (BootPath \/ TransitionTask) /\ UNCHANGED renewalVars
  <2>1. UNCHANGED time
    BY <1>1 DEF BootPath, BootServe, BootFallback, BootEmbedded, BootIdentify,
                BootReconcileIntent, BootReconcileHandoff,
                TransitionTask, TransitionBegin, TransitionStop, TransitionStart,
                TransitionIdentify, TransitionPrefer, TransitionSettle, TransitionFinish,
                TransitionRestore, TransitionEmergency, TransitionRelease
  <2> QED
    BY <1>1, <2>1
<1>2. CASE Load
  BY <1>2 DEF Load, LoadCooldown, RecordType
<1>3. CASE Consume
  BY <1>3 DEF Consume
<1>4. CASE Create \/ Undo \/ Cleanup
  BY <1>4 DEF Create, Undo, Cleanup, Delete
<1>5. CASE Evaluate \/ PersistAttempt \/ InspectCredential \/ InspectReplacement \/ Intend \/ Order \/ Verify
           \/ Challenge \/ Finalize
  BY <1>5 DEF Evaluate, PersistAttempt, InspectCredential, InspectReplacement, Intend, Persisting,
              Order, Verify,
              Challenge, Finalize
<1>6. CASE Announce \/ Drop \/ Check \/ Begin \/ BeginRefused \/ ClaimTransition \/ Abort
           \/ CompleteAttempt \/ Retry
  BY <1>6 DEF Announce, Drop, Check, Begin, BeginRefused, ClaimTransition, Abort,
              CompleteAttempt, Retry, Persisting
<1>7. CASE ManualStart \/ ManualTask
  BY <1>7 DEF ManualStart, ManualTask, ManualStep, ManualFinalize, Delete
<1>8. CASE OperatorRequest
  BY <1>8 DEF OperatorRequest, Operator, SetAutomatic, Select
<1>9. CASE Tick \/ LoadFails \/ TimeLost \/ TimeFound \/ PowerLoss \/ UNCHANGED vars
  BY <1>9 DEF Tick, LoadFails, RecordFails, TimeLost, TimeFound, PowerLoss, vars
<1> QED
  BY <1>1, <1>2, <1>3, <1>4, <1>5, <1>6, <1>7, <1>8, <1>9 DEF Next, SchedulerTask

\* Every step keeps the bounds of the counters and flags.
LEMMA FlagStep == ASSUME TypeInv, [Next]_vars PROVE FlagType'
<1>1. MaxFaults \in Nat /\ MaxOps \in Nat
  BY ConsoleAssumption
<1>2. faults' \in 0 .. MaxFaults /\ ops' \in 0 .. MaxOps
  BY <1>1, Counters DEF TypeInv, FlagType, Fault, Counted
<1> QED
  BY <1>2, Flags DEF FlagType

\* Every step keeps the types of the server and of what is known of it.
LEMMA TlsStep == ASSUME TypeInv, [Next]_vars PROVE TlsType'
<1> USE DEF TypeInv, TlsType, consoleVars, HandlerVars
<1>1. EmbeddedTls \in [source : Sources, leaf : Leaves, stored : Leaves]
      /\ Down \in [source : Sources \cup {"down"}, leaf : Leaves]
  BY ConsoleAssumption DEF EmbeddedTls, Down, Sources, Leaves
<1>2. ASSUME NEW source \in Sources, NEW leaf \in Leaves, Started(source, leaf)
      PROVE  TlsType'
  <2>1. {leaf, 0, 1} \subseteq Leaves
    BY ConsoleAssumption DEF Leaves
  <2> QED
    BY <1>2, <2>1 DEF Started
<1>3. 0 \in Leaves /\ nvs.cred \in Leaves /\ Sources = {"embedded", "staging", "production"}
  BY ConsoleAssumption DEF RecordType, Leaves, Sources
<1>4. CASE BootPath
  <2>1. CASE BootServe \/ BootFallback \/ BootEmbedded
    BY <1>2, <1>3, <2>1 DEF BootServe, BootFallback, BootEmbedded
  <2>2. CASE BootIdentify
    BY <1>3, <2>2 DEF BootIdentify, Identify
  <2>3. CASE BootReconcileIntent \/ BootReconcileHandoff
    BY <2>3 DEF BootReconcileIntent, BootReconcileHandoff
  <2> QED
    BY <1>4, <2>1, <2>2, <2>3 DEF BootPath
<1>5. CASE TransitionBegin \/ TransitionPrefer \/ TransitionSettle
           \/ TransitionFinish \/ TransitionRelease
  BY <1>5 DEF TransitionBegin, TransitionPrefer, TransitionSettle,
              TransitionFinish, TransitionRelease
<1>6. CASE TransitionStop
  BY <1>6, <1>1, <1>3 DEF TransitionStop
<1>7. CASE TransitionStart
  <2>1. transition.target \in Sources /\ LeafOf(transition.target) \in Leaves
    BY <1>3 DEF TransitionType, LeafOf
  <2> QED
    BY <1>7, <1>2, <2>1 DEF TransitionStart
<1>8. CASE TransitionIdentify
  BY <1>8, <1>3 DEF TransitionIdentify, Identify
<1>9. CASE TransitionRestore
  <2>1. transition.source \in Sources /\ RestoredLeaf \in Leaves /\ transition.leaf \in Leaves
        /\ transition.stored \in Leaves
    BY <1>3 DEF TransitionType, RestoredLeaf
  <2>2. Freed \in [source : Sources, leaf : Leaves, stored : Leaves]
    BY <1>3 DEF Freed
  <2> QED
    BY <1>9, <1>1, <2>1, <2>2 DEF TransitionRestore
<1>10. CASE TransitionEmergency
  BY <1>10, <1>2, <1>3 DEF TransitionEmergency
<1>11. CASE SchedulerTask
  BY <1>11, SchedulerLeaves
<1>12. CASE ManualStart \/ ManualTask
  BY <1>12 DEF ManualStart, ManualTask, ManualStep, ManualFinalize
<1>13. CASE OperatorRequest
  BY <1>13 DEF OperatorRequest, Operator, SetAutomatic, Select
<1>14. CASE Tick \/ LoadFails \/ TimeLost \/ TimeFound \/ PowerLoss \/ UNCHANGED vars
  BY <1>14, <1>1 DEF Tick, LoadFails, RecordFails, TimeLost, TimeFound, PowerLoss, vars
<1> QED
  BY <1>4, <1>5, <1>6, <1>7, <1>8, <1>9, <1>10, <1>11, <1>12, <1>13, <1>14
     DEF Next, TransitionTask
\* Only ClaimTransition takes the transition, and not from anyone.
LEMMA SchedulerClaims ==
    SchedulerTask => \/ UNCHANGED transition
                     \/ /\ sched.pc = "claim" /\ transition.pc = "none"
                        /\ Claim("production", TRUE)
<1> SUFFICES ASSUME SchedulerTask
             PROVE  \/ UNCHANGED transition
                    \/ /\ sched.pc = "claim" /\ transition.pc = "none"
                       /\ Claim("production", TRUE)
  OBVIOUS
<1> USE DEF consoleVars, RemoteVars
<1>1. CASE Load \/ Evaluate \/ Consume \/ PersistAttempt \/ InspectCredential \/ InspectReplacement \/ Intend
  BY <1>1 DEF Load, Evaluate, Consume, PersistAttempt, InspectCredential, InspectReplacement,
              Intend, Persisting
<1>2. CASE Order \/ Create \/ Verify \/ Undo \/ Challenge \/ Finalize \/ Cleanup
  BY <1>2 DEF Order, Create, Verify, Undo, Challenge, Finalize, Cleanup
<1>3. CASE Announce \/ Drop \/ Check \/ Begin \/ BeginRefused
  BY <1>3 DEF Announce, Drop, Check, Begin, BeginRefused, Persisting
<1>4. CASE ClaimTransition
  BY <1>4 DEF ClaimTransition, Claimable, Sched
<1>5. CASE Abort \/ CompleteAttempt \/ Retry
  BY <1>5 DEF Abort, CompleteAttempt, Retry, Persisting
<1> QED
  BY <1>1, <1>2, <1>3, <1>4, <1>5 DEF SchedulerTask

\* A transition that has just been claimed.
LEMMA Claimed ==
    ASSUME NEW source \in Sources, NEW auto \in BOOLEAN, Claim(source, auto)
    PROVE  /\ transition' = [pc |-> "begin", target |-> source, auto |-> auto,
                             source |-> "embedded", leaf |-> 0, stored |-> 0, failed |-> FALSE]
           /\ TransitionType'
<1>1. transition' = [pc |-> "begin", target |-> source, auto |-> auto,
                     source |-> "embedded", leaf |-> 0, stored |-> 0, failed |-> FALSE]
  BY DEF Claim, NoTransition
<1>2. 0 \in Leaves /\ "embedded" \in Sources
  BY ConsoleAssumption DEF Leaves, Sources
<1> QED
  BY <1>1, <1>2 DEF TransitionType, TransitionPcs

\* A transition that is left alone keeps its type.
LEMMA TransitionKept == TransitionType /\ UNCHANGED transition => TransitionType'
BY DEF TransitionType

\* Every step keeps the type of the transition.
LEMMA TransitionStep == ASSUME TypeInv, [Next]_vars PROVE TransitionType'
<1> USE TransitionKept DEF TypeInv
<1>1. NoTransition \in [pc : TransitionPcs, target : Sources, auto : BOOLEAN, source : Sources,
                        leaf : Leaves, stored : Leaves, failed : BOOLEAN]
  BY ConsoleAssumption DEF NoTransition, TransitionPcs, Sources, Leaves
<1>2. CASE BootPath
  BY <1>2, BootLeaves
<1>3. CASE TransitionTask
  <2>1. tls.source \in Sources /\ tls.leaf \in Leaves /\ tls.stored \in Leaves /\ 0 \in Leaves
    BY ConsoleAssumption DEF TlsType, Leaves
  <2>2. CASE TransitionBegin
    BY <2>1, <2>2 DEF TransitionBegin, TransitionType, TransitionPcs
  <2>3. CASE TransitionStop
    BY <2>1, <2>3 DEF TransitionStop, TransitionType, TransitionPcs
  <2>4. CASE TransitionStart
    BY <2>4 DEF TransitionStart, TransitionType, TransitionPcs, AfterStartFails
  <2>5. CASE TransitionIdentify \/ TransitionPrefer
    BY <2>5 DEF TransitionIdentify, Identify, TransitionPrefer, TransitionType, TransitionPcs
  <2>6. CASE TransitionSettle \/ TransitionFinish
    BY <2>6 DEF TransitionSettle, TransitionFinish, TransitionType, TransitionPcs
  <2>7. CASE TransitionRestore \/ TransitionEmergency
    BY <2>7 DEF TransitionRestore, TransitionEmergency, TransitionType, TransitionPcs, Finishing
  <2>8. CASE TransitionRelease
    BY <2>8, <1>1 DEF TransitionRelease, TransitionType
  <2> QED
    BY <1>3, <2>2, <2>3, <2>4, <2>5, <2>6, <2>7, <2>8 DEF TransitionTask
<1>4. CASE SchedulerTask
  BY <1>4, SchedulerClaims, Claimed DEF Sources
<1>5. CASE ManualStart \/ ManualTask
  BY <1>5, ManualLeaves
<1>6. CASE OperatorRequest
  BY <1>6, OperatorLeaves, Claimed DEF OperatorClaims
<1>7. CASE Tick \/ LoadFails \/ TimeLost \/ TimeFound \/ UNCHANGED vars
  BY <1>7 DEF Tick, LoadFails, RecordFails, TimeLost, TimeFound, vars, consoleVars
<1>8. CASE PowerLoss
  BY <1>8, <1>1 DEF PowerLoss, TransitionType
<1> QED
  BY <1>2, <1>3, <1>4, <1>5, <1>6, <1>7, <1>8 DEF Next

-------------------------------------------------------------------------------
(* The scheduler. *)

\* The scheduler moves from one place to another.
LEMMA SchedMoves ==
    ASSUME SchedType, NEW pc, NEW next \in SchedPcs, Sched(pc, next)
    PROVE  SchedType'
BY DEF SchedType, Sched

\* Every step keeps the type of the scheduler's state.
LEMMA SchedStep == ASSUME TypeInv, [Next]_vars PROVE SchedType'
<1> USE SchedMoves DEF TypeInv
<1>1. SchedType /\ UNCHANGED sched => SchedType'
  BY DEF SchedType
<1>2. \A pc \in {"load", "sleep", "check", "evaluate"}, last \in BOOLEAN :
        [pc |-> pc, leaf |-> 0, stored |-> FALSE, last |-> last]
          \in [pc : SchedPcs, leaf : Leaves, stored : BOOLEAN, last : BOOLEAN]
  BY ConsoleAssumption DEF SchedPcs, Leaves
<1>3. CASE SchedulerTask
  <2>1. Back \in SchedPcs
    BY DEF Back, SchedPcs
  <2>2. CASE Load \/ Evaluate \/ Consume \/ PersistAttempt \/ Intend
    BY <2>2 DEF Load, Evaluate, Consume, PersistAttempt, Intend, Persisting, SchedPcs
  <2>3. CASE InspectCredential \/ InspectReplacement
    BY <2>3 DEF InspectCredential, InspectReplacement, SchedType, RecordType, Sched, SchedPcs
  <2>4. CASE Order \/ Create \/ Verify \/ Undo \/ Challenge \/ Cleanup
    BY <2>4 DEF Order, Create, Verify, AfterVerifyFails, Undo, Challenge, Cleanup, SchedPcs
  <2>5. CASE Finalize
    BY <2>5 DEF Finalize, SchedType, SchedPcs
  <2>6. CASE Announce \/ Drop
    BY <2>6 DEF Announce, Drop, Persisting, SchedPcs
  <2>7. CASE Check \/ Begin \/ BeginRefused
    <3>1. "begin" \in SchedPcs /\ "claim" \in SchedPcs
      BY DEF SchedPcs
    <3> QED
      BY <2>7, <2>1, <3>1 DEF Check, Begin, BeginRefused, Persisting
  <2>8. CASE ClaimTransition \/ Abort \/ CompleteAttempt
    <3>1. "abort" \in SchedPcs /\ "retry" \in SchedPcs
      BY DEF SchedPcs
    <3> QED
      BY <2>8, <2>1, <3>1 DEF ClaimTransition, AfterClaimFails, Abort, CompleteAttempt, Persisting
  <2>9. CASE Retry
    <3>1. \/ sched' = [pc |-> "check", leaf |-> 0, stored |-> FALSE, last |-> TRUE]
          \/ sched' = [pc |-> "sleep", leaf |-> 0, stored |-> FALSE, last |-> FALSE]
      BY <2>9 DEF Retry, Asleep
    <3> QED
      BY <3>1, <1>2 DEF SchedType
  <2> QED
    BY <1>3, <2>2, <2>3, <2>4, <2>5, <2>6, <2>7, <2>8, <2>9 DEF SchedulerTask
<1>4. CASE (BootPath \/ TransitionTask) /\ UNCHANGED renewalVars
  BY <1>4, <1>1 DEF renewalVars
<1>5. CASE ManualStart \/ ManualTask
  BY <1>5, <1>1, ManualLeaves
<1>6. CASE OperatorRequest
  BY <1>6, <1>1, OperatorLeaves
<1>7. CASE Tick
  <2>1. sched' = [pc |-> "evaluate", leaf |-> 0, stored |-> FALSE, last |-> FALSE]
    BY <1>7 DEF Tick, Asleep
  <2> QED
    BY <2>1, <1>2 DEF SchedType
<1>8. CASE PowerLoss
  <2>1. sched' = [pc |-> "load", leaf |-> 0, stored |-> FALSE, last |-> FALSE]
    BY <1>8 DEF PowerLoss, Asleep
  <2> QED
    BY <2>1, <1>2 DEF SchedType
<1>9. CASE LoadFails \/ TimeLost \/ TimeFound \/ UNCHANGED vars
  BY <1>9, <1>1 DEF LoadFails, RecordFails, TimeLost, TimeFound, vars, renewalVars
<1> QED
  BY <1>3, <1>4, <1>5, <1>6, <1>7, <1>8, <1>9 DEF Next

\* Every step keeps the types.
LEMMA TypeStep == TypeInv /\ [Next]_vars => TypeInv'
BY RecordStep, TlsStep, TransitionStep, SchedStep, FlagStep DEF TypeInv
-------------------------------------------------------------------------------
(* The tasks. *)

\* The order of the start is kept.
LEMMA PhaseStep == ASSUME TypeInv, PhaseInv, [Next]_vars PROVE PhaseInv'
<1> USE DEF PhaseInv
<1>1. CASE BootPath /\ UNCHANGED renewalVars
  <2>1. sched' = sched
    BY <1>1 DEF BootPath, BootServe, BootFallback, BootEmbedded, BootIdentify,
                BootReconcileIntent, BootReconcileHandoff,
                renewalVars
  <2>2. /\ boot' \in {"fallback", "embedded", "down"}
           => boot \in {"serve", "fallback", "embedded"} /\ server' = server
        /\ boot' = "identify" => boot = "serve"
    BY <1>1 DEF BootPath, BootServe, BootFallback, BootEmbedded, BootIdentify,
                BootReconcileIntent, BootReconcileHandoff
  <2> QED
    BY <1>1, <2>1, <2>2, BootLeaves
<1>2. CASE TransitionTask /\ UNCHANGED renewalVars
  BY <1>2, TransitionLeaves DEF renewalVars
<1>3. CASE SchedulerTask
  <2>1. sched.pc = "load" => boot = "up"
    <3>1. CASE sched.pc = "load"
      BY <1>3, <3>1 DEF SchedulerTask, Load, Evaluate, Consume, PersistAttempt,
           InspectCredential, InspectReplacement, Intend, Order, Create, Verify, Undo, Challenge, Finalize, Cleanup,
           Announce, Drop, Check, Begin, BeginRefused, ClaimTransition, Abort, CompleteAttempt,
           Retry, Persisting, Sched
    <3> QED BY <3>1
  <2> QED
    BY <1>3, <2>1, SchedulerLeaves, SchedulerClaims
<1>4. CASE ManualStart \/ ManualTask
  BY <1>4, ManualLeaves
<1>5. CASE OperatorRequest
  BY <1>5, OperatorLeaves DEF OperatorClaims
<1>6. CASE Tick
  BY <1>6 DEF Tick
<1>7. CASE PowerLoss
  BY <1>7 DEF PowerLoss, Asleep, NoTransition
<1>8. CASE LoadFails \/ TimeLost \/ TimeFound \/ UNCHANGED vars
  BY <1>8 DEF LoadFails, RecordFails, TimeLost, TimeFound, vars, renewalVars, consoleVars
<1> QED
  BY <1>1, <1>2, <1>3, <1>4, <1>5, <1>6, <1>7, <1>8 DEF Next

\* What a move of the scheduler leaves behind.
LEMMA Moved ==
    ASSUME SchedType, NEW pc, NEW next, Sched(pc, next)
    PROVE  /\ sched.pc = pc /\ sched'.pc = next
           /\ sched'.stored = sched.stored /\ sched'.leaf = sched.leaf
BY DEF SchedType, Sched

\* Where a preflight, a refusal and a claim lead.
LEMMA Handed ==
    ASSUME SchedType, Check \/ BeginRefused \/ ClaimTransition
    PROVE  /\ sched.pc \in {"check", "begin", "claim"}
           /\ sched'.pc \in {"begin", "sleep", "complete", "abort"}
           /\ sched'.pc = "begin" => Preflight /\ Check
<1>1. Back \in {"sleep", "complete"}
  BY DEF Back
<1>2. CASE Check
  <2>1. PICK next : /\ Sched("check", next)
                    /\ next = (IF Preflight THEN "begin" ELSE Back) \/ next = Back
    BY <1>2 DEF Check
  <2> QED
    BY <1>1, <1>2, <2>1, Moved
<1>3. CASE BeginRefused
  BY <1>1, <1>3, Moved DEF BeginRefused
<1>4. CASE ClaimTransition
  <2>1. Sched("claim", Back) \/ Sched("claim", "abort")
    BY <1>4 DEF ClaimTransition, AfterClaimFails
  <2>2. sched.pc = "claim" /\ sched'.pc \in {Back, "abort"}
    BY <2>1, Moved
  <2> QED
    BY <1>1, <2>2
<1> QED
  BY <1>2, <1>3, <1>4

\* Nothing but the scheduler writes the attempt.
LEMMA AttemptKept ==
    ASSUME TypeInv, BootPath \/ TransitionTask \/ ManualStart \/ ManualTask \/ OperatorRequest
    PROVE  nvs'.attempt = nvs.attempt
<1> USE DEF TypeInv, RecordType, Write, RecordFails
<1>1. CASE BootPath
  BY <1>1 DEF BootPath, BootServe, BootFallback, BootEmbedded, BootIdentify, BootReconcileIntent,
              BootReconcileHandoff
<1>2. CASE TransitionTask
  BY <1>2 DEF TransitionTask, TransitionBegin, TransitionStop, TransitionStart,
              TransitionIdentify, TransitionPrefer, TransitionSettle, TransitionFinish,
              TransitionRestore, TransitionEmergency, TransitionRelease
<1>3. CASE ManualStart \/ ManualTask
  BY <1>3 DEF ManualStart, ManualTask, ManualStep, ManualFinalize, Install
<1>4. CASE OperatorRequest
  BY <1>4 DEF OperatorRequest, Operator, SetAutomatic, Select
<1> QED
  BY <1>1, <1>2, <1>3, <1>4

\* No step orders twice in one cooldown.
LEMMA OrdersStep == ASSUME TypeInv, OrdersInv, [Next]_vars PROVE OrdersInv'
<1> USE Moved, AttemptKept DEF TypeInv, OrdersInv, consoleVars, RemoteVars
<1>1. CASE (BootPath \/ TransitionTask) /\ UNCHANGED renewalVars
  BY <1>1 DEF renewalVars
<1>2. CASE Load
  BY <1>2 DEF Load, LoadCooldown
<1>3. CASE Evaluate
  BY <1>3 DEF Evaluate
<1>4. CASE Consume
  BY <1>4 DEF Consume, FlagType
<1>5. CASE PersistAttempt \/ CompleteAttempt
  <2>1. nvs' = nvs \/ nvs' = [nvs EXCEPT !.attempt = cooldown]
    BY <1>5 DEF PersistAttempt, CompleteAttempt, Persisting, Write, RecordFails
  <2>2. nvs'.attempt \in {nvs.attempt, cooldown}
    BY <2>1 DEF RecordType
  <2>3. UNCHANGED <<cooldown, orders>>
    BY <1>5 DEF PersistAttempt, CompleteAttempt, Persisting
  <2>4. CASE PersistAttempt
    <3>1. sched.pc = "persist" /\ \/ sched'.pc = "inspect" /\ nvs'.attempt = cooldown
                                  \/ sched'.pc = "retry"
      BY <2>4 DEF PersistAttempt, Persisting, Write, RecordType
    <3> QED
      BY <2>2, <2>3, <3>1 DEF FlagType, RecordType
  <2>5. CASE CompleteAttempt
    <3>1. sched.pc = "complete" /\ sched'.pc = "retry"
      BY <2>5 DEF CompleteAttempt, Persisting
    <3> QED
      BY <2>2, <2>3, <3>1 DEF FlagType, RecordType
  <2> QED
    BY <1>5, <2>4, <2>5
<1>6. CASE InspectCredential \/ InspectReplacement
  <2>1. \/ sched.pc = "inspect" /\ sched'.pc \in {"intend", "complete"}
        \/ sched.pc = "replaced" /\ sched'.pc \in {"announce", "complete"}
    <3>1. CASE InspectCredential
      BY <3>1 DEF InspectCredential, SchedType
    <3>2. CASE InspectReplacement
      BY <3>2 DEF InspectReplacement, SchedType
    <3> QED
      BY <1>6, <3>1, <3>2
  <2>2. UNCHANGED <<nvs, cooldown, orders>>
    BY <1>6 DEF InspectCredential, InspectReplacement
  <2> QED
    BY <2>1, <2>2
<1>7. CASE Intend \/ Announce \/ Drop \/ Begin \/ Abort
  <2>1. nvs'.attempt = nvs.attempt
    BY <1>7 DEF Intend, Announce, Drop, Begin, Abort, Persisting, Write, RecordFails, RecordType
  <2> QED
    BY <1>7, <2>1 DEF Intend, Announce, Drop, Begin, Abort, Persisting, Back
<1>8. CASE Order
  BY <1>8 DEF Order
<1>9. CASE Create \/ Verify \/ Undo \/ Challenge \/ Cleanup
  BY <1>9 DEF Create, Verify, AfterVerifyFails, Undo, Challenge, Cleanup
<1>10. CASE Finalize
  <2>1. sched.pc = "finalize" /\ sched'.pc = "cleanup"
    BY <1>10 DEF Finalize, SchedType
  <2>2. nvs'.attempt = nvs.attempt
    BY <1>10 DEF Finalize, Install, RecordType
  <2> QED
    BY <1>10, <2>1, <2>2 DEF Finalize
<1>11. CASE Check \/ BeginRefused \/ ClaimTransition
  <2>1. UNCHANGED <<nvs, cooldown, orders>>
    BY <1>11 DEF Check, BeginRefused, ClaimTransition
  <2> QED
    BY <1>11, <2>1, Handed
<1>12. CASE Retry
  <2>1. sched.pc = "retry" /\ sched'.pc \in {"check", "sleep"}
    <3>1. \/ sched' = [pc |-> "check", leaf |-> 0, stored |-> FALSE, last |-> TRUE]
          \/ sched' = [pc |-> "sleep", leaf |-> 0, stored |-> FALSE, last |-> FALSE]
      BY <1>12 DEF Retry, Asleep
    <3> QED
      BY <1>12, <3>1 DEF Retry
  <2>2. UNCHANGED <<nvs, cooldown, orders>>
    BY <1>12 DEF Retry
  <2> QED
    BY <2>1, <2>2
<1>13. CASE ManualStart \/ ManualTask
  BY <1>13, ManualLeaves
<1>14. CASE OperatorRequest
  BY <1>14, OperatorLeaves
<1>15. CASE Tick
  BY <1>15 DEF Tick, Asleep
<1>16. CASE PowerLoss
  BY <1>16 DEF PowerLoss, Asleep
<1>17. CASE LoadFails \/ TimeLost \/ TimeFound \/ UNCHANGED vars
  BY <1>17 DEF LoadFails, RecordFails, TimeLost, TimeFound, vars, renewalVars
<1> QED
  BY <1>1, <1>2, <1>3, <1>4, <1>5, <1>6, <1>7, <1>8, <1>9, <1>10, <1>11, <1>12, <1>13,
     <1>14, <1>15, <1>16, <1>17 DEF Next, SchedulerTask

\* No step leaves a record of a transaction that is over.
LEMMA TxtStep == ASSUME TypeInv, TxtInv, [Next]_vars PROVE TxtInv'
<1> USE Moved DEF TypeInv, TxtInv, consoleVars, RemoteVars
<1>1. CASE (BootPath \/ TransitionTask) /\ UNCHANGED renewalVars
  BY <1>1, BootLeaves, TransitionLeaves DEF renewalVars
<1>2. CASE Load \/ Evaluate \/ Consume
  BY <1>2 DEF Load, Evaluate, Consume
<1>3. CASE PersistAttempt \/ CompleteAttempt \/ Intend \/ Announce \/ Drop \/ Begin \/ Abort
  BY <1>3 DEF PersistAttempt, CompleteAttempt, Intend, Announce, Drop, Begin, Abort, Persisting
<1>4. CASE InspectCredential \/ InspectReplacement
  <2>1. sched.pc \in {"inspect", "replaced"}
    BY <1>4 DEF InspectCredential, InspectReplacement, Sched
  <2> QED
    BY <1>4, <2>1 DEF InspectCredential, InspectReplacement
<1>5. CASE Order \/ Verify \/ Challenge
  BY <1>5 DEF Order, Verify, AfterVerifyFails, Challenge
<1>6. CASE Create
  BY <1>6 DEF Create
<1>7. CASE Undo \/ Cleanup
  BY <1>7 DEF Undo, Cleanup, Delete
<1>8. CASE Finalize
  <2>1. sched.pc = "finalize" /\ sched'.pc = "cleanup"
    BY <1>8 DEF Finalize, SchedType
  <2> QED
    BY <1>8, <2>1 DEF Finalize
<1>9. CASE Check \/ BeginRefused \/ ClaimTransition
  <2>1. UNCHANGED <<txt, excused, httpd>>
    BY <1>9 DEF Check, BeginRefused, ClaimTransition
  <2> QED
    BY <1>9, <2>1, Handed
<1>10. CASE Retry
  BY <1>10 DEF Retry
<1>11. CASE ManualStart
  BY <1>11 DEF ManualStart, Request, renewalVars
<1>12. CASE ManualStep
  BY <1>12 DEF ManualStep, Handler, Delete
<1>13. CASE ManualFinalize
  BY <1>13 DEF ManualFinalize, Handler
<1>14. CASE OperatorRequest
  BY <1>14, OperatorLeaves
<1>15. CASE Tick
  BY <1>15 DEF Tick
<1>16. CASE PowerLoss
  BY <1>16 DEF PowerLoss
<1>17. CASE LoadFails \/ TimeLost \/ TimeFound \/ UNCHANGED vars
  BY <1>17 DEF LoadFails, RecordFails, TimeLost, TimeFound, vars, renewalVars
<1> QED
  BY <1>1, <1>2, <1>3, <1>4, <1>5, <1>6, <1>7, <1>8, <1>9, <1>10, <1>11, <1>12, <1>13,
     <1>14, <1>15, <1>16, <1>17 DEF Next, SchedulerTask, ManualTask
-------------------------------------------------------------------------------
(* The server, its credential and the transition. *)

\* Started leaves a server that runs with what is in memory.
LEMMA StartedInv ==
    ASSUME NEW source \in Sources, NEW leaf \in Leaves, Started(source, leaf),
           source # "production" => leaf = 0
    PROVE  ServerInv' /\ server' # Down
<1>1. /\ server' = [source |-> source, leaf |-> leaf]
      /\ tls'.source = source
      /\ tls'.stored = IF source = "staging" THEN 1 ELSE leaf
  BY DEF Started
<1>2. server' # Down
  BY <1>1 DEF Down, Sources
<1> QED
  BY <1>1, <1>2 DEF ServerInv, Memory, Sources

\* ServerInv is about the server and tls only.
LEMMA ServerKept ==
    ASSUME ServerInv, UNCHANGED <<server, tls>>
    PROVE  ServerInv'
BY DEF ServerInv, Memory

\* Every step keeps the credential in memory that of the server.
LEMMA ServerStep ==
    ASSUME TypeInv, PhaseInv, ServerInv, TransitionInv, [Next]_vars
    PROVE  ServerInv'
<1> USE ServerKept DEF TypeInv
<1>1. 0 \in Leaves /\ nvs.cred \in Leaves /\ {"embedded", "production"} \subseteq Sources
  BY ConsoleAssumption DEF RecordType, Leaves, Sources
<1>2. CASE BootServe \/ BootFallback \/ BootEmbedded
  BY <1>1, <1>2, StartedInv DEF BootServe, BootFallback, BootEmbedded
<1>3. CASE BootIdentify \/ TransitionIdentify
  <2>1. server' = server /\ (tls' = [tls EXCEPT !.leaf = nvs.cred] \/ UNCHANGED tls)
    BY <1>3 DEF BootIdentify, TransitionIdentify, Identify
  <2> QED
    BY <2>1 DEF ServerInv, Memory, TlsType
<1>4. CASE BootReconcileIntent \/ BootReconcileHandoff
  BY <1>4 DEF BootReconcileIntent, BootReconcileHandoff
<1>5. CASE TransitionBegin \/ TransitionPrefer \/ TransitionSettle
           \/ TransitionFinish \/ TransitionRelease
  BY <1>5 DEF TransitionBegin, TransitionPrefer, TransitionSettle,
              TransitionFinish, TransitionRelease
<1>6. CASE TransitionStop
  <2>1. transition.source = tls.source
    BY <1>6 DEF TransitionStop, TransitionInv
  <2>2. tls'.stored = 0 /\ server' = Down
    BY <1>6, <2>1 DEF TransitionStop, TlsType, ServerInv
  <2> QED
    BY <2>2 DEF ServerInv
<1>7. CASE TransitionStart
  <2>1. transition.target \in Sources /\ LeafOf(transition.target) \in Leaves
        /\ (transition.target # "production" => LeafOf(transition.target) = 0)
    BY <1>1 DEF TransitionType, LeafOf
  <2> QED
    BY <1>7, <2>1, StartedInv DEF TransitionStart
<1>8. CASE TransitionRestore
  <2>1. CASE /\ server' = [source |-> transition.source, leaf |-> RestoredLeaf]
             /\ tls' = [source |-> transition.source, leaf |-> transition.leaf,
                        stored |-> transition.stored]
    <3>1. transition.source \in Sources
      BY DEF TransitionType
    <3>2. server' # Down
      BY <2>1, <3>1 DEF Down, Sources
    <3> QED
      BY <2>1, <3>2 DEF ServerInv, Memory, RestoredLeaf, TransitionInv
  <2>2. CASE server' = Down /\ tls' = Freed
    <3>1. tls'.stored = 0
      BY <2>2 DEF Freed, TlsType, ServerInv
    <3> QED
      BY <2>2, <3>1 DEF ServerInv
  <2> QED
    BY <1>8, <2>1, <2>2 DEF TransitionRestore
<1>9. CASE TransitionEmergency
  BY <1>1, <1>9, StartedInv DEF TransitionEmergency
<1>10. CASE SchedulerTask
  BY <1>10, SchedulerLeaves
<1>11. CASE ManualStart \/ ManualTask
  BY <1>11, ManualLeaves
<1>12. CASE OperatorRequest
  BY <1>12, OperatorLeaves
<1>13. CASE Tick \/ LoadFails \/ TimeLost \/ TimeFound \/ UNCHANGED vars
  BY <1>13 DEF Tick, LoadFails, RecordFails, TimeLost, TimeFound, vars, consoleVars
<1>14. CASE PowerLoss
  BY <1>14 DEF PowerLoss, ServerInv, EmbeddedTls
<1> QED
  BY <1>2, <1>3, <1>4, <1>5, <1>6, <1>7, <1>8, <1>9, <1>10, <1>11, <1>12, <1>13, <1>14
     DEF Next, BootPath, TransitionTask

\* TransitionInv depends on the transition, the server, tls and prior only.
LEMMA TransitionInvKept ==
    ASSUME TransitionInv, UNCHANGED <<transition, server, tls, prior>>
    PROVE  TransitionInv'
BY DEF TransitionInv, LastGood, RestoredLeaf, LastKnownGood

\* A transition that has not begun, or has been released, owes nothing.
LEMMA TransitionFresh ==
    ASSUME transition'.pc \in {"none", "begin"}, transition'.stored = 0, ~transition'.failed,
           transition'.auto => transition'.pc = "begin" /\ transition'.target = "production"
    PROVE  TransitionInv'
BY DEF TransitionInv, LastKnownGood

\* Every step of a transition keeps what it can go back to.
LEMMA TransitionInvStep ==
    ASSUME TypeInv, PhaseInv, ServerInv, TransitionInv, [Next]_vars
    PROVE  TransitionInv'
<1> USE TransitionInvKept DEF TypeInv
<1>1. CASE BootPath
  <2>1. transition.pc = "none" \/ UNCHANGED <<server, tls>>
    BY <1>1 DEF PhaseInv, BootPath, BootServe, BootFallback, BootEmbedded, BootIdentify,
                BootReconcileIntent,
                BootReconcileHandoff
  <2>2. UNCHANGED <<transition, prior>>
    BY <1>1, BootLeaves
  <2> QED
    BY <2>1, <2>2 DEF TransitionInv, LastKnownGood, LastGood, RestoredLeaf
<1>2. CASE TransitionBegin
  <2>1. transition.pc = "begin"
        /\ transition' = [transition EXCEPT !.pc = "stop", !.source = tls.source, !.leaf = tls.leaf]
    BY <1>2 DEF TransitionBegin
  <2>2. /\ transition'.pc = "stop" /\ transition'.source = tls.source
        /\ transition'.auto = transition.auto /\ transition'.target = transition.target
        /\ transition'.failed = transition.failed /\ transition'.stored = transition.stored
    BY <2>1 DEF TransitionType
  <2>3. UNCHANGED tls
    BY <1>2 DEF TransitionBegin
  <2> QED
    BY <2>1, <2>2, <2>3 DEF TransitionInv, LastKnownGood
<1>3. CASE TransitionStop
  <2>1. /\ transition.pc = "stop" /\ transition.source = tls.source /\ prior' = server
        /\ ~transition.failed
    BY <1>3 DEF TransitionStop, TransitionInv
  <2>2. /\ transition'.pc = "start" /\ transition'.source = transition.source
        /\ transition'.auto = transition.auto /\ transition'.target = transition.target
        /\ transition'.failed = transition.failed
        /\ transition'.stored = IF transition.source = "embedded" THEN 0 ELSE tls.stored
    BY <1>3 DEF TransitionStop, TransitionType
  <2>3. transition'.stored # 0 => prior' = LastGood'
    BY <2>1, <2>2 DEF ServerInv, Memory, LastGood, RestoredLeaf
  <2> QED
    BY <2>1, <2>2, <2>3 DEF TransitionInv, LastKnownGood
<1>4. ASSUME UNCHANGED prior,
             transition.pc \notin {"none", "begin", "stop"},
             transition'.pc \notin {"none", "begin", "stop"},
             transition'.auto = transition.auto, transition'.target = transition.target,
             transition'.source = transition.source, transition'.stored = transition.stored,
             transition'.pc = "emergency" => server' = Down,
             transition'.failed => transition'.pc \in {"restore", "emergency", "finish", "release"},
             transition'.failed /\ transition'.pc \in {"finish", "release"}
               => server' \in {prior, Down, [source |-> "embedded", leaf |-> 0]}
      PROVE  TransitionInv'
  <2>1. LastGood' = LastGood
    BY <1>4 DEF LastGood, RestoredLeaf
  <2> QED
    BY <1>4, <2>1 DEF TransitionInv, LastKnownGood
<1>5. ASSUME transition' = [transition EXCEPT !.pc = "restore", !.failed = TRUE],
             transition.pc \notin {"none", "begin", "stop"}, UNCHANGED prior
      PROVE  TransitionInv'
  BY <1>4, <1>5 DEF TransitionType
<1>6. ASSUME NEW pc \in {"identify", "prefer", "settle", "finish", "release", "emergency"},
             transition' = [transition EXCEPT !.pc = pc],
             transition.pc \notin {"none", "begin", "stop"}, UNCHANGED prior,
             pc = "emergency" => server' = Down,
             transition.failed => pc \in {"emergency", "finish", "release"},
             transition.failed /\ pc \in {"finish", "release"}
               => server' \in {prior, Down, [source |-> "embedded", leaf |-> 0]}
      PROVE  TransitionInv'
  <2>1. /\ transition'.pc = pc /\ transition'.failed = transition.failed
        /\ transition'.auto = transition.auto /\ transition'.target = transition.target
        /\ transition'.source = transition.source /\ transition'.stored = transition.stored
    BY <1>6 DEF TransitionType
  <2> QED
    BY <1>4, <1>6, <2>1
<1>7. CASE TransitionStart
  <2>1. transition.pc = "start" /\ UNCHANGED prior /\ ~transition.failed
    BY <1>7 DEF TransitionStart, TransitionInv
  <2>2. CASE transition' = [transition EXCEPT !.pc = "restore", !.failed = TRUE]
    BY <1>5, <2>1, <2>2
  <2>3. ASSUME NEW pc \in {"identify", "prefer"}, transition' = [transition EXCEPT !.pc = pc]
        PROVE  TransitionInv'
    BY <1>6, <2>1, <2>3
  <2> QED
    BY <1>7, <2>2, <2>3 DEF TransitionStart, AfterStartFails
<1>8. CASE TransitionIdentify
  <2>1. /\ transition.pc = "identify" /\ UNCHANGED prior /\ ~transition.failed
        /\ transition' = [transition EXCEPT !.pc = "prefer"]
    BY <1>8 DEF TransitionIdentify, Identify, TransitionInv
  <2> QED
    BY <1>6, <2>1
<1>9. CASE TransitionPrefer
  <2>1. transition.pc = "prefer" /\ UNCHANGED prior /\ ~transition.failed
    BY <1>9 DEF TransitionPrefer, TransitionInv
  <2>2. CASE transition' = [transition EXCEPT !.pc = "restore", !.failed = TRUE]
    BY <1>5, <2>1, <2>2
  <2>3. ASSUME NEW pc \in {"settle", "release"}, transition' = [transition EXCEPT !.pc = pc]
        PROVE  TransitionInv'
    BY <1>6, <2>1, <2>3
  <2> QED
    BY <1>9, <2>2, <2>3 DEF TransitionPrefer
<1>10. CASE TransitionSettle
  <2>1. transition.pc = "settle" /\ UNCHANGED prior /\ ~transition.failed
    BY <1>10 DEF TransitionSettle, TransitionInv
  <2>2. ASSUME NEW pc \in {"finish", "release"}, transition' = [transition EXCEPT !.pc = pc]
        PROVE  TransitionInv'
    BY <1>6, <2>1, <2>2
  <2> QED
    BY <1>10, <2>2 DEF TransitionSettle
<1>11. CASE TransitionFinish
  <2>1. /\ transition.pc = "finish" /\ UNCHANGED <<prior, server>>
        /\ transition' = [transition EXCEPT !.pc = "release"]
    BY <1>11 DEF TransitionFinish
  <2>2. transition.failed => server \in {prior, Down, [source |-> "embedded", leaf |-> 0]}
    BY <2>1 DEF TransitionInv, LastKnownGood
  <2> QED
    BY <1>6, <2>1, <2>2
<1>12. Finishing \in {"finish", "release"}
  BY DEF Finishing
<1>13. CASE TransitionRestore
  <2>1. transition.pc = "restore" /\ UNCHANGED prior
    BY <1>13 DEF TransitionRestore
  <2>2. CASE /\ Restorable /\ server' = [source |-> transition.source, leaf |-> RestoredLeaf]
             /\ transition' = [transition EXCEPT !.pc = Finishing]
    <3>1. server' \in {prior, [source |-> "embedded", leaf |-> 0]}
      BY <2>1, <2>2 DEF Restorable, RestoredLeaf, TransitionInv, LastGood
    <3> QED
      BY <1>6, <1>12, <2>1, <2>2, <3>1
  <2>3. CASE server' = Down /\ transition' = [transition EXCEPT !.pc = "emergency"]
    BY <1>6, <2>1, <2>3
  <2> QED
    BY <1>13, <2>2, <2>3 DEF TransitionRestore
<1>14. CASE TransitionEmergency
  <2>1. /\ transition.pc = "emergency" /\ UNCHANGED prior /\ server = Down
        /\ transition' = [transition EXCEPT !.pc = Finishing]
    BY <1>14 DEF TransitionEmergency, TransitionInv
  <2>2. server' \in {Down, [source |-> "embedded", leaf |-> 0]}
    BY <1>14, <2>1 DEF TransitionEmergency, Started
  <2> QED
    BY <1>6, <1>12, <2>1, <2>2
<1>15. CASE TransitionRelease \/ PowerLoss
  BY <1>15, TransitionFresh DEF TransitionRelease, PowerLoss, NoTransition
<1>16. CASE SchedulerTask
  <2>1. CASE Claim("production", TRUE)
    BY <2>1, TransitionFresh DEF Claim, NoTransition
  <2> QED
    BY <1>16, <2>1, SchedulerLeaves, SchedulerClaims
<1>17. CASE ManualStart \/ ManualTask
  BY <1>17, ManualLeaves
<1>18. CASE OperatorRequest
  <2>1. ASSUME NEW source \in Sources, Claim(source, FALSE)
        PROVE  TransitionInv'
    BY <2>1, TransitionFresh DEF Claim, NoTransition
  <2> QED
    BY <1>18, <2>1, OperatorLeaves DEF OperatorClaims
<1>19. CASE Tick \/ LoadFails \/ TimeLost \/ TimeFound \/ UNCHANGED vars
  BY <1>19 DEF Tick, LoadFails, RecordFails, TimeLost, TimeFound, vars, consoleVars
<1> QED
  BY <1>1, <1>2, <1>3, <1>7, <1>8, <1>9, <1>10, <1>11, <1>13, <1>15, <1>16, <1>17,
     <1>18, <1>19, <1>14 DEF Next, TransitionTask

-------------------------------------------------------------------------------
(* The handoff record and the operator's choice. *)

\* Who writes the handoff record.
LEMMA HandoffKept ==
    ASSUME TypeInv,
           \/ BootServe \/ BootFallback \/ BootEmbedded \/ BootIdentify \/ BootReconcileIntent
           \/ TransitionBegin \/ TransitionStop \/ TransitionStart \/ TransitionIdentify
           \/ TransitionPrefer \/ TransitionSettle \/ TransitionRestore
           \/ TransitionEmergency \/ TransitionRelease
           \/ ManualStart \/ ManualTask \/ OperatorRequest
    PROVE  nvs'.handoff = nvs.handoff
<1> USE DEF TypeInv, RecordType, Write, RecordFails
<1>1. CASE BootServe \/ BootFallback \/ BootEmbedded \/ BootIdentify \/ BootReconcileIntent
  BY <1>1 DEF BootServe, BootFallback, BootEmbedded, BootIdentify, BootReconcileIntent
<1>2. CASE \/ TransitionBegin \/ TransitionStop \/ TransitionStart \/ TransitionIdentify
           \/ TransitionPrefer \/ TransitionSettle
  BY <1>2 DEF TransitionBegin, TransitionStop, TransitionStart, TransitionIdentify,
              TransitionPrefer, TransitionSettle
<1>3. CASE TransitionRestore \/ TransitionEmergency \/ TransitionRelease
  BY <1>3 DEF TransitionRestore, TransitionEmergency, TransitionRelease
<1>4. CASE ManualStart \/ ManualTask
  BY <1>4 DEF ManualStart, ManualTask, ManualStep, ManualFinalize, Install
<1>5. CASE OperatorRequest
  BY <1>5 DEF OperatorRequest, Operator, SetAutomatic, Select
<1> QED
  BY <1>1, <1>2, <1>3, <1>4, <1>5

\* Between preflight and claim nothing but an operator's transition intervenes.
LEMMA KeptStep ==
    ASSUME TypeInv, PhaseInv, KeptInv, [Next]_vars
    PROVE  KeptInv'
<1> USE DEF TypeInv, KeptInv
<1>1. CASE BootPath /\ UNCHANGED renewalVars
  <2>1. sched.pc = "load" /\ sched' = sched
    BY <1>1, BootLeaves DEF PhaseInv, renewalVars
  <2> QED
    BY <2>1
<1>2. CASE TransitionTask /\ UNCHANGED renewalVars
  BY <1>2, TransitionLeaves DEF renewalVars
<1>3. CASE SchedulerTask
  <2>1. UNCHANGED tls
    BY <1>3, SchedulerLeaves
  <2>2. CASE Check
    <3>1. sched'.pc = "begin" => Preflight
      BY <2>2, Handed
    <3>2. sched'.pc # "claim" /\ UNCHANGED transition
      BY <2>2, Handed DEF Check, RemoteVars
    <3> QED
      BY <2>1, <3>1, <3>2 DEF Preflight
  <2>3. CASE Begin
    BY <2>1, <2>3, Moved DEF Begin, Persisting, Back
  <2>4. CASE BeginRefused \/ ClaimTransition
    <3>1. sched'.pc \notin {"begin", "claim"}
      <4>1. sched'.pc \in {"begin", "sleep", "complete", "abort"} /\ sched.pc \in {"begin", "claim"}
        BY <2>4, Handed, Moved DEF BeginRefused, ClaimTransition
      <4>2. sched'.pc = "begin" => Check
        BY <2>4, Handed
      <4>3. ~Check
        BY <4>1, Moved DEF Check
      <4> QED
        BY <4>1, <4>2, <4>3
    <3> QED
      BY <3>1
  <2>5. ~(Check \/ Begin \/ BeginRefused \/ ClaimTransition) => sched'.pc \notin {"begin", "claim"}
    <3>1. CASE Load \/ Evaluate \/ Consume \/ PersistAttempt \/ Intend \/ Order \/ Create
      BY <3>1, Moved DEF Load, Evaluate, Consume, PersistAttempt, Intend, Persisting, Order, Create
    <3>2. CASE InspectCredential \/ InspectReplacement \/ Finalize
      BY <3>2 DEF InspectCredential, InspectReplacement, Finalize, Sched, SchedType
    <3>3. CASE Verify \/ Undo \/ Challenge \/ Cleanup \/ Announce \/ Drop
      BY <3>3, Moved DEF Verify, AfterVerifyFails, Undo, Challenge, Cleanup, Announce, Drop,
                         Persisting
    <3>4. CASE Abort \/ CompleteAttempt
      BY <3>4, Moved DEF Abort, CompleteAttempt, Persisting, Back
    <3>5. CASE Retry
      <4>1. \/ sched' = [pc |-> "check", leaf |-> 0, stored |-> FALSE, last |-> TRUE]
            \/ sched' = [pc |-> "sleep", leaf |-> 0, stored |-> FALSE, last |-> FALSE]
        BY <3>5 DEF Retry, Asleep
      <4> QED
        BY <4>1
    <3> QED
      BY <1>3, <3>1, <3>2, <3>3, <3>4, <3>5 DEF SchedulerTask
  <2> QED
    BY <2>2, <2>3, <2>4, <2>5
<1>4. CASE ManualStart \/ ManualTask
  BY <1>4, ManualLeaves
<1>5. CASE OperatorRequest
  BY <1>5, OperatorLeaves
<1>6. CASE Tick \/ PowerLoss
  BY <1>6 DEF Tick, PowerLoss, Asleep
<1>7. CASE LoadFails \/ TimeLost \/ TimeFound \/ UNCHANGED vars
  BY <1>7 DEF LoadFails, RecordFails, TimeLost, TimeFound, vars, consoleVars, renewalVars
<1> QED
  BY <1>1, <1>2, <1>3, <1>4, <1>5, <1>6, <1>7 DEF Next
\* Every step keeps someone responsible for a handoff on record.
LEMMA BusyStep ==
    ASSUME TypeInv, PhaseInv, TransitionInv, BusyInv, [Next]_vars
    PROVE  BusyInv'
<1> USE DEF TypeInv, BusyInv
<1>1. CASE BootPath /\ UNCHANGED renewalVars
  <2>1. UNCHANGED <<transition, sched>>
    BY <1>1, BootLeaves DEF renewalVars
  <2>2. CASE BootServe \/ BootFallback \/ BootEmbedded \/ BootIdentify
    BY <2>1, <2>2, HandoffKept DEF BootServe, BootFallback, BootEmbedded, BootIdentify, Booting
  <2>3. CASE BootReconcileIntent
    BY <2>1, <2>3, HandoffKept DEF BootReconcileIntent, RecordFails, Booting
  <2>4. CASE BootReconcileHandoff
    BY <2>1, <2>4 DEF BootReconcileHandoff, Write, RecordFails, RecordType
  <2> QED
    BY <1>1, <2>2, <2>3, <2>4 DEF BootPath
<1>2. CASE TransitionTask /\ UNCHANGED renewalVars
  <2>1. UNCHANGED <<boot, sched>>
    BY <1>2, TransitionLeaves DEF renewalVars
  <2>2. transition.pc # "none"
    BY <1>2, TransitionLeaves
  <2>3. CASE \/ TransitionBegin \/ TransitionStop \/ TransitionStart \/ TransitionIdentify
             \/ TransitionPrefer \/ TransitionSettle \/ TransitionRestore \/ TransitionEmergency
    <3>1. nvs'.handoff = nvs.handoff
      BY <2>3, HandoffKept
    <3>2. broken => broken'
      BY <2>3 DEF TransitionBegin, TransitionStop, TransitionStart, TransitionIdentify,
                  TransitionPrefer, TransitionSettle, TransitionRestore, TransitionEmergency,
                  Write, RecordFails
    <3>3. transition.auto /\ transition.pc # "release" => transition'.auto /\ transition'.pc # "release"
      BY <2>3 DEF TransitionBegin, TransitionStop, TransitionStart, TransitionIdentify,
                  TransitionPrefer, TransitionSettle, TransitionRestore, TransitionEmergency,
                  AfterStartFails, Finishing, TransitionInv, TransitionType
    <3> QED
      BY <2>1, <3>1, <3>2, <3>3
  <2>4. CASE TransitionFinish
    <3>1. CASE Write("handoff", HandoffFinished(~transition.failed))
      <4>1. nvs' = [nvs EXCEPT !.handoff = HandoffFinished(~transition.failed)]
        BY <3>1 DEF Write
      <4>2. ~nvs'.handoff.busy
        BY <4>1 DEF RecordType, HandoffFinished
      <4> QED
        BY <4>2
    <3>2. CASE RecordFails
      BY <3>2 DEF RecordFails
    <3> QED
      BY <2>4, <3>1, <3>2 DEF TransitionFinish
  <2>5. CASE TransitionRelease
    BY <2>1, <2>5, HandoffKept DEF TransitionRelease
  <2> QED
    BY <1>2, <2>3, <2>4, <2>5 DEF TransitionTask
<1>3. CASE SchedulerTask
  <2>1. UNCHANGED boot
    BY <1>3, SchedulerLeaves
  <2>2. CASE Claim("production", TRUE)
    BY <2>2 DEF Claim, NoTransition
  <2>3. ASSUME UNCHANGED transition
        PROVE  BusyInv'
    <3> USE <2>1, <2>3, Moved DEF consoleVars, RemoteVars
    <3>1. CASE Load \/ Evaluate \/ Consume \/ Retry
      BY <3>1 DEF Load, Evaluate, Consume, Retry
    <3>2. CASE PersistAttempt \/ Intend \/ Announce \/ Drop \/ CompleteAttempt
      <4>1. nvs'.handoff = nvs.handoff
        BY <3>2 DEF PersistAttempt, Intend, Announce, Drop, CompleteAttempt, Persisting, Write,
                    RecordFails, RecordType
      <4>2. sched.pc \notin {"claim", "abort"} /\ (broken => broken')
        BY <3>2 DEF PersistAttempt, Intend, Announce, Drop, CompleteAttempt, Persisting, Write,
                    RecordFails
      <4> QED
        BY <4>1, <4>2
    <3>3. CASE InspectCredential \/ InspectReplacement \/ Order \/ Create \/ Verify \/ Undo \/ Challenge \/ Cleanup
      <4>1. UNCHANGED <<nvs, broken>> /\ sched.pc \notin {"claim", "abort"}
        BY <3>3 DEF InspectCredential, InspectReplacement, Order, Create, Verify, Undo, Challenge,
                    Cleanup, Sched
      <4> QED
        BY <4>1
    <3>4. CASE Finalize
      <4>1. nvs'.handoff = nvs.handoff /\ UNCHANGED broken /\ sched.pc = "finalize"
        BY <3>4 DEF Finalize, Install, RecordType
      <4> QED
        BY <4>1
    <3>5. CASE Check \/ BeginRefused
      <4>1. UNCHANGED <<nvs, broken>>
        BY <3>5 DEF Check, BeginRefused
      <4>2. sched.pc \notin {"claim", "abort"}
        BY <3>5 DEF Check, BeginRefused, Sched
      <4> QED
        BY <4>1, <4>2
    <3>6. CASE Begin
      <4>1. sched'.pc = "claim" \/ broken'
        BY <3>6 DEF Begin, Persisting, RecordFails
      <4> QED
        BY <4>1
    <3>7. CASE ClaimTransition
      <4>1. UNCHANGED <<nvs, broken>> /\ (sched'.pc = "abort" \/ Claim("production", TRUE))
        BY <3>7 DEF ClaimTransition, AfterClaimFails
      <4> QED
        BY <4>1, <2>2
    <3>8. CASE Abort
      <4>1. CASE RecordFails
        BY <4>1 DEF RecordFails
      <4>2. CASE Write("handoff", [busy |-> FALSE, retry |-> TRUE])
        BY <4>2 DEF Write, RecordType
      <4> QED
        BY <3>8, <4>1, <4>2 DEF Abort, Persisting
    <3> QED
      BY <1>3, <3>1, <3>2, <3>3, <3>4, <3>5, <3>6, <3>7, <3>8 DEF SchedulerTask
  <2> QED
    BY <1>3, <2>2, <2>3, SchedulerClaims
<1>4. CASE ManualStart \/ ManualTask
  <2>1. UNCHANGED broken
    BY <1>4 DEF ManualStart, ManualTask, ManualStep, ManualFinalize
  <2> QED
    BY <1>4, <2>1, ManualLeaves, HandoffKept
<1>5. CASE OperatorRequest
  <2>1. nvs'.handoff = nvs.handoff
    BY <1>5, HandoffKept
  <2>2. transition.auto /\ transition.pc # "release" => transition'.auto /\ transition'.pc # "release"
    BY <1>5, OperatorLeaves DEF OperatorClaims, TransitionInv
  <2> QED
    BY <1>5, <2>1, <2>2, OperatorLeaves
<1>6. CASE Tick
  <2>1. nvs'.handoff.busy = nvs.handoff.busy
    BY <1>6 DEF Tick, RecordType, Handoffs
  <2> QED
    BY <1>6, <2>1 DEF Tick
<1>7. CASE PowerLoss
  BY <1>7 DEF PowerLoss, Booting
<1>8. CASE LoadFails \/ TimeLost \/ TimeFound \/ UNCHANGED vars
  BY <1>8 DEF LoadFails, RecordFails, TimeLost, TimeFound, vars, consoleVars, renewalVars
<1> QED
  BY <1>1, <1>2, <1>3, <1>4, <1>5, <1>6, <1>7, <1>8 DEF Next
-------------------------------------------------------------------------------
(* The theorems. *)

\* The invariant holds at the start.
LEMMA InitInv == Init => IInv
<1> SUFFICES ASSUME Init PROVE IInv
  OBVIOUS
<1>1. TypeInv
  BY InitTypes
<1>2. /\ server = Down /\ tls = EmbeddedTls /\ transition = NoTransition /\ boot = "serve"
      /\ sched.pc = "load" /\ orders = 0 /\ txt = {} /\ ~nvs.handoff.busy
  BY DEF Init, ConsoleInit, Asleep, NoHandoff
<1>3. PhaseInv /\ OrdersInv /\ TxtInv /\ BusyInv /\ KeptInv
  BY <1>2 DEF PhaseInv, OrdersInv, TxtInv, BusyInv, KeptInv, NoTransition
<1>4. ServerInv
  BY <1>2 DEF ServerInv, EmbeddedTls
<1>5. TransitionInv
  BY <1>2 DEF TransitionInv, NoTransition, LastKnownGood
<1> QED
  BY <1>1, <1>3, <1>4, <1>5 DEF IInv

\* Every step keeps the invariant.
LEMMA StepInv == IInv /\ [Next]_vars => IInv'
BY TypeStep, PhaseStep, OrdersStep, TxtStep, ServerStep, TransitionInvStep, BusyStep, KeptStep
   DEF IInv

\* The invariant holds throughout.
THEOREM Inductive == Spec => []IInv
BY InitInv, StepInv, PTL DEF Spec

\* The types and bounds of CertRenewal hold for all constants.
THEOREM Typed == Spec => []TypeOK
<1>1. IInv => TypeOK
  BY DEF IInv, TypeInv, TypeOK, RecordType, TlsType, SchedType, FlagType, Intents
<1> QED
  BY <1>1, Inductive, PTL

\* At most one automatic order is placed in six hours, across any number of
\* restarts and losses of power (renewal_scheduler_execute_if_ready).
THEOREM OneOrderPerCooldown == Spec => []OrdersSpaced
<1>1. IInv => OrdersSpaced
  BY DEF IInv, OrdersInv, OrdersSpaced
<1> QED
  BY <1>1, Inductive, PTL

\* No TXT record outlives its transaction unless a deletion failed, an answer or the
\* power was lost (renewal_dns01_prepare and the clean-up after it).
THEOREM NoTxtLeft == Spec => []TxtRemoved
<1>1. IInv => TxtRemoved
  BY DEF IInv, TxtInv, TxtRemoved
<1> QED
  BY <1>1, Inductive, PTL

\* A transition that fails leaves the server it stopped, the embedded credential, or
\* none (tls_transition_task), however many failures there are.
THEOREM FallsBackToLastKnownGood == Spec => []LastKnownGood
<1>1. IInv => LastKnownGood
  BY DEF IInv, TransitionInv
<1> QED
  BY <1>1, Inductive, PTL

\* A handoff on record as in progress has a task that will finish it, or a boot path
\* that will come to it, unless a record could not be read or written since the
\* restart or no server started (tls_handoff_begin, tls_handoff_finish,
\* tls_handoff_load_and_reconcile), however many failures and restarts there are.
THEOREM HandoffsFinish == Spec => []BusyHandoffHasTask
<1>1. IInv => BusyHandoffHasTask
  BY DEF IInv, BusyInv, BusyHandoffHasTask
<1> QED
  BY <1>1, Inductive, PTL

\* An automatic transition starts from production TLS, unless an operator's
\* transition has come since the preflight (tls_activation_schedule_pending_target).
THEOREM OperatorDecides == Spec => OperatorKept
<1>1. ASSUME IInv, [Next]_vars, ~transition.auto, transition'.auto
      PROVE  tls.source = "production" \/ overtaken
  <2>1. sched.pc = "claim"
    <3>1. CASE BootPath
      BY <1>1, <3>1, BootLeaves
    <3>2. CASE TransitionTask
      <4>1. transition'.auto = transition.auto \/ ~transition'.auto
        <5> USE DEF IInv, TypeInv, TransitionType
        <5>1. CASE TransitionBegin \/ TransitionStop \/ TransitionStart \/ TransitionIdentify
          BY <1>1, <5>1 DEF TransitionBegin, TransitionStop, TransitionStart, TransitionIdentify
        <5>2. CASE TransitionPrefer \/ TransitionSettle \/ TransitionFinish
          BY <1>1, <5>2 DEF TransitionPrefer, TransitionSettle, TransitionFinish
        <5>3. CASE TransitionRestore \/ TransitionEmergency
          BY <1>1, <5>3 DEF TransitionRestore, TransitionEmergency
        <5>4. CASE TransitionRelease
          BY <5>4 DEF TransitionRelease, NoTransition
        <5> QED
          BY <3>2, <5>1, <5>2, <5>3, <5>4 DEF TransitionTask
      <4> QED
        BY <1>1, <4>1
    <3>3. CASE SchedulerTask
      BY <1>1, <3>3, SchedulerClaims
    <3>4. CASE ManualStart \/ ManualTask
      BY <1>1, <3>4, ManualLeaves
    <3>5. CASE OperatorRequest
      BY <1>1, <3>5, OperatorLeaves DEF OperatorClaims, Claim, NoTransition
    <3>6. CASE Tick \/ LoadFails \/ TimeLost \/ TimeFound \/ UNCHANGED vars
      <4>1. UNCHANGED transition
        BY <3>6 DEF Tick, LoadFails, RecordFails, TimeLost, TimeFound, vars, consoleVars
      <4> QED
        BY <1>1, <4>1
    <3>7. CASE PowerLoss
      BY <1>1, <3>7 DEF PowerLoss, NoTransition
    <3> QED
      BY <1>1, <3>1, <3>2, <3>3, <3>4, <3>5, <3>6, <3>7 DEF Next
  <2> QED
    BY <1>1, <2>1 DEF IInv, KeptInv
<1>2. IInv /\ [Next]_vars
      => [~transition.auto /\ transition'.auto => tls.source = "production" \/ overtaken]_vars
  BY <1>1
<1> QED
  BY <1>2, Inductive, PTL DEF Spec, OperatorKept
================================================================================
