----------------------------- MODULE CertRenewal ------------------------------
(***************************************************************************)
(* How the production credential is replaced (src/main/web_console.c,      *)
(* src/main/acme_client.c): the task renewal_scheduler_task, which renews  *)
(* a credential that is due and starts the transition of the HTTPS server  *)
(* to it, the renewal an operator asks for, and the TXT records both leave *)
(* at the DNS provider, next to the TLS side of the console (TlsConsole).  *)
(*                                                                         *)
(* Time.  Both cooldowns and the period of the scheduler are six hours, so *)
(* a deadline is armed or not, and the six hours pass in Tick, when the    *)
(* scheduler wakes; everything else takes minutes at most.                 *)
(***************************************************************************)
EXTENDS TlsConsole

VARIABLES
    sched,      \* renewal_scheduler_task
    cooldown,   \* retry_not_before_unix in RAM lies ahead
    due,        \* the stored credential expires within 30 days
    txt,        \* the TXT records at the DNS provider, by who created them
    orders,     \* history: automatic orders since the last Tick
    untargeted, \* history: who installed the credential recorded no target for it
    excused,    \* history: a deletion failed, an answer or the power was lost
    overtaken   \* history: an operator's transition since the preflight

renewalVars == <<sched, cooldown, due, txt, orders, untargeted, excused, overtaken>>
vars == <<consoleVars, renewalVars>>

Asleep == [pc |-> "sleep", leaf |-> 0, stored |-> FALSE, last |-> FALSE]

Init ==
    /\ ConsoleInit
    /\ sched = [Asleep EXCEPT !.pc = "load"]
    /\ cooldown = FALSE /\ due = FALSE /\ txt = {} /\ orders = 0
    /\ untargeted = FALSE /\ excused = FALSE /\ overtaken = FALSE

-------------------------------------------------------------------------------
(* renewal_scheduler_evaluate and renewal_scheduler_execute_if_ready *)

Sched(pc, next) ==
    /\ sched.pc = pc
    /\ sched' = [sched EXCEPT !.pc = next]

\* What a step that may fail, but writes nothing, leaves alone of the console.
RemoteVars == <<nvs, server, tls, transition, boot, httpd, time, ops, broken, prior>>

\* Faulty variant: the cooldown of the last attempt is not loaded.
LoadNothing == cooldown' = FALSE

\* renewal_scheduler_load_attempt_state
LoadCooldown == cooldown' = nvs.attempt

Load ==
    /\ boot = "up" /\ Sched("load", "evaluate")
    /\ LoadCooldown
    /\ UNCHANGED <<consoleVars, due, txt, orders, untargeted, excused, overtaken>>

\* The attempt record cannot be read, or the task not be created.
LoadFails ==
    /\ boot = "up" /\ sched.pc = "load"
    /\ RecordFails /\ boot' = "unscheduled"
    /\ UNCHANGED <<server, tls, transition, httpd, time, ops, prior, renewalVars>>

Eligible == nvs.auto /\ due /\ time /\ nvs.cred # 0

\* It is not eligible either when the credential or the switch cannot be read.
Evaluate ==
    /\ \/ /\ Sched("evaluate", IF Eligible /\ ~cooldown THEN "consume" ELSE "retry")
          /\ UNCHANGED faults
       \/ Sched("evaluate", "retry") /\ Fault
    /\ UNCHANGED <<RemoteVars, cooldown, due, txt, orders, untargeted, excused, overtaken>>

Consume ==
    /\ Sched("consume", IF time THEN "persist" ELSE "retry")
    /\ cooldown' = (cooldown \/ time)
    /\ UNCHANGED <<consoleVars, due, txt, orders, untargeted, excused, overtaken>>

\* Next step ok when the write of field f is done, and bad when it fails.
Persisting(pc, f, value, ok, bad) ==
    /\ \/ Sched(pc, ok) /\ Write(f, value)
       \/ Sched(pc, bad) /\ RecordFails
    /\ UNCHANGED <<server, tls, transition, boot, httpd, time, ops, prior>>
    /\ UNCHANGED <<cooldown, due, txt, orders, untargeted, excused, overtaken>>

\* The attempt is on record before it is made.
PersistAttempt == Persisting("persist", "attempt", cooldown, "inspect", "retry")

\* The credential and the configuration are those of a renewal.
InspectCredential ==
    /\ \/ /\ sched.pc = "inspect" /\ UNCHANGED faults
          /\ sched' = [sched EXCEPT !.pc = "intend", !.leaf = nvs.cred]
       \/ Sched("inspect", "complete") /\ Fault
    /\ UNCHANGED <<RemoteVars, cooldown, due, txt, orders, untargeted, excused, overtaken>>

\* tls_activation_intent_begin
Intend ==
    Persisting("intend", "intent",
               [pending |-> TRUE, previous |-> sched.leaf, target |-> 0],
               "order", "complete")

-------------------------------------------------------------------------------
(* acme_client_run_production_certificate_transaction *)

\* The account and the order.
Order ==
    /\ \/ Sched("order", "create") /\ UNCHANGED faults
       \/ Sched("order", "drop") /\ Fault
    /\ orders' = orders + 1
    /\ UNCHANGED <<RemoteVars, cooldown, due, txt, untargeted, excused, overtaken>>

\* renewal_dns01_prepare; a lost answer is a failure that leaves a record.
Create ==
    /\ \/ /\ Sched("create", "verify")
          /\ txt' = txt \cup {"auto"} /\ UNCHANGED <<faults, excused>>
       \/ /\ Sched("create", "drop") /\ Fault
          /\ UNCHANGED <<txt, excused>>
       \/ /\ Sched("create", "drop") /\ Fault
          /\ txt' = txt \cup {"auto"} /\ excused' = TRUE
    /\ UNCHANGED <<RemoteVars, cooldown, due, orders, untargeted, overtaken>>

\* Faulty variant: a record that cannot be verified is left alone.
AfterVerifyFailsDrop == "drop"

AfterVerifyFails == "undo"

Verify ==
    /\ \/ Sched("verify", "challenge") /\ UNCHANGED faults
       \/ Sched("verify", AfterVerifyFails) /\ Fault
    /\ UNCHANGED <<RemoteVars, cooldown, due, txt, orders, untargeted, excused, overtaken>>

\* cloudflare_client_delete_dns01_txt_content
Delete(who) ==
    \/ txt' = txt \ {who} /\ UNCHANGED <<faults, excused>>
    \/ Fault /\ excused' = TRUE /\ UNCHANGED txt

Undo ==
    /\ Sched("undo", "drop") /\ Delete("auto")
    /\ UNCHANGED <<RemoteVars, cooldown, due, orders, untargeted, overtaken>>

\* acme_client_validate_production_dns01
Challenge ==
    /\ \/ Sched("challenge", "finalize") /\ UNCHANGED faults
       \/ Sched("challenge", "cleanup") /\ Fault
    /\ UNCHANGED <<RemoteVars, cooldown, due, txt, orders, untargeted, excused, overtaken>>

\* The certificate authority answers, and the credential is replaced.
Install(by) ==
    /\ nvs.cred < MaxCerts
    /\ nvs' = [nvs EXCEPT !.cred = @ + 1]
    /\ due' = FALSE /\ untargeted' = (by = "manual")

\* acme_client_finalize_production_order
Finalize ==
    /\ sched.pc = "finalize"
    /\ \/ /\ Install("auto")
          /\ sched' = [sched EXCEPT !.pc = "cleanup", !.stored = TRUE]
          /\ UNCHANGED faults
       \/ /\ Fault \/ (nvs.cred = MaxCerts /\ UNCHANGED faults)
          /\ sched' = [sched EXCEPT !.pc = "cleanup"]
          /\ UNCHANGED <<nvs, due, untargeted>>
    /\ UNCHANGED <<server, tls, transition, boot, httpd, time, ops, broken, prior>>
    /\ UNCHANGED <<cooldown, txt, orders, excused, overtaken>>

Cleanup ==
    /\ Sched("cleanup", IF sched.stored THEN "replaced" ELSE "drop")
    /\ Delete("auto")
    /\ UNCHANGED <<RemoteVars, cooldown, due, orders, untargeted, overtaken>>

\* The replacement is inspected for the leaf to activate; without it the intent
\* stays as it is, with no target.
InspectReplacement ==
    /\ \/ /\ sched.pc = "replaced" /\ UNCHANGED <<faults, untargeted>>
          /\ sched' = [sched EXCEPT !.pc = "announce", !.leaf = nvs.cred]
       \/ Sched("replaced", "complete") /\ Fault /\ untargeted' = TRUE
    /\ UNCHANGED <<RemoteVars, cooldown, due, txt, orders, excused, overtaken>>

\* Faulty variant: the target is the credential that was replaced.
TargetPrevious == nvs.intent.previous

\* Faulty variant: the leaf is taken of another certificate of the chain.
TargetForeign == MaxCerts + 1

Target == sched.leaf

\* tls_activation_intent_set_target; nothing has cleared the intent.
Announce ==
    Persisting("announce", "intent", [nvs.intent EXCEPT !.target = Target],
               "check", "complete")

\* tls_activation_intent_clear
Drop == Persisting("drop", "intent", NoIntent, "complete", "complete")

-------------------------------------------------------------------------------
(* tls_activation_schedule_pending_target *)

\* It is called at the end of a renewal and once per round of the task.
Back == IF sched.last THEN "sleep" ELSE "complete"

\* Faulty variant: whatever the operator selected, the server is taken over.
PreflightAnySource ==
    /\ nvs.intent.pending /\ nvs.intent.target # 0
    /\ nvs.cred = nvs.intent.target /\ tls.leaf # nvs.cred
    /\ time /\ transition.pc = "none"

Preflight ==
    /\ nvs.intent.pending /\ nvs.intent.target # 0
    /\ tls.source = "production" /\ tls.leaf # 0
    /\ nvs.cred = nvs.intent.target /\ tls.leaf # nvs.cred
    /\ time /\ transition.pc = "none"

\* The intent and the stored credential are read; either may fail.
Check ==
    /\ \/ Sched("check", IF Preflight THEN "begin" ELSE Back) /\ UNCHANGED faults
       \/ Sched("check", Back) /\ Fault
    /\ overtaken' = FALSE
    /\ UNCHANGED <<RemoteVars, cooldown, due, txt, orders, untargeted, excused>>

\* tls_handoff_begin
Begin ==
    /\ ~nvs.handoff.busy /\ ~nvs.handoff.retry /\ time
    /\ Persisting("begin", "handoff", [busy |-> TRUE, retry |-> TRUE], "claim", Back)

BeginRefused ==
    /\ nvs.handoff.busy \/ nvs.handoff.retry \/ ~time
    /\ Sched("begin", Back)
    /\ UNCHANGED <<consoleVars, cooldown, due, txt, orders, untargeted, excused, overtaken>>

\* Faulty variant: a claim that fails leaves the record as it is.
AfterClaimFailsBack == Back

AfterClaimFails == "abort"

ClaimTransition ==
    /\ \/ /\ Claimable /\ Sched("claim", Back)
          /\ Claim("production", TRUE) /\ UNCHANGED faults
       \/ /\ Sched("claim", AfterClaimFails)
          /\ IF Claimable THEN Fault ELSE UNCHANGED faults
          /\ UNCHANGED transition
    /\ UNCHANGED <<nvs, server, tls, boot, httpd, time, ops, broken, prior>>
    /\ UNCHANGED <<cooldown, due, txt, orders, untargeted, excused, overtaken>>

Abort == Persisting("abort", "handoff", [busy |-> FALSE, retry |-> TRUE], Back, Back)

-------------------------------------------------------------------------------
(* The rest of the round. *)

CompleteAttempt == Persisting("complete", "attempt", cooldown, "retry", "retry")

RetryPending ==
    nvs.intent.pending /\ nvs.intent.target # 0 /\ transition.pc = "none"

Retry ==
    /\ sched.pc = "retry"
    /\ \/ /\ RetryPending /\ UNCHANGED faults
          /\ sched' = [Asleep EXCEPT !.pc = "check", !.last = TRUE]
       \/ /\ IF RetryPending THEN Fault ELSE UNCHANGED faults
          /\ sched' = Asleep
    /\ UNCHANGED <<RemoteVars, cooldown, due, txt, orders, untargeted, excused, overtaken>>

SchedulerTask ==
    \/ Load \/ Evaluate \/ Consume \/ PersistAttempt \/ InspectCredential \/ Intend
    \/ Order \/ Create \/ Verify \/ Undo \/ Challenge \/ Finalize \/ Cleanup
    \/ InspectReplacement \/ Announce \/ Drop \/ Check \/ Begin \/ BeginRefused
    \/ ClaimTransition \/ Abort \/ CompleteAttempt \/ Retry

-------------------------------------------------------------------------------
(* acme_production_certificate_issue_handler and ..._renew_handler: the same *)
(* transaction, with no intent, on the web server's task.                    *)

Handler(pc, next) == httpd = pc /\ httpd' = next

HandlerVars == <<server, tls, transition, boot, time, prior>>

ManualStart ==
    /\ Request /\ httpd' = "order"
    /\ nvs.cred = 0 \/ (time /\ due)
    /\ UNCHANGED <<HandlerVars, nvs, faults, broken, renewalVars>>

ManualStep ==
    /\ \/ /\ \/ Handler("order", "create") /\ UNCHANGED faults
             \/ (Handler("order", "idle") \/ Handler("create", "idle")) /\ Fault
          /\ UNCHANGED <<txt, excused>>
       \/ /\ Handler("create", "verify")
          /\ txt' = txt \cup {"manual"} /\ UNCHANGED <<faults, excused>>
       \/ /\ Handler("create", "idle") /\ Fault
          /\ txt' = txt \cup {"manual"} /\ excused' = TRUE
       \/ /\ \/ Handler("verify", "delete_valid") /\ UNCHANGED faults
             \/ Handler("verify", "delete_failed") /\ Fault
          /\ UNCHANGED <<txt, excused>>
       \/ /\ httpd \in {"delete_valid", "delete_failed"}
          /\ Delete("manual")
          /\ httpd' = IF httpd = "delete_valid" /\ "manual" \notin txt'
                      THEN "finalize" ELSE "idle"
    /\ UNCHANGED <<HandlerVars, nvs, ops, broken>>
    /\ UNCHANGED <<sched, cooldown, due, orders, untargeted, overtaken>>

ManualFinalize ==
    /\ Handler("finalize", "idle")
    /\ \/ Install("manual") /\ UNCHANGED faults
       \/ /\ Fault \/ (nvs.cred = MaxCerts /\ UNCHANGED faults)
          /\ UNCHANGED <<nvs, due, untargeted>>
    /\ UNCHANGED <<HandlerVars, ops, broken>>
    /\ UNCHANGED <<sched, cooldown, txt, orders, excused, overtaken>>

ManualTask == ManualStep \/ ManualFinalize

-------------------------------------------------------------------------------
(* The environment. *)

OperatorRequest ==
    /\ Operator
    /\ overtaken' = (overtaken \/ transition' # transition)
    /\ UNCHANGED <<sched, cooldown, due, txt, orders, untargeted, excused>>

\* The production server runs with a credential that has been replaced.
Outdated == server.source = "production" /\ server.leaf # nvs.cred

\* The leaf on record is read from the storage once more after the server has
\* started (start_https_server).  A credential stored in between is taken for the
\* one served, and its activation is refused as no change; a leaf that could not
\* be read refuses every activation.
Misread == tls.leaf # server.leaf

\* What keeps a replacement from being served until a restart or a request.
Stuck == broken \/ Misread \/ untargeted

\* A replacement is not due again for two months: by then the handoff to it is
\* over, or nothing will come of it.
Renewable ==
    /\ nvs.cred \in 1 .. (MaxCerts - 1)
    /\ transition.pc = "none" /\ (Outdated => Stuck)

\* Six hours: the scheduler wakes, the deadlines are over.
Tick ==
    /\ sched.pc = "sleep"
    /\ sched' = [Asleep EXCEPT !.pc = "evaluate"]
    /\ cooldown' = FALSE /\ orders' = 0
    /\ nvs' = [nvs EXCEPT !.attempt = FALSE, !.handoff.retry = FALSE]
    /\ due' \in IF Renewable THEN {due, TRUE} ELSE {due}
    /\ UNCHANGED <<server, tls, transition, boot, httpd, time, faults, ops, broken, prior>>
    /\ UNCHANGED <<txt, untargeted, excused, overtaken>>

TimeLost ==
    /\ time /\ Fault /\ time' = FALSE
    /\ UNCHANGED <<nvs, server, tls, transition, boot, httpd, ops, broken, prior, renewalVars>>

TimeFound ==
    /\ ~time /\ time' = TRUE
    /\ UNCHANGED <<nvs, server, tls, transition, boot, httpd, faults, ops, broken, prior,
                   renewalVars>>

\* The power fails, or the device restarts: system_reboot_handler.
PowerLoss ==
    /\ Fault
    /\ server' = Down /\ tls' = EmbeddedTls /\ transition' = NoTransition
    /\ boot' = "serve" /\ httpd' = "idle" /\ time' = FALSE /\ prior' = Down
    /\ broken' = FALSE
    /\ sched' = [Asleep EXCEPT !.pc = "load"] /\ cooldown' = FALSE
    /\ excused' = (excused \/ txt # {}) /\ overtaken' = FALSE
    /\ UNCHANGED <<nvs, ops, due, txt, orders, untargeted>>

Next ==
    \/ (BootPath \/ TransitionTask) /\ UNCHANGED renewalVars
    \/ SchedulerTask \/ LoadFails
    \/ ManualStart \/ ManualTask
    \/ OperatorRequest
    \/ Tick \/ TimeLost \/ TimeFound \/ PowerLoss

Fairness ==
    /\ WF_vars(BootPath /\ UNCHANGED renewalVars)
    /\ WF_vars(TransitionTask /\ UNCHANGED renewalVars)
    /\ WF_vars(SchedulerTask)
    /\ WF_vars(ManualTask)
    /\ WF_vars(Tick)
    /\ WF_vars(TimeFound)

Spec == Init /\ [][Next]_vars /\ Fairness

-------------------------------------------------------------------------------
(* Properties. *)

TypeOK ==
    /\ nvs.cred \in Leaves /\ {nvs.intent.previous, nvs.intent.target} \subseteq Leaves
    /\ {tls.leaf, tls.stored, sched.leaf} \subseteq Leaves
    /\ server.source \in Sources \cup {"down"}
    /\ faults \in 0 .. MaxFaults /\ ops \in 0 .. MaxOps
    /\ txt \subseteq {"auto", "manual"}

\* However often the device restarts, and wherever the power is lost, six hours
\* pass between two automatic orders (the cooldown that execute_if_ready arms,
\* persists before the order, and loads again).
OrdersSpaced == orders <= 1

\* No TXT record outlives its transaction, but for a deletion that failed, an
\* answer or the power that was lost (renewal_dns01_prepare, its cleanup, and
\* the manual path).
TxtRemoved ==
    /\ ~excused /\ sched.pc \in {"sleep", "drop", "complete"} => "auto" \notin txt
    /\ ~excused /\ httpd = "idle" => "manual" \notin txt

\* A transition that fails leaves the server it stopped, with the same
\* credential although another one may be stored by then, or else the embedded
\* credential or none (tls_transition_task).
LastKnownGood ==
    transition.failed /\ transition.pc \in {"finish", "release"}
    => server \in {prior, Down, [source |-> "embedded", leaf |-> 0]}

\* A handoff on record as in progress is in progress, or the boot path will come
\* to it, unless a record could not be read or written since the restart, or no
\* server started, in which cases the next boot does (tls_handoff_*).
BusyHandoffHasTask ==
    nvs.handoff.busy =>
        \/ transition.auto
        \/ sched.pc \in {"claim", "abort"}
        \/ boot \in Booting
        \/ broken \/ boot = "down"

\* Only production TLS is replaced automatically, unless a transition of the
\* operator came and went since the preflight (the comment at
\* tls_activation_schedule_pending_target).
OperatorKept ==
    [][~transition.auto /\ transition'.auto => tls.source = "production" \/ overtaken]_vars

\* The console comes back from every restart, but when the embedded credential
\* does not start, and from every transition, but when two server starts fail and
\* the embedded one after them (web_console_start_https, tls_transition_task).
Lost ==
    \/ boot = "down"
    \/ /\ server = Down /\ transition.pc = "none" /\ boot \in {"up", "unscheduled"}
       /\ faults >= 2

ConsoleReturns == (server = Down) ~> (server # Down \/ Lost)

\* A replacement the scheduler obtained is served in the end: a production
\* server does not run with an older credential for ever, unless a record could
\* not be read or written, the leaf of the server was misread, the replacement
\* could not be inspected, or an operator replaced it (the retry of a pending
\* target in renewal_scheduler_task).
ReplacementServed == Outdated ~> (~Outdated \/ Stuck)

===============================================================================
