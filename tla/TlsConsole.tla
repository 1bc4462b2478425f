------------------------------ MODULE TlsConsole ------------------------------
(***************************************************************************)
(* The TLS side of the management console (src/main/web_console.c): which  *)
(* credential the HTTPS server runs with, the boot path that chooses it,   *)
(* the requests of the operator that change it, and tls_transition_task,   *)
(* which stops the server, starts it with another credential and goes back *)
(* to the last known good one when that fails.  CertRenewal adds the       *)
(* scheduler that renews the credential and starts transitions by itself.  *)
(*                                                                         *)
(* Storage is the one credential that CertSlots implements (Credential),   *)
(* next to the small records of the same NVS partition, each written in    *)
(* one step that power loss precedes or follows.  A production credential  *)
(* is known by its leaf certificate, a number; 0 is none.                  *)
(***************************************************************************)
EXTENDS Naturals

CONSTANTS
    MaxCerts,   \* bound of the model: leaves are 1 .. MaxCerts
    MaxFaults,  \* bound of the model: failures and power losses in a run
    MaxOps      \* bound of the model: requests of the operator in a run

ASSUME ConsoleAssumption ==
    /\ MaxCerts \in Nat \ {0}
    /\ {MaxFaults, MaxOps} \subseteq Nat

VARIABLES
    nvs,        \* what survives a restart
    server,     \* the HTTPS server that runs: its source and its leaf
    tls,        \* s_tls_source, s_active_server_leaf_sha256, s_active_stored_credentials
    transition, \* tls_transition_task; "none" is ~s_tls_transition_pending
    boot,       \* how far web_console_start is
    httpd,      \* the handler the web server's task is in
    time,       \* clock_discipline serves: get_current_unix_time succeeds
    faults,     \* failures so far
    ops,        \* requests so far
    broken,     \* history: access to a record has failed since the restart
    prior       \* history: the server that the transition stopped

consoleVars == <<nvs, server, tls, transition, boot, httpd, time, faults, ops, broken, prior>>

Leaves == 0 .. MaxCerts
Sources == {"embedded", "staging", "production"}

NoIntent == [pending |-> FALSE, previous |-> 0, target |-> 0]
NoHandoff == [busy |-> FALSE, retry |-> FALSE]

Down == [source |-> "down", leaf |-> 0]
EmbeddedTls == [source |-> "embedded", leaf |-> 0, stored |-> 0]
NoTransition == [pc |-> "none", target |-> "embedded", auto |-> FALSE,
                 source |-> "embedded", leaf |-> 0, stored |-> 0, failed |-> FALSE]

\* A new device, or one that has been used before.
ConsoleInit ==
    /\ \E selected \in BOOLEAN, used \in BOOLEAN :
         nvs = [cred |-> IF used THEN 1 ELSE 0, boot |-> used /\ selected, auto |-> used,
                intent |-> NoIntent, handoff |-> NoHandoff, attempt |-> FALSE]
    /\ server = Down /\ tls = EmbeddedTls /\ transition = NoTransition
    /\ boot = "serve" /\ httpd = "idle"
    /\ time = FALSE /\ faults = 0 /\ ops = 0 /\ broken = FALSE /\ prior = Down

-------------------------------------------------------------------------------
(* Storage and the server. *)

\* Something fails: the environment may do so MaxFaults times.
Fault == faults < MaxFaults /\ faults' = faults + 1

\* An NVS write of record field f.
Write(f, value) ==
    /\ nvs' = [nvs EXCEPT ![f] = value]
    /\ UNCHANGED <<faults, broken>>

\* The record cannot be read, or not be written: nothing is written.
RecordFails ==
    /\ Fault /\ broken' = TRUE
    /\ UNCHANGED nvs

\* start_https_server up to the running server, and the fields it sets first.
Started(source, leaf) ==
    /\ server' = [source |-> source, leaf |-> leaf]
    /\ tls' = [source |-> source, leaf |-> 0,
               stored |-> IF source = "staging" THEN 1 ELSE leaf]

\* The credential a source starts with; production needs one stored.
LeafOf(source) == IF source = "production" THEN nvs.cred ELSE 0

Available(source) == source = "production" => nvs.cred # 0

\* tls_handoff_finish; without the time the old deadline stays.
HandoffFinished(success) ==
    [busy |-> FALSE,
     retry |-> IF success THEN FALSE ELSE time \/ nvs.handoff.retry]

-------------------------------------------------------------------------------
(* web_console_start: serve, then reconcile the records, then schedule. *)

\* The store cannot be prepared, the selection not be read, or production TLS
\* not be started: the embedded credential is fallen back to.
BootServe ==
    /\ boot = "serve"
    /\ \/ /\ nvs.boot
          /\ Started("production", nvs.cred)
          /\ boot' = "identify"
          /\ UNCHANGED faults
       \/ /\ ~nvs.boot /\ boot' = "embedded"
          /\ UNCHANGED <<server, tls, faults>>
       \/ /\ Fault /\ boot' = "fallback"
          /\ UNCHANGED <<server, tls>>
    /\ UNCHANGED <<nvs, transition, httpd, time, ops, broken, prior>>

BootFallback ==
    /\ boot = "fallback" /\ boot' = "embedded"
    /\ Write("boot", FALSE) \/ RecordFails
    /\ UNCHANGED <<server, tls, transition, httpd, time, ops, prior>>

\* If the embedded credential does not start either, web_console_start gives up:
\* neither a console nor a scheduler until the next restart.
BootEmbedded ==
    /\ boot = "embedded"
    /\ \/ Started("embedded", 0) /\ boot' = "intent" /\ UNCHANGED faults
       \/ Fault /\ boot' = "down" /\ UNCHANGED <<server, tls>>
    /\ UNCHANGED <<nvs, transition, httpd, time, ops, broken, prior>>

\* The end of start_https_server reads the leaf of the stored credential, and
\* goes without one when it cannot be inspected.
Identify ==
    \/ tls' = [tls EXCEPT !.leaf = nvs.cred] /\ UNCHANGED faults
    \/ Fault /\ UNCHANGED tls

BootIdentify ==
    /\ boot = "identify" /\ boot' = "intent"
    /\ Identify
    /\ UNCHANGED <<nvs, server, transition, httpd, time, ops, broken, prior>>

\* What tls_activation_intent_load_and_reconcile finds settled.
IntentSettled ==
    /\ nvs.intent.pending
    /\ tls.source = "production" /\ tls.leaf # 0
    /\ nvs.intent.target \in {0, tls.leaf}

BootReconcileIntent ==
    /\ boot = "intent"
    /\ \/ /\ IF IntentSettled THEN Write("intent", NoIntent)
                              ELSE UNCHANGED <<nvs, faults, broken>>
          /\ boot' = "handoff"
       \/ RecordFails /\ boot' = "unscheduled"
    /\ UNCHANGED <<server, tls, transition, httpd, time, ops, prior>>

\* tls_activation_outcome_load, which must succeed, and
\* tls_handoff_load_and_reconcile
BootReconcileHandoff ==
    /\ boot = "handoff"
    /\ \/ /\ IF nvs.handoff.busy
             THEN Write("handoff", [busy |-> FALSE, retry |-> time \/ nvs.handoff.retry])
             ELSE UNCHANGED <<nvs, faults, broken>>
          /\ boot' = "up"
       \/ RecordFails /\ boot' = "unscheduled"
    /\ UNCHANGED <<server, tls, transition, httpd, time, ops, prior>>

-------------------------------------------------------------------------------
(* Requests of the operator.  Handlers run one at a time, on the server; the *)
(* TLS handshake before the first outlasts the inspection in the boot path.  *)

Request ==
    /\ server # Down /\ httpd = "idle" /\ boot # "identify"
    /\ ops < MaxOps /\ ops' = ops + 1

Claimable == transition.pc = "none"

Claim(source, auto) ==
    transition' = [NoTransition EXCEPT !.pc = "begin", !.target = source, !.auto = auto]

\* acme_production_certificate_activate_handler, acme_certificate_activate_test_handler,
\* acme_certificate_rollback_handler, by the source they ask for.
Select(source) ==
    /\ Request /\ Available(source)
    /\ IF tls.source = source
       THEN /\ IF source = "staging" THEN UNCHANGED nvs
               ELSE nvs' = [nvs EXCEPT !.boot = (source = "production")]
            /\ UNCHANGED transition
       ELSE /\ Claimable /\ Claim(source, FALSE)
            /\ UNCHANGED nvs
    /\ UNCHANGED <<server, tls, boot, httpd, time, faults, broken, prior>>

\* acme_production_renewal_scheduler_put_handler
SetAutomatic ==
    /\ Request
    /\ \E enabled \in BOOLEAN : nvs' = [nvs EXCEPT !.auto = enabled]
    /\ UNCHANGED <<server, tls, transition, boot, httpd, time, faults, broken, prior>>

-------------------------------------------------------------------------------
(* tls_transition_task *)

TransitionBegin ==
    /\ transition.pc = "begin"
    /\ transition' = [transition EXCEPT !.pc = "stop", !.source = tls.source,
                                        !.leaf = tls.leaf]
    /\ UNCHANGED <<nvs, server, tls, boot, httpd, time, faults, ops, broken, prior>>

\* After its delay; httpd_ssl_stop waits for the handler that runs.
TransitionStop ==
    /\ transition.pc = "stop" /\ httpd = "idle"
    /\ transition' = [transition EXCEPT !.pc = "start",
                          !.stored = IF transition.source = "embedded" THEN 0 ELSE tls.stored]
    /\ server' = Down
    /\ tls' = [tls EXCEPT !.leaf = 0, !.stored = IF transition.source = "embedded" THEN @ ELSE 0]
    /\ prior' = server
    /\ UNCHANGED <<nvs, boot, httpd, time, faults, ops, broken>>

\* Faulty variant: a server that does not start is left at that.
AfterStartFailsFinish == IF transition.auto THEN "finish" ELSE "release"

AfterStartFails == "restore"

TransitionStart ==
    /\ transition.pc = "start"
    /\ \/ /\ Available(transition.target)
          /\ Started(transition.target, LeafOf(transition.target))
          /\ transition' = [transition EXCEPT !.pc =
                              IF transition.target = "production" THEN "identify" ELSE "prefer"]
          /\ UNCHANGED faults
       \/ /\ Fault
          /\ transition' = [transition EXCEPT !.pc = AfterStartFails, !.failed = TRUE]
          /\ UNCHANGED <<server, tls>>
    /\ UNCHANGED <<nvs, boot, httpd, time, ops, broken, prior>>

\* start_https_server inspects the stored credential once more for its leaf.
TransitionIdentify ==
    /\ transition.pc = "identify"
    /\ Identify
    /\ transition' = [transition EXCEPT !.pc = "prefer"]
    /\ UNCHANGED <<nvs, server, boot, httpd, time, ops, broken, prior>>

\* acme_client_set_production_boot_selected; not for the staging credential.
TransitionPrefer ==
    /\ transition.pc = "prefer"
    /\ \/ /\ IF transition.target = "staging" THEN UNCHANGED <<nvs, faults, broken>>
             ELSE Write("boot", transition.target = "production")
          /\ transition' = [transition EXCEPT !.pc =
                              IF transition.target = "production" THEN "settle" ELSE "release"]
       \/ /\ transition.target # "staging" /\ RecordFails
          /\ transition' = [transition EXCEPT !.pc = "restore", !.failed = TRUE]
    /\ UNCHANGED <<server, tls, boot, httpd, time, ops, prior>>

\* The intent the server now meets is cleared.
TransitionSettle ==
    /\ transition.pc = "settle"
    /\ IF nvs.intent.pending /\ tls.leaf # 0 /\ nvs.intent.target = tls.leaf
       THEN Write("intent", NoIntent) \/ RecordFails
       ELSE UNCHANGED <<nvs, faults, broken>>
    /\ transition' = [transition EXCEPT !.pc = IF transition.auto THEN "finish" ELSE "release"]
    /\ UNCHANGED <<server, tls, boot, httpd, time, ops, prior>>

\* tls_handoff_finish of an automatic transition
TransitionFinish ==
    /\ transition.pc = "finish"
    /\ Write("handoff", HandoffFinished(~transition.failed)) \/ RecordFails
    /\ transition' = [transition EXCEPT !.pc = "release"]
    /\ UNCHANGED <<server, tls, boot, httpd, time, ops, prior>>

\* Faulty variant: the last known good credential is loaded from the storage.
RestoreFromStorage == LeafOf(transition.source)

\* The previous credential is still in memory, unless no server was running.
RestoredLeaf == IF transition.source = "production" THEN transition.stored ELSE 0

Restorable == transition.source = "embedded" \/ transition.stored # 0

Finishing == IF transition.auto THEN "finish" ELSE "release"

\* The credential in memory is freed; the embedded one is not in memory.
Freed == [tls EXCEPT !.leaf = 0, !.stored = IF tls.source = "embedded" THEN @ ELSE 0]

\* The failure path: back to the previous credential and boot selection.
TransitionRestore ==
    /\ transition.pc = "restore" /\ httpd = "idle"
    /\ \/ /\ Restorable
          /\ server' = [source |-> transition.source, leaf |-> RestoredLeaf]
          /\ tls' = [source |-> transition.source, leaf |-> transition.leaf,
                     stored |-> transition.stored]
          /\ \/ Write("boot", transition.source = "production")
             \/ RecordFails
          /\ transition' = [transition EXCEPT !.pc = Finishing]
       \/ /\ IF Restorable THEN Fault ELSE UNCHANGED faults
          /\ server' = Down /\ tls' = Freed
          /\ transition' = [transition EXCEPT !.pc = "emergency"]
          /\ UNCHANGED <<nvs, broken>>
    /\ UNCHANGED <<boot, httpd, time, ops, prior>>

\* The embedded credential or, for the reason the restore failed, no server.
TransitionEmergency ==
    /\ transition.pc = "emergency"
    /\ Write("boot", FALSE) \/ RecordFails
    /\ Started("embedded", 0) \/ UNCHANGED <<server, tls>>
    /\ transition' = [transition EXCEPT !.pc = Finishing]
    /\ UNCHANGED <<boot, httpd, time, ops, prior>>

TransitionRelease ==
    /\ transition.pc = "release"
    /\ transition' = NoTransition /\ prior' = Down
    /\ UNCHANGED <<nvs, server, tls, boot, httpd, time, faults, ops, broken>>

TransitionTask ==
    \/ TransitionBegin \/ TransitionStop \/ TransitionStart \/ TransitionIdentify
    \/ TransitionPrefer \/ TransitionSettle \/ TransitionFinish
    \/ TransitionRestore \/ TransitionEmergency \/ TransitionRelease

\* The boot path has not come to the hand-off record yet.
Booting == {"serve", "fallback", "embedded", "identify", "intent", "handoff"}

BootPath ==
    \/ BootServe \/ BootFallback \/ BootEmbedded \/ BootIdentify
    \/ BootReconcileIntent \/ BootReconcileHandoff

Operator == SetAutomatic \/ \E source \in Sources : Select(source)

===============================================================================
