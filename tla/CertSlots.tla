------------------------------- MODULE CertSlots -------------------------------
(***************************************************************************)
(* The storage of the production credential (src/main/acme_client.c): two  *)
(* slots of encrypted NVS, a selector between them, and the single         *)
(* credential of older firmware, which is migrated into slot A.  A slot    *)
(* has three entries - key, chain, hostname - and every NVS write is       *)
(* durable by itself, so power may be lost, or a write fail, between any   *)
(* two.  There is no lock: the web server's task and the renewal scheduler *)
(* each run whole certificate transactions, and the tasks that serve TLS   *)
(* load the credential at any time.                                        *)
(*                                                                         *)
(* Abstractions.  A credential is a number; its key and its chain carry    *)
(* it.  Renewals keep the hostname, so a hostname is there or not.  The    *)
(* three reads of one validation are one step.  The entries are those of   *)
(* production only: the staging credential is rewritten in place.          *)
(*                                                                         *)
(* Assumption.  A transaction takes minutes (ten seconds for DNS alone), a *)
(* storage operation milliseconds: an operation in progress when a         *)
(* transaction starts is over when that transaction stores.                *)
(***************************************************************************)
EXTENDS Naturals

CONSTANT MaxCerts       \* bound of the model: credentials are 1 .. MaxCerts

ASSUME SlotsAssumption == MaxCerts \in Nat \ {0}

VARIABLES
    slot,       \* s_prod_slots: A is 0, B is 1
    legacy,     \* the entries of older firmware
    selector,   \* ACME_PROD_ACTIVE_SLOT_NVS_KEY
    task,       \* the operation each task is in
    issued,     \* the newest credential any transaction obtained
    loaded      \* what the last load returned to its caller

vars == <<slot, legacy, selector, task, issued, loaded>>

Slots == {0, 1}
NoSelector == 2

\* The boot path, the two tasks that run transactions, and one that loads.
Writers == {"httpd", "scheduler"}
Tasks == Writers \cup {"main", "loader"}

None == 0
Foreign == MaxCerts + 1     \* a chain that matches no key

Material == [key : None .. MaxCerts, pem : None .. Foreign, host : BOOLEAN]

Empty == [key |-> None, pem |-> None, host |-> FALSE]
Complete(c) == [key |-> c, pem |-> c, host |-> TRUE]
Broken == [key |-> 1, pem |-> Foreign, host |-> TRUE]

\* Faulty variant: the key is not compared with the chain.
WholeAnyKey(m) == m.key # None /\ m.host /\ m.pem # None

\* validate_certificate_material, on entries load_material_by_names finds.
Whole(m) == m.key # None /\ m.host /\ m.key = m.pem

\* load_material_by_names: ESP_ERR_NOT_FOUND
Missing(m) == m.key = None \/ m.pem = None \/ ~m.host

Other(s) == 1 - s

\* Faulty variant: a selected slot that is not whole has no fallback.
CandidatesSelected ==
    IF selector = NoSelector THEN {}
    ELSE {s \in {selector} : Whole(slot[s])}

\* resolve_production_slot, once the selector is there.
Candidates ==
    IF selector = NoSelector THEN {}
    ELSE IF Whole(slot[selector]) THEN {selector}
    ELSE {s \in {Other(selector)} : Whole(slot[s])}

\* Faulty variant: the slots are counted through.
StoreTargetNext(s) == s + 1

\* Faulty variant: the slot in use is the one rewritten.
StoreTargetInPlace(s) == s

\* store_certificate_material
StoreTarget(s) == Other(s)

\* The credential the storage answers with; what is left to migrate counts.
Effective ==
    IF selector = NoSelector
    THEN IF Whole(legacy) THEN legacy.key ELSE None
    ELSE IF Candidates = {} THEN None
    ELSE slot[CHOOSE s \in Candidates : TRUE].key

-------------------------------------------------------------------------------
(* Operations. *)

Idle == [op |-> "none", pc |-> "idle", target |-> 0, cert |-> None,
         slow |-> {}, met |-> 0]

Booting == [t \in Tasks |->
              IF t = "main" THEN [Idle EXCEPT !.op = "prepare", !.pc = "resolve"]
              ELSE Idle]

Init ==
    /\ slot = [s \in Slots |-> Empty]
    /\ legacy \in {Empty, Complete(1), Broken}
    /\ selector = NoSelector
    /\ task = Booting
    /\ issued = 1
    /\ loaded = [key |-> None, pem |-> None, met |-> 0]

Up == task["main"].pc = "idle"

\* A transaction that waits for the certificate authority is not in the storage.
InStorage(t) == task[t].pc \notin {"idle", "issuing"}

Storing(t) == task[t].op = "store"

\* A store in progress has met another.
Contended == \E t \in Writers : Storing(t) /\ task[t].met = 2

\* How many stores an operation that starts now meets, two standing for more.
StoresMet == IF Contended THEN 2
             ELSE IF \E t \in Writers : Storing(t) THEN 1 ELSE 0

Seen(n) == IF n >= 2 THEN 2 ELSE n + 1

\* The operation of t ends, whatever its result: no transaction waits for it.
Ended(t) ==
    [u \in Tasks |-> IF u = t THEN Idle
                     ELSE [task[u] EXCEPT !.slow = @ \ {t}]]

At(t, pc) == [task EXCEPT ![t].pc = pc]

\* inspect_stored_production_certificate at the start of a transaction
Inspect(t) ==
    /\ Up /\ task[t].pc = "idle"
    /\ task' = [task EXCEPT ![t] = [Idle EXCEPT !.op = "inspect", !.pc = "resolve",
                                               !.met = StoresMet]]
    /\ UNCHANGED <<slot, legacy, selector, issued, loaded>>

\* load_tls_credentials
Load ==
    /\ Up /\ task["loader"].pc = "idle"
    /\ task' = [task EXCEPT !["loader"] = [Idle EXCEPT !.op = "load", !.pc = "resolve",
                                                      !.met = StoresMet]]
    /\ UNCHANGED <<slot, legacy, selector, issued, loaded>>

\* store_certificate_material: the transaction obtained a certificate.
Store(t) ==
    /\ task[t].pc = "issuing"
    /\ task[t].slow = {}
    /\ issued < MaxCerts
    /\ issued' = issued + 1
    /\ task' = [u \in Tasks |->
                  IF u = t THEN [Idle EXCEPT !.op = "store", !.pc = "resolve",
                                            !.cert = issued + 1, !.met = Seen(StoresMet)]
                  ELSE IF InStorage(u) THEN [task[u] EXCEPT !.met = Seen(@)]
                  ELSE task[u]]
    /\ UNCHANGED <<slot, legacy, selector, loaded>>

\* The order fails, or the inspection was all the task wanted.
AbandonTransaction(t) ==
    /\ task[t].pc = "issuing"
    /\ task' = Ended(t)
    /\ UNCHANGED <<slot, legacy, selector, issued, loaded>>

\* What follows a resolution that found slot s, per operation.
Resolved(t, s) ==
    CASE task[t].op = "inspect" ->
           [task EXCEPT ![t] = [Idle EXCEPT !.op = "transaction", !.pc = "issuing",
                                            !.slow = {u \in Tasks \ {t} : InStorage(u)}]]
      [] task[t].op = "store" ->
           [task EXCEPT ![t].pc = "write_key", ![t].target = StoreTarget(s)]
      [] task[t].op = "load" -> [task EXCEPT ![t].pc = "reopen"]
      [] task[t].op = "prepare" -> At(t, "retire")

\* Nothing stored: the first issuance starts, and its store goes to slot A.
Unresolved(t) ==
    CASE task[t].op = "inspect" /\ t = "httpd" -> Resolved(t, 0)
      [] task[t].op = "store" ->
           [task EXCEPT ![t].pc = "write_key", ![t].target = 0]
      [] OTHER -> Ended(t)

\* resolve_production_slot, and the reads of migrate_legacy_production_material
Resolve(t) ==
    /\ task[t].pc = "resolve"
    /\ task' =
         IF selector # NoSelector
         THEN IF Candidates = {} THEN Ended(t)
              ELSE Resolved(t, CHOOSE s \in Candidates : TRUE)
         ELSE IF Missing(legacy) THEN Unresolved(t)
         ELSE IF Whole(legacy) THEN At(t, "migrate_key")
         ELSE Ended(t)
    /\ UNCHANGED <<slot, legacy, selector, issued, loaded>>

-------------------------------------------------------------------------------
(* Writes: each is durable by itself. *)

WriteKey(s, c) == slot' = [slot EXCEPT ![s].key = c]
WritePem(s, c) == slot' = [slot EXCEPT ![s].pem = c]
WriteHost(s) == slot' = [slot EXCEPT ![s].host = TRUE]

\* migrate_legacy_production_material: the material, read before, to slot A
Migrate(t) ==
    /\ \/ /\ task[t].pc = "migrate_key" /\ WriteKey(0, legacy.key)
          /\ task' = At(t, "migrate_pem") /\ UNCHANGED selector
       \/ /\ task[t].pc = "migrate_pem" /\ WritePem(0, legacy.pem)
          /\ task' = At(t, "migrate_host") /\ UNCHANGED selector
       \/ /\ task[t].pc = "migrate_host" /\ WriteHost(0)
          /\ task' = At(t, "migrate_validate") /\ UNCHANGED selector
       \/ /\ task[t].pc = "migrate_validate"
          /\ task' = IF Whole(slot[0]) THEN At(t, "migrate_commit") ELSE Ended(t)
          /\ UNCHANGED <<slot, selector>>
       \/ /\ task[t].pc = "migrate_commit" /\ selector' = 0
          /\ task' = At(t, "resolve") /\ UNCHANGED slot
    /\ UNCHANGED <<legacy, issued, loaded>>

\* store_certificate_material
WriteStore(t) ==
    LET s == task[t].target
        c == task[t].cert
    IN  /\ \/ /\ task[t].pc = "write_key" /\ WriteKey(s, c)
              /\ task' = At(t, "write_pem") /\ UNCHANGED selector
           \/ /\ task[t].pc = "write_pem" /\ WritePem(s, c)
              /\ task' = At(t, "write_host") /\ UNCHANGED selector
           \/ /\ task[t].pc = "write_host" /\ WriteHost(s)
              /\ task' = At(t, "validate") /\ UNCHANGED selector
           \/ /\ task[t].pc = "validate"
              /\ task' = IF Whole(slot[s]) THEN At(t, "commit") ELSE Ended(t)
              /\ UNCHANGED <<slot, selector>>
           \/ /\ task[t].pc = "commit" /\ selector' = s
              /\ task' = Ended(t) /\ UNCHANGED slot
        /\ UNCHANGED <<legacy, issued, loaded>>

\* load_tls_credentials resolves again, then reads entry by entry.
ReadCredential(t) ==
    LET s == task[t].target
    IN  /\ \/ /\ task[t].pc = "reopen" /\ Candidates # {}
              /\ task' = [task EXCEPT ![t].pc = "read_key",
                                      ![t].target = CHOOSE c \in Candidates : TRUE]
              /\ UNCHANGED loaded
           \/ /\ task[t].pc = "reopen" /\ Candidates = {}
              /\ task' = Ended(t) /\ UNCHANGED loaded
           \/ /\ task[t].pc = "read_key"
              /\ task' = [task EXCEPT ![t].pc = "read_pem", ![t].cert = slot[s].key]
              /\ UNCHANGED loaded
           \/ /\ task[t].pc = "read_pem"
              /\ loaded' = [key |-> task[t].cert, pem |-> slot[s].pem, met |-> task[t].met]
              /\ task' = Ended(t)
        /\ UNCHANGED <<slot, legacy, selector, issued>>

\* retire_legacy_production_material_if_safe, in the boot path only
Retire(t) ==
    /\ \/ /\ task[t].pc = "retire"
          /\ task' = IF /\ \A s \in Slots : Whole(slot[s])
                        /\ legacy = Complete(Effective)
                     THEN At(t, "erase_key") ELSE Ended(t)
          /\ UNCHANGED legacy
       \/ /\ task[t].pc = "erase_key" /\ legacy' = [legacy EXCEPT !.key = None]
          /\ task' = At(t, "erase_pem")
       \/ /\ task[t].pc = "erase_pem" /\ legacy' = [legacy EXCEPT !.pem = None]
          /\ task' = At(t, "erase_host")
       \/ /\ task[t].pc = "erase_host" /\ legacy' = [legacy EXCEPT !.host = FALSE]
          /\ task' = Ended(t)
    /\ UNCHANGED <<slot, selector, issued, loaded>>

\* A write, an erasure or a read of NVS fails: the operation returns the error.
Fail(t) ==
    /\ InStorage(t)
    /\ task' = Ended(t)
    /\ UNCHANGED <<slot, legacy, selector, issued, loaded>>

PowerLoss ==
    /\ task' = Booting
    /\ UNCHANGED <<slot, legacy, selector, issued, loaded>>

Step(t) == Resolve(t) \/ Migrate(t) \/ WriteStore(t) \/ ReadCredential(t) \/ Retire(t)

Next ==
    \/ \E t \in Writers : Inspect(t) \/ Store(t) \/ AbandonTransaction(t)
    \/ Load
    \/ \E t \in Tasks : Step(t) \/ Fail(t)
    \/ PowerLoss

Spec == Init /\ [][Next]_vars

-------------------------------------------------------------------------------
(* Properties. *)

TypeOK ==
    /\ slot \in [Slots -> Material]
    /\ legacy \in Material
    /\ selector \in Slots \cup {NoSelector}
    /\ issued \in 1 .. MaxCerts
    /\ \A t \in Tasks :
         /\ task[t].target \in Slots
         /\ task[t].cert \in None .. MaxCerts
         /\ task[t].met \in 0 .. 2

Phase == IF Contended THEN "contended"
         ELSE IF \E t \in Writers : Storing(t) THEN "replacing" ELSE "quiet"

Abstract == INSTANCE Credential WITH current <- Effective, phase <- Phase

\* Whatever fails and whenever the power goes, the slots behave as the one
\* credential of the abstract specification: replaced in a single step, never
\* lost, and taken back only by stores that met each other (store_certificate_material,
\* migrate_legacy_production_material, resolve_production_slot).
ImplementsCredential == Abstract!Spec

\* The slot a store writes is never the last whole one: as long as there is a
\* credential, the other slot holds one, until the key and the chain are written
\* and the written slot is whole itself (the choice of the target in
\* store_certificate_material).
TargetIsSpare ==
    \A t \in Writers :
        /\ task[t].pc \in {"write_key", "write_pem", "write_host", "validate", "commit"}
        /\ selector # NoSelector
        => \/ Whole(slot[Other(task[t].target)])
           \/ Whole(slot[task[t].target]) /\ task[t].pc \notin {"write_key", "write_pem"}

\* A credential handed to a TLS server has the key of its chain, unless the
\* load, which reads the entries one by one after it resolved the slot, met
\* two stores (load_tls_credentials).
LoadedWhole == loaded.met < 2 => loaded.key = loaded.pem

===============================================================================
