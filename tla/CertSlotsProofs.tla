---------------------------- MODULE CertSlotsProofs ----------------------------
(***************************************************************************)
(* Proofs about the certificate slots: the invariants of CertSlots, and    *)
(* that the slots implement the one credential of Credential, for any      *)
(* number of certificates.                                                 *)
(*                                                                         *)
(* The argument.  A resolution never hands out a slot another store has    *)
(* begun to rewrite, so a store's target is the spare slot (TargetIsSpare, *)
(* with PairInv for two stores at once), and what a store does to the slot *)
(* in use, or to the one being read, it does only after it met another     *)
(* store (MetInv, WriteInv, LoadInv).  The steps fall into four classes:   *)
(* those that leave the slots alone and start no store (Calm), the start   *)
(* of a store, the steps of a store, and the migration, during which there *)
(* is no store.                                                            *)
(***************************************************************************)
EXTENDS CertSlots, TLAPS

-------------------------------------------------------------------------------
(* The inductive invariant. *)

Ops == {"none", "prepare", "inspect", "transaction", "store", "load"}
MigratePcs == {"migrate_key", "migrate_pem", "migrate_host", "migrate_validate", "migrate_commit"}
EarlyPcs == {"write_key", "write_pem"}
LatePcs == {"write_host", "validate", "commit"}
ReadPcs == {"read_key", "read_pem"}
RetirePcs == {"retire", "erase_key", "erase_pem", "erase_host"}
Pcs == {"idle", "issuing", "resolve", "reopen"} \cup MigratePcs \cup EarlyPcs \cup LatePcs
       \cup ReadPcs \cup RetirePcs

Early(t) == task[t].pc \in EarlyPcs
Late(t) == task[t].pc \in LatePcs
Writing(t) == Early(t) \/ Late(t)
Migrating(t) == task[t].pc \in MigratePcs
Issuing(t) == task[t].pc = "issuing"
Waiting(t) == Storing(t) /\ task[t].pc = "resolve"
Reading == task["loader"].pc \in ReadPcs

Record == [op : Ops, pc : Pcs, target : Slots, cert : None .. MaxCerts,
           slow : SUBSET Tasks, met : 0 .. 2]

TypeInv ==
    /\ slot \in [Slots -> Material]
    /\ legacy \in Material
    /\ selector \in Slots \cup {NoSelector}
    /\ issued \in 1 .. MaxCerts
    /\ task \in [Tasks -> Record]

\* Which operation may be where: its task, and its steps.
Placed(t, op, pc) ==
    \/ op = "none" /\ pc = "idle"
    \/ op = "prepare" /\ t = "main" /\ pc \in {"resolve"} \cup MigratePcs \cup RetirePcs
    \/ op = "inspect" /\ t \in Writers /\ pc \in {"resolve"} \cup MigratePcs
    \/ op = "transaction" /\ t \in Writers /\ pc = "issuing"
    \/ op = "store" /\ t \in Writers /\ pc \in {"resolve"} \cup EarlyPcs \cup LatePcs
    \/ op = "load" /\ t = "loader" /\ pc \in {"resolve", "reopen"} \cup MigratePcs \cup ReadPcs

PlaceInv ==
    /\ \A t \in Tasks : Placed(t, task[t].op, task[t].pc)
    /\ task["main"].pc # "idle" => \A t \in Tasks \ {"main"} : task[t].pc = "idle"
    /\ task["main"].pc \in RetirePcs => selector # NoSelector

\* Only the device's first credential is ever in the legacy entries, and until
\* it is migrated the slots hold nothing else.
LegacyInv ==
    /\ Whole(legacy) => legacy = Complete(1)
    /\ selector = NoSelector /\ Whole(legacy)
       => /\ slot[1] = Empty
          /\ slot[0].key \in {None, 1} /\ slot[0].pem \in {None, 1}

\* Without a selector only a first issuance, which the web server's task runs
\* when nothing is stored, leads to a store.
StoreInv ==
    \A t \in Writers :
        Storing(t) \/ Issuing(t)
        => selector # NoSelector \/ (t = "httpd" /\ Missing(legacy))

\* A migration has no store beside it, nor a transaction that would not wait for
\* it, and once the selector is there it rewrites what is there already.
MigrateInv ==
    \A m \in Tasks : Migrating(m) =>
        /\ Whole(legacy)
        /\ selector # NoSelector => selector = 0 /\ slot = [s \in Slots |-> IF s = 0 THEN Complete(1) ELSE Empty]
        /\ task[m].pc = "migrate_commit" => Whole(slot[0])
        /\ \A u \in Writers : ~Storing(u) /\ (Issuing(u) => m \in task[u].slow)

\* Once there is a selector there is a whole slot.
SelectorInv ==
    selector # NoSelector => slot[selector].host /\ \E s \in Slots : Whole(slot[s])

\* What a store writes is new: only its target holds any of it, in this order.
CertInv ==
    /\ \A s \in Slots : slot[s].key <= issued /\ slot[s].pem <= issued
    /\ \A t \in Writers : Storing(t) =>
        /\ task[t].cert \in 2 .. issued
        /\ \A u \in Writers \ {t} : Storing(u) => task[u].cert # task[t].cert
        /\ \A s \in Slots :
            /\ slot[s].key = task[t].cert
               => Writing(t) /\ s = task[t].target /\ task[t].pc # "write_key"
            /\ slot[s].pem = task[t].cert => Late(t) /\ s = task[t].target

\* Two stores have met each other, and whoever is in the storage has met the store
\* there; one that met no other stores the newest certificate.
MetInv ==
    \A t \in Writers : Storing(t) =>
        /\ task[t].met \in {1, 2}
        /\ task[t].met = 1 => task[t].cert = issued
        /\ \A u \in Writers \ {t} : Storing(u) => task[t].met = 2
        /\ InStorage("loader") => task["loader"].met \in {task[t].met, 2}

\* How far a store is, and that it rewrites the slot in use after it met another only.
WriteInv ==
    \A t \in Writers : Writing(t) =>
        /\ selector = NoSelector => task[t].target = 0
        /\ task[t].pc \in {"validate", "commit"} => slot[task[t].target].host
        /\ selector = NoSelector /\ task[t].pc = "commit" => Whole(slot[task[t].target])
        /\ task[t].met = 1 /\ task[t].pc # "write_key" => slot[task[t].target].key = task[t].cert
        /\ Early(t) /\ selector = task[t].target /\ Whole(slot[selector]) => task[t].met = 2

\* Two stores into different slots: one of them has made its slot whole.  And a
\* store that is about to resolve does not find a slot that is being rewritten.
PairInv ==
    \A t, u \in Writers : t # u /\ Writing(t) /\ selector # NoSelector =>
        /\ Writing(u) /\ task[u].target # task[t].target
           => (Late(t) /\ Whole(slot[task[t].target])) \/ (Late(u) /\ Whole(slot[task[u].target]))
        /\ Early(t) /\ (Waiting(u) \/ (Issuing(u) /\ t \notin task[u].slow))
           => ~(selector = task[t].target /\ Whole(slot[selector]))

\* A load that met at most one store reads a whole slot, which nobody rewrites, and
\* no later store can choose.
LoadInv ==
    LET x == task["loader"].target IN
    Reading =>
        /\ selector # NoSelector
        /\ task["loader"].met < 2 =>
            /\ Whole(slot[x])
            /\ task["loader"].pc = "read_pem" => task["loader"].cert = slot[x].key
            /\ \A t \in Writers : Early(t) => task[t].target # x
            /\ task["loader"].met = 0 \/ (\E t \in Writers : Waiting(t))
               => ~(selector = Other(x) /\ Whole(slot[Other(x)]))

IInv == /\ TypeInv /\ PlaceInv /\ LegacyInv /\ StoreInv /\ MigrateInv /\ SelectorInv
        /\ CertInv /\ MetInv /\ WriteInv /\ PairInv /\ LoadInv /\ TargetIsSpare /\ LoadedWhole

-------------------------------------------------------------------------------
(* How the tasks move. *)

\* A step of task t: the other tasks stay where they are, and wait for t no
\* more if it has ended.
Moves(t) ==
    /\ task' \in [Tasks -> Record]
    /\ \A u \in Tasks \ {t} :
        /\ task'[u].op = task[u].op /\ task'[u].pc = task[u].pc
        /\ task'[u].target = task[u].target /\ task'[u].cert = task[u].cert
        /\ task'[u].met = task[u].met
        /\ \/ task'[u].slow = task[u].slow
           \/ task'[u].slow = task[u].slow \ {t} /\ task'[t].pc = "idle"

\* The finite sets, element by element.
LEMMA Sets ==
    /\ Writers = {"httpd", "scheduler"} /\ Tasks = {"httpd", "scheduler", "main", "loader"}
    /\ Slots = {0, 1} /\ Other(0) = 1 /\ Other(1) = 0
    /\ \A s \in Slots : Other(s) \in Slots /\ Other(Other(s)) = s /\ Other(s) # s
    /\ \A s, r \in Slots : r = s \/ r = Other(s)
BY DEF Writers, Tasks, Slots, Other

LEMMA AtMoves ==
    ASSUME TypeInv, NEW t \in Tasks, NEW pc \in Pcs, task' = At(t, pc)
    PROVE  /\ Moves(t)
           /\ task'[t].op = task[t].op /\ task'[t].pc = pc /\ task'[t].target = task[t].target
           /\ task'[t].cert = task[t].cert /\ task'[t].met = task[t].met
<1>1. [task[t] EXCEPT !.pc = pc] \in Record
  BY DEF TypeInv, Record
<1>2. task'[t] = [task[t] EXCEPT !.pc = pc]
  BY DEF At, TypeInv
<1>3. \A u \in Tasks \ {t} : task'[u] = task[u]
  BY DEF At, TypeInv
<1>4. task' \in [Tasks -> Record]
  BY <1>1 DEF At, TypeInv
<1> QED
  BY <1>2, <1>3, <1>4 DEF Moves, TypeInv, Record

LEMMA IdleRecord ==
    /\ Idle \in Record /\ Idle.op = "none" /\ Idle.pc = "idle" /\ Idle.slow = {}
<1>1. 0 \in Slots /\ 0 \in None .. MaxCerts /\ 0 \in 0 .. 2
  BY SlotsAssumption DEF Slots, None
<1> QED
  BY <1>1 DEF Idle, Record, Ops, Pcs, None

LEMMA EndMoves ==
    ASSUME TypeInv, NEW t \in Tasks, task' = Ended(t)
    PROVE  Moves(t) /\ task'[t].op = "none" /\ task'[t].pc = "idle"
<1>1. \A u \in Tasks : [task[u] EXCEPT !.slow = @ \ {t}] \in Record
  BY DEF TypeInv, Record
<1>2. task'[t] = Idle
  BY DEF Ended
<1>3. \A u \in Tasks \ {t} : task'[u] = [task[u] EXCEPT !.slow = @ \ {t}]
  BY DEF Ended
<1>4. task' \in [Tasks -> Record]
  BY <1>1, IdleRecord DEF Ended
<1>5. ASSUME NEW u \in Tasks \ {t}
      PROVE  /\ task'[u].op = task[u].op /\ task'[u].pc = task[u].pc
             /\ task'[u].target = task[u].target /\ task'[u].cert = task[u].cert
             /\ task'[u].met = task[u].met /\ task'[u].slow = task[u].slow \ {t}
  <2>1. task[u] \in Record /\ task'[u] = [task[u] EXCEPT !.slow = task[u].slow \ {t}]
    BY <1>3 DEF TypeInv
  <2> QED
    BY <2>1 DEF Record
<1> QED
  BY <1>2, <1>4, <1>5, IdleRecord DEF Moves

LEMMA StoresMetType == TypeInv => StoresMet \in 0 .. 2
BY DEF StoresMet

LEMMA SeenType == \A n \in 0 .. 2 : Seen(n) \in 1 .. 2 /\ (n >= 1 => Seen(n) = 2) /\ (n = 0 => Seen(n) = 1)
BY DEF Seen

LEMMA InspectMoves ==
    ASSUME TypeInv, NEW t \in Writers, Inspect(t)
    PROVE  Moves(t) /\ task'[t].op = "inspect" /\ task'[t].pc = "resolve"
<1>1. [op |-> "inspect", pc |-> "resolve", target |-> 0, cert |-> None,
       slow |-> {}, met |-> StoresMet] \in Record
  BY StoresMetType, SlotsAssumption DEF Record, Ops, Pcs, Slots, None
<1>2. PICK r : r = [Idle EXCEPT !.op = "inspect", !.pc = "resolve", !.met = StoresMet]
  OBVIOUS
<1>3. r = [op |-> "inspect", pc |-> "resolve", target |-> 0, cert |-> None,
           slow |-> {}, met |-> StoresMet]
  BY <1>2 DEF Idle
<1>4. task' = [task EXCEPT ![t] = r]
  BY <1>2 DEF Inspect
<1> QED
  BY <1>1, <1>3, <1>4, Sets DEF TypeInv, Moves

LEMMA LoadMoves ==
    ASSUME TypeInv, Load
    PROVE  /\ Moves("loader") /\ task'["loader"].op = "load"
           /\ task'["loader"].pc = "resolve" /\ task'["loader"].met = StoresMet
<1>1. [op |-> "load", pc |-> "resolve", target |-> 0, cert |-> None,
       slow |-> {}, met |-> StoresMet] \in Record
  BY StoresMetType, SlotsAssumption DEF Record, Ops, Pcs, Slots, None
<1>2. PICK r : r = [Idle EXCEPT !.op = "load", !.pc = "resolve", !.met = StoresMet]
  OBVIOUS
<1>3. r = [op |-> "load", pc |-> "resolve", target |-> 0, cert |-> None,
           slow |-> {}, met |-> StoresMet]
  BY <1>2 DEF Idle
<1>4. task' = [task EXCEPT !["loader"] = r]
  BY <1>2 DEF Load
<1> QED
  BY <1>1, <1>3, <1>4, Sets DEF TypeInv, Moves

LEMMA StoreMoves ==
    ASSUME TypeInv, NEW t \in Writers, Store(t)
    PROVE  /\ issued + 1 \in 1 .. MaxCerts
           /\ task'[t] = [op |-> "store", pc |-> "resolve", target |-> 0, cert |-> issued + 1,
                          slow |-> {}, met |-> Seen(StoresMet)]
           /\ \A u \in Tasks \ {t} :
                /\ task'[u].op = task[u].op /\ task'[u].pc = task[u].pc
                /\ task'[u].target = task[u].target /\ task'[u].cert = task[u].cert
                /\ task'[u].slow = task[u].slow
                /\ task'[u].met = IF InStorage(u) THEN Seen(task[u].met) ELSE task[u].met
           /\ task' \in [Tasks -> Record]
<1>1. issued + 1 \in 1 .. MaxCerts /\ issued + 1 \in None .. MaxCerts
  BY SlotsAssumption DEF Store, TypeInv, None
<1>2. [op |-> "store", pc |-> "resolve", target |-> 0, cert |-> issued + 1,
       slow |-> {}, met |-> Seen(StoresMet)] \in Record
  BY <1>1, StoresMetType, SeenType DEF Record, Ops, Pcs, Slots
<1>3. \A u \in Tasks : [task[u] EXCEPT !.met = Seen(@)] \in Record
  BY SeenType DEF TypeInv, Record
<1>4. PICK r : r = [Idle EXCEPT !.op = "store", !.pc = "resolve", !.cert = issued + 1,
                                 !.met = Seen(StoresMet)]
  OBVIOUS
<1>8. r = [op |-> "store", pc |-> "resolve", target |-> 0, cert |-> issued + 1,
           slow |-> {}, met |-> Seen(StoresMet)]
  BY <1>4 DEF Idle
<1>9. task' = [u \in Tasks |-> IF u = t THEN r
                 ELSE IF InStorage(u) THEN [task[u] EXCEPT !.met = Seen(@)] ELSE task[u]]
  BY <1>4 DEF Store
<1>5. task' \in [Tasks -> Record]
  BY <1>2, <1>3, <1>8, <1>9 DEF TypeInv
<1>6. task'[t] = [op |-> "store", pc |-> "resolve", target |-> 0, cert |-> issued + 1,
                  slow |-> {}, met |-> Seen(StoresMet)]
  BY <1>8, <1>9, Sets
<1>7. \A u \in Tasks \ {t} :
        task'[u] = IF InStorage(u) THEN [task[u] EXCEPT !.met = Seen(@)] ELSE task[u]
  BY <1>9
<1> QED
  BY <1>1, <1>5, <1>6, <1>7 DEF TypeInv, Record

LEMMA PowerLossMoves ==
    ASSUME TypeInv, PowerLoss
    PROVE  /\ task' \in [Tasks -> Record]
           /\ task'["main"].op = "prepare" /\ task'["main"].pc = "resolve"
           /\ \A t \in Tasks \ {"main"} : task'[t] = Idle
<1>1. [op |-> "prepare", pc |-> "resolve", target |-> 0, cert |-> None, slow |-> {}, met |-> 0]
        \in Record
  BY SlotsAssumption DEF Record, Ops, Pcs, Slots, None
<1>2. PICK r : r = [Idle EXCEPT !.op = "prepare", !.pc = "resolve"]
  OBVIOUS
<1>3. r = [op |-> "prepare", pc |-> "resolve", target |-> 0, cert |-> None, slow |-> {}, met |-> 0]
  BY <1>2 DEF Idle
<1>4. task' = [t \in Tasks |-> IF t = "main" THEN r ELSE Idle]
  BY <1>2 DEF PowerLoss, Booting
<1> QED
  BY <1>1, <1>3, <1>4, IdleRecord, Sets

-------------------------------------------------------------------------------
(* What a resolution finds, and what each step of a task is. *)

\* A resolution chooses the selected slot if it is whole, else the other one.
LEMMA CandidateFacts ==
    ASSUME TypeInv, selector # NoSelector
    PROVE  /\ selector \in Slots
           /\ Whole(slot[selector]) => Candidates = {selector}
           /\ ~Whole(slot[selector]) =>
                Candidates = IF Whole(slot[Other(selector)]) THEN {Other(selector)} ELSE {}
BY Sets DEF TypeInv, Candidates

LEMMA Chosen ==
    ASSUME TypeInv, selector # NoSelector, Candidates # {},
           NEW s, s = CHOOSE c \in Candidates : TRUE
    PROVE  /\ s \in Slots /\ Whole(slot[s])
           /\ s = selector \/ (s = Other(selector) /\ ~Whole(slot[selector]))
<1>1. s \in Candidates
  BY Zenon
<1> QED
  BY <1>1, CandidateFacts, Sets

\* Resolutions: an inspection starts a transaction, a store its writes, ...
ToIssuing(t) ==
    /\ task[t].op = "inspect" /\ t \in Writers
    /\ selector # NoSelector \/ (t = "httpd" /\ Missing(legacy))
    /\ task'[t].op = "transaction" /\ task'[t].pc = "issuing"
    /\ task'[t].slow = {u \in Tasks \ {t} : InStorage(u)}

ToWriting(t) ==
    /\ Storing(t) /\ Storing(t)' /\ task'[t].pc = "write_key"
    /\ task'[t].cert = task[t].cert /\ task'[t].met = task[t].met
    /\ selector = NoSelector => task'[t].target = 0
    /\ selector # NoSelector =>
         \E s \in Slots :
            /\ Whole(slot[s]) /\ task'[t].target = Other(s)
            /\ s = selector \/ (s = Other(selector) /\ ~Whole(slot[selector]))

ToReopen(t) ==
    /\ task[t].op = "load" /\ task'[t].op = "load" /\ task'[t].pc = "reopen"
    /\ task'[t].met = task[t].met

ToRetire(t) ==
    /\ task[t].op = "prepare" /\ selector # NoSelector
    /\ task'[t].op = "prepare" /\ task'[t].pc = "retire"

ToMigrate(t) ==
    /\ selector = NoSelector /\ Whole(legacy)
    /\ task'[t].op = task[t].op /\ task'[t].pc = "migrate_key"
    /\ task'[t].met = task[t].met

ToEnd(t) == task'[t].op = "none" /\ task'[t].pc = "idle"

LEMMA ResolvePcs ==
    ASSUME PlaceInv, NEW t \in Tasks, task[t].pc = "resolve"
    PROVE  /\ task[t].op \in {"prepare", "inspect", "store", "load"}
           /\ task[t].op = "inspect" \/ task[t].op = "store" => t \in Writers
           /\ task[t].op = "load" => t = "loader"
           /\ task[t].op = "prepare" => t = "main"
BY DEF PlaceInv, Placed, MigratePcs, EarlyPcs, LatePcs, ReadPcs, RetirePcs

LEMMA IssuingMoves ==
    ASSUME TypeInv, NEW t \in Tasks, task[t].op = "inspect", NEW s, task' = Resolved(t, s)
    PROVE  /\ Moves(t) /\ task'[t].op = "transaction" /\ task'[t].pc = "issuing"
           /\ task'[t].slow = {u \in Tasks \ {t} : InStorage(u)}
<1> DEFINE S == {u \in Tasks \ {t} : InStorage(u)}
<1>1. [op |-> "transaction", pc |-> "issuing", target |-> 0, cert |-> None,
       slow |-> S, met |-> 0] \in Record
  BY SlotsAssumption DEF Record, Ops, Pcs, Slots, None
<1>2. PICK r : r = [Idle EXCEPT !.op = "transaction", !.pc = "issuing", !.slow = S]
  OBVIOUS
<1>3. r = [op |-> "transaction", pc |-> "issuing", target |-> 0, cert |-> None,
           slow |-> S, met |-> 0]
  BY <1>2 DEF Idle
<1>4. task' = [task EXCEPT ![t] = r]
  BY <1>2 DEF Resolved
<1>5. r \in Record
  BY <1>1, <1>3
<1>6. task' \in [Tasks -> Record] /\ task'[t] = r /\ \A u \in Tasks \ {t} : task'[u] = task[u]
  BY <1>4, <1>5 DEF TypeInv
<1>7. task'[t].op = "transaction" /\ task'[t].pc = "issuing" /\ task'[t].slow = S
  BY <1>3, <1>6
<1> HIDE DEF S
<1>8. Moves(t)
  BY <1>6 DEF Moves
<1> QED
  BY <1>7, <1>8 DEF S

LEMMA TargetMoves ==
    ASSUME TypeInv, NEW t \in Tasks, NEW pc \in Pcs, NEW d \in Slots,
           task' = [task EXCEPT ![t].pc = pc, ![t].target = d]
    PROVE  /\ Moves(t) /\ task'[t].op = task[t].op /\ task'[t].pc = pc
           /\ task'[t].target = d /\ task'[t].cert = task[t].cert /\ task'[t].met = task[t].met
<1> DEFINE q == [task[t] EXCEPT !.pc = pc]
           r == [q EXCEPT !.target = d]
<1>1. task[t] \in Record
  BY DEF TypeInv
<1>2. /\ q \in Record /\ q.op = task[t].op /\ q.pc = pc
      /\ q.cert = task[t].cert /\ q.met = task[t].met
  BY <1>1 DEF Record
<1> HIDE DEF q
<1>3. /\ r \in Record /\ r.op = q.op /\ r.pc = q.pc /\ r.target = d
      /\ r.cert = q.cert /\ r.met = q.met
  BY <1>2 DEF Record
<1> HIDE DEF r
<1>4. task' = [task EXCEPT ![t] = r]
  BY <1>1 DEF TypeInv, q, r
<1>5. task'[t] = r /\ \A u \in Tasks \ {t} : task'[u] = task[u]
  BY <1>4 DEF TypeInv
<1>6. task' \in [Tasks -> Record]
  BY <1>3, <1>4 DEF TypeInv
<1> QED
  BY <1>2, <1>3, <1>5, <1>6 DEF Moves

LEMMA CertMoves ==
    ASSUME TypeInv, NEW t \in Tasks, NEW pc \in Pcs, NEW c \in None .. MaxCerts,
           task' = [task EXCEPT ![t].pc = pc, ![t].cert = c]
    PROVE  /\ Moves(t) /\ task'[t].op = task[t].op /\ task'[t].pc = pc
           /\ task'[t].target = task[t].target /\ task'[t].cert = c /\ task'[t].met = task[t].met
<1> DEFINE q == [task[t] EXCEPT !.pc = pc]
           r == [q EXCEPT !.cert = c]
<1>1. task[t] \in Record
  BY DEF TypeInv
<1>2. /\ q \in Record /\ q.op = task[t].op /\ q.pc = pc
      /\ q.target = task[t].target /\ q.met = task[t].met
  BY <1>1 DEF Record
<1> HIDE DEF q
<1>3. /\ r \in Record /\ r.op = q.op /\ r.pc = q.pc /\ r.cert = c
      /\ r.target = q.target /\ r.met = q.met
  BY <1>2 DEF Record
<1> HIDE DEF r
<1>4. task' = [task EXCEPT ![t] = r]
  BY <1>1 DEF TypeInv, q, r
<1>5. task'[t] = r /\ \A u \in Tasks \ {t} : task'[u] = task[u]
  BY <1>4 DEF TypeInv
<1>6. task' \in [Tasks -> Record]
  BY <1>3, <1>4 DEF TypeInv
<1> QED
  BY <1>2, <1>3, <1>5, <1>6 DEF Moves

LEMMA ResolveMoves ==
    ASSUME TypeInv, PlaceInv, StoreInv, NEW t \in Tasks, Resolve(t)
    PROVE  /\ UNCHANGED <<slot, legacy, selector, issued, loaded>>
           /\ task[t].pc = "resolve" /\ Moves(t)
           /\ \/ ToIssuing(t) \/ ToWriting(t) \/ ToReopen(t) \/ ToRetire(t) \/ ToMigrate(t)
              \/ ToEnd(t)
<1>1. UNCHANGED <<slot, legacy, selector, issued, loaded>> /\ task[t].pc = "resolve"
  BY DEF Resolve
<1>2. CASE task' = Ended(t)
  BY <1>1, <1>2, EndMoves DEF ToEnd
<1>p. {"reopen", "retire", "migrate_key", "write_key"} \subseteq Pcs
  BY DEF Pcs, RetirePcs, MigratePcs, EarlyPcs
<1>3. CASE selector # NoSelector /\ Candidates # {}
  <2>1. PICK s : s = CHOOSE c \in Candidates : TRUE
    OBVIOUS
  <2>2. task' = Resolved(t, s)
    BY <1>3, <2>1 DEF Resolve
  <2>3. /\ s \in Slots /\ Whole(slot[s])
        /\ s = selector \/ (s = Other(selector) /\ ~Whole(slot[selector]))
    BY <1>3, <2>1, Chosen
  <2>4. CASE task[t].op = "inspect"
    <3>1. /\ Moves(t) /\ task'[t].op = "transaction" /\ task'[t].pc = "issuing"
          /\ task'[t].slow = {u \in Tasks \ {t} : InStorage(u)}
      BY <2>2, <2>4, IssuingMoves
    <3> QED
      BY <1>1, <1>3, <2>4, <3>1, ResolvePcs DEF ToIssuing
  <2>5. CASE task[t].op = "store"
    <3>1. task' = [task EXCEPT ![t].pc = "write_key", ![t].target = Other(s)]
      BY <2>2, <2>5 DEF Resolved, StoreTarget
    <3>2. Other(s) \in Slots
      BY <2>3, Sets
    <3>3. /\ Moves(t) /\ task'[t].op = task[t].op /\ task'[t].pc = "write_key"
          /\ task'[t].target = Other(s) /\ task'[t].cert = task[t].cert
          /\ task'[t].met = task[t].met
      BY <3>1, <3>2, <1>p, TargetMoves
    <3> QED
      BY <1>1, <1>3, <2>3, <2>5, <3>3 DEF ToWriting, Storing
  <2>6. CASE task[t].op = "load"
    <3>1. task' = At(t, "reopen")
      BY <2>2, <2>6 DEF Resolved, At
    <3> QED
      BY <1>1, <2>6, <3>1, <1>p, AtMoves DEF ToReopen
  <2>7. CASE task[t].op = "prepare"
    <3>1. task' = At(t, "retire")
      BY <2>2, <2>7 DEF Resolved
    <3> QED
      BY <1>1, <1>3, <2>7, <3>1, <1>p, AtMoves DEF ToRetire
  <2> QED
    BY <1>1, <2>4, <2>5, <2>6, <2>7, ResolvePcs
<1>4. CASE selector = NoSelector /\ Missing(legacy)
  <2>1. task' = Unresolved(t)
    BY <1>4 DEF Resolve
  <2>2. CASE task[t].op = "inspect" /\ t = "httpd"
    <3>1. task' = Resolved(t, 0)
      BY <2>1, <2>2 DEF Unresolved
    <3>2. /\ Moves(t) /\ task'[t].op = "transaction" /\ task'[t].pc = "issuing"
          /\ task'[t].slow = {u \in Tasks \ {t} : InStorage(u)}
      BY <2>2, <3>1, IssuingMoves
    <3> QED
      BY <1>1, <1>4, <2>2, <3>2, ResolvePcs DEF ToIssuing
  <2>3. CASE task[t].op = "store"
    <3>1. task' = [task EXCEPT ![t].pc = "write_key", ![t].target = 0]
      BY <2>1, <2>3 DEF Unresolved
    <3>2. 0 \in Slots
      BY Sets
    <3>3. /\ Moves(t) /\ task'[t].op = task[t].op /\ task'[t].pc = "write_key"
          /\ task'[t].target = 0 /\ task'[t].cert = task[t].cert
          /\ task'[t].met = task[t].met
      BY <3>1, <3>2, <1>p, TargetMoves
    <3> QED
      BY <1>1, <1>4, <2>3, <3>3 DEF ToWriting, Storing
  <2>4. CASE ~(task[t].op = "inspect" /\ t = "httpd") /\ task[t].op # "store"
    BY <1>2, <2>1, <2>4 DEF Unresolved
  <2> QED
    BY <2>2, <2>3, <2>4
<1>5. CASE selector = NoSelector /\ ~Missing(legacy) /\ Whole(legacy)
  <2>1. task' = At(t, "migrate_key")
    BY <1>5 DEF Resolve
  <2> QED
    BY <1>1, <1>5, <2>1, <1>p, AtMoves DEF ToMigrate
<1> QED
  BY <1>2, <1>3, <1>4, <1>5 DEF Resolve

-------------------------------------------------------------------------------
(* Steps that leave the slots alone, and start no store. *)

SameStores ==
    \A t \in Tasks : Storing(t)' =>
        /\ Storing(t) /\ task'[t].pc = task[t].pc /\ task'[t].target = task[t].target
        /\ task'[t].cert = task[t].cert /\ task'[t].met = task[t].met

SlowKept ==
    \A u, v \in Tasks : Issuing(u)' /\ InStorage(v)' /\ v \notin task'[u].slow
                        => Issuing(u) /\ v \notin task[u].slow

SameMet ==
    InStorage("loader")' =>
        \/ InStorage("loader") /\ task'["loader"].met = task["loader"].met
        \/ task'["loader"].met = StoresMet

SameMigrations ==
    \A m \in Tasks : Migrating(m)' =>
        \/ Migrating(m) /\ task'[m].pc = task[m].pc
        \/ selector = NoSelector /\ Whole(legacy) /\ task'[m].pc = "migrate_key"

SameIssuers ==
    \A t \in Writers : Issuing(t)' =>
        Issuing(t) \/ selector # NoSelector \/ (t = "httpd" /\ Missing(legacy))

SameReader ==
    Reading' =>
        /\ Reading
        /\ task'["loader"].pc = task["loader"].pc /\ task'["loader"].target = task["loader"].target
        /\ task'["loader"].cert = task["loader"].cert /\ task'["loader"].met = task["loader"].met

Calm == UNCHANGED <<slot, selector, issued>> /\ SameStores /\ SlowKept

LEMMA PlaceStep ==
    ASSUME PlaceInv, NEW t \in Tasks, Moves(t), Placed(t, task'[t].op, task'[t].pc),
           (Up /\ t # "main") \/ task[t].pc # "idle",
           selector # NoSelector => selector' # NoSelector,
           task'[t].pc \in RetirePcs /\ t = "main" => selector' # NoSelector
    PROVE  PlaceInv'
<1>1. \A u \in Tasks : Placed(u, task'[u].op, task'[u].pc)
  BY DEF PlaceInv, Moves
<1>2. t # "main" => task["main"].pc = "idle"
  BY DEF PlaceInv, Up
<1>3. task'["main"].pc # "idle" => \A u \in Tasks \ {"main"} : task'[u].pc = "idle"
  BY <1>2, Sets DEF PlaceInv, Moves
<1>4. task'["main"].pc \in RetirePcs => selector' # NoSelector
  BY <1>2, Sets DEF PlaceInv, Moves, RetirePcs
<1> QED
  BY <1>1, <1>3, <1>4 DEF PlaceInv, Placed

\* Where each operation can be, seen from the step.
PlaceFacts ==
    /\ \A t \in Tasks :
        /\ Writing(t) => Storing(t)
        /\ Storing(t) => t \in Writers /\ (Writing(t) \/ task[t].pc = "resolve") /\ InStorage(t)
        /\ Issuing(t) => t \in Writers /\ ~Storing(t)
        /\ task[t].pc \in RetirePcs => t = "main"
        /\ task[t].pc \in ReadPcs \cup {"reopen"} => t = "loader" /\ task[t].op = "load"
        /\ task[t].pc = "idle" <=> task[t].op = "none"
        /\ Migrating(t) => ~Storing(t) /\ InStorage(t)
    /\ Reading => task["loader"].op = "load" /\ InStorage("loader")

LEMMA Places == PlaceInv => PlaceFacts
<1> SUFFICES ASSUME PlaceInv PROVE PlaceFacts
  OBVIOUS
<1>1. ASSUME NEW t \in Tasks
      PROVE  /\ Writing(t) => Storing(t)
             /\ Storing(t) => t \in Writers /\ (Writing(t) \/ task[t].pc = "resolve")
                              /\ InStorage(t)
             /\ Issuing(t) => t \in Writers /\ ~Storing(t)
             /\ task[t].pc \in RetirePcs => t = "main"
             /\ task[t].pc \in ReadPcs \cup {"reopen"} => t = "loader" /\ task[t].op = "load"
             /\ task[t].pc = "idle" <=> task[t].op = "none"
             /\ Migrating(t) => ~Storing(t) /\ InStorage(t)
  <2>1. Placed(t, task[t].op, task[t].pc)
    BY DEF PlaceInv
  <2> QED
    BY <2>1, Sets DEF Placed, MigratePcs, EarlyPcs, LatePcs, ReadPcs, RetirePcs, Writing, Early,
       Late, Storing, InStorage, Issuing, Migrating
<1>2. Reading => task["loader"].op = "load" /\ InStorage("loader")
  BY <1>1, Sets DEF Reading, ReadPcs, InStorage
<1> QED
  BY <1>1, <1>2 DEF PlaceFacts

LEMMA PlacesNext == PlaceInv' => PlaceFacts'
BY Places, PTL

LEMMA CalmStep ==
    ASSUME PlaceInv, NEW t \in Tasks, Moves(t), task'[t].op # "store",
           Issuing(t)' => \A u \in Tasks \ {t} : InStorage(u) => u \in task'[t].slow
    PROVE  SameStores /\ SlowKept
<1>1. SameStores
  BY DEF SameStores, Moves, Storing
<1>2. ASSUME NEW u \in Tasks, NEW v \in Tasks, Issuing(u)', InStorage(v)', v \notin task'[u].slow
      PROVE  Issuing(u) /\ v \notin task[u].slow
  <2>1. CASE u = t
    BY <1>2, <2>1 DEF Moves, Issuing, InStorage
  <2>2. CASE u # t
    BY <1>2, <2>2 DEF Moves, Issuing, InStorage
  <2> QED
    BY <2>1, <2>2
<1> QED
  BY <1>1, <1>2 DEF SlowKept

LEMMA CalmCert ==
    ASSUME CertInv, Calm, PlaceInv, PlaceInv'
    PROVE  CertInv'
<1>1. \A t \in Writers : Storing(t)' =>
        /\ Storing(t) /\ task'[t].pc = task[t].pc /\ task'[t].target = task[t].target
        /\ task'[t].cert = task[t].cert
  BY Sets DEF Calm, SameStores
<1>2. \A t \in Writers : Storing(t)' => (Writing(t)' <=> Writing(t)) /\ (Late(t)' <=> Late(t))
  BY <1>1 DEF Writing, Early, Late
<1>3. slot' = slot /\ issued' = issued
  BY DEF Calm
<1> QED
  BY <1>1, <1>2, <1>3 DEF CertInv

LEMMA StoresMetFacts ==
    ASSUME MetInv, NEW t \in Writers, Storing(t)
    PROVE  StoresMet \in {task[t].met, 2}
BY DEF MetInv, StoresMet, Contended

LEMMA CalmMet ==
    ASSUME MetInv, Calm, SameMet
    PROVE  MetInv'
<1>1. \A t \in Writers : Storing(t)' =>
        Storing(t) /\ task'[t].cert = task[t].cert /\ task'[t].met = task[t].met
  BY Sets DEF Calm, SameStores
<1>2. issued' = issued
  BY DEF Calm
<1>3. ASSUME NEW t \in Writers, Storing(t)', InStorage("loader")'
      PROVE  task'["loader"].met \in {task'[t].met, 2}
  BY <1>1, <1>3, StoresMetFacts DEF MetInv, SameMet
<1>4. ASSUME NEW t \in Writers, Storing(t)'
      PROVE  /\ task'[t].met \in {1, 2} /\ (task'[t].met = 1 => task'[t].cert = issued')
             /\ \A u \in Writers \ {t} : Storing(u)' => task'[t].met = 2
  BY <1>1, <1>2, <1>4 DEF MetInv
<1> QED
  BY <1>3, <1>4 DEF MetInv, InStorage, Storing

LEMMA CalmWrite ==
    ASSUME PlaceInv, PlaceInv', Calm
    PROVE  /\ WriteInv => WriteInv'
           /\ PairInv => PairInv'
           /\ TargetIsSpare => TargetIsSpare'
           /\ SelectorInv => SelectorInv'
<1>1. ASSUME NEW t \in Tasks
      PROVE  /\ Writing(t)' => Writing(t) /\ Storing(t)'
             /\ Early(t)' => Early(t)
             /\ Late(t)' => Late(t)
             /\ Waiting(t)' => Waiting(t)
  <2>1. Writing(t)' => Storing(t)'
    BY PlacesNext DEF PlaceFacts
  <2>2. Storing(t)' => Storing(t) /\ task'[t].pc = task[t].pc
    BY DEF Calm, SameStores
  <2> QED
    BY <2>1, <2>2 DEF Waiting, Writing, Early, Late
<1>2. \A t \in Tasks : Writing(t)' =>
        /\ task'[t].pc = task[t].pc /\ task'[t].target = task[t].target
        /\ task'[t].cert = task[t].cert /\ task'[t].met = task[t].met
  BY <1>1 DEF Calm, SameStores
<1>3. slot' = slot /\ selector' = selector
  BY DEF Calm
<1>4. WriteInv => WriteInv'
  <2> SUFFICES ASSUME WriteInv, NEW t \in Writers, Writing(t)'
               PROVE  /\ selector' = NoSelector => task'[t].target = 0
                      /\ task'[t].pc \in {"validate", "commit"} => slot'[task'[t].target].host
                      /\ selector' = NoSelector /\ task'[t].pc = "commit"
                         => Whole(slot'[task'[t].target])
                      /\ task'[t].met = 1 /\ task'[t].pc # "write_key"
                         => slot'[task'[t].target].key = task'[t].cert
                      /\ Early(t)' /\ selector' = task'[t].target /\ Whole(slot'[selector'])
                         => task'[t].met = 2
    BY DEF WriteInv, Writing, Early, Late, Whole
  <2>1. Writing(t) /\ (Early(t)' => Early(t))
    BY <1>1, Sets
  <2>2. /\ task'[t].pc = task[t].pc /\ task'[t].target = task[t].target
        /\ task'[t].cert = task[t].cert /\ task'[t].met = task[t].met
    BY <1>2, Sets
  <2> QED
    BY <1>3, <2>1, <2>2 DEF WriteInv
<1>5. ASSUME PairInv PROVE PairInv'
  <2> SUFFICES ASSUME NEW t \in Writers, NEW u \in Writers, t # u, Writing(t)',
                      selector' # NoSelector
               PROVE  /\ Writing(u)' /\ task'[u].target # task'[t].target
                         => \/ Late(t)' /\ Whole(slot'[task'[t].target])
                            \/ Late(u)' /\ Whole(slot'[task'[u].target])
                      /\ Early(t)' /\ (Waiting(u)' \/ (Issuing(u)' /\ t \notin task'[u].slow))
                         => ~(selector' = task'[t].target /\ Whole(slot'[selector']))
    BY DEF PairInv, Writing, Early, Late, Waiting, Issuing, Storing, Whole
  <2>0. t \in Tasks /\ u \in Tasks
    BY Sets
  <2>1. Writing(t) /\ (Writing(u)' => Writing(u))
    BY <2>0, <1>1
  <2>2. /\ task'[t].pc = task[t].pc /\ task'[t].target = task[t].target
        /\ Writing(u)' => task'[u].pc = task[u].pc /\ task'[u].target = task[u].target
    BY <2>0, <1>2
  <2>3. InStorage(t)' /\ (Early(t)' <=> Early(t)) /\ (Late(t)' <=> Late(t))
        /\ (Writing(u)' => (Late(u)' <=> Late(u)))
    BY <2>0, <2>2, PlacesNext DEF PlaceFacts, Early, Late
  <2>4. Issuing(u)' /\ t \notin task'[u].slow => Issuing(u) /\ t \notin task[u].slow
    BY <2>0, <2>3 DEF Calm, SlowKept
  <2>5. Waiting(u)' => Waiting(u)
    BY <2>0, <1>1
  <2> QED
    BY <1>3, <1>5, <2>1, <2>2, <2>3, <2>4, <2>5 DEF PairInv
<1>6. TargetIsSpare => TargetIsSpare'
  BY <1>1, <1>2, <1>3, Sets DEF TargetIsSpare, Writing, Early, Late, EarlyPcs, LatePcs
<1>7. SelectorInv => SelectorInv'
  BY <1>3 DEF SelectorInv
<1> QED
  BY <1>4, <1>5, <1>6, <1>7

LEMMA CalmIssuers ==
    ASSUME StoreInv, SameStores, SameIssuers, selector' = selector, legacy' = legacy
    PROVE  StoreInv'
<1> SUFFICES ASSUME NEW t \in Writers, Storing(t)' \/ Issuing(t)', selector = NoSelector
             PROVE  t = "httpd" /\ Missing(legacy)
  BY DEF StoreInv, Missing, Storing, Issuing
<1>1. Storing(t)' => Storing(t)
  BY Sets DEF SameStores
<1>2. Issuing(t)' => Issuing(t) \/ (t = "httpd" /\ Missing(legacy))
  BY DEF SameIssuers
<1> QED
  BY <1>1, <1>2 DEF StoreInv

\* A credential that can be migrated is not a missing one.
LEMMA WholeIsThere == \A m \in Material : Whole(m) => ~Missing(m)
BY DEF Whole, Missing

LEMMA CalmMigrations ==
    ASSUME TypeInv, MigrateInv, Calm, StoreInv', SameMigrations, PlaceInv', legacy' = legacy
    PROVE  MigrateInv'
<1> SUFFICES ASSUME NEW m \in Tasks, Migrating(m)'
             PROVE  /\ Whole(legacy)
                    /\ selector # NoSelector =>
                         /\ selector = 0
                         /\ slot = [s \in Slots |-> IF s = 0 THEN Complete(1) ELSE Empty]
                    /\ task'[m].pc = "migrate_commit" => Whole(slot[0])
                    /\ \A u \in Writers : ~Storing(u)' /\ (Issuing(u)' => m \in task'[u].slow)
  BY DEF MigrateInv, Calm, Migrating, Whole, Storing, Issuing
<1>1. CASE Migrating(m) /\ task'[m].pc = task[m].pc
  <2>1. InStorage(m)'
    BY PlacesNext DEF PlaceFacts
  <2>2. ASSUME NEW u \in Writers PROVE ~Storing(u)' /\ (Issuing(u)' => m \in task'[u].slow)
    BY <1>1, <2>1, Sets DEF MigrateInv, Calm, SameStores, SlowKept
  <2> QED
    BY <1>1, <2>2 DEF MigrateInv
<1>2. CASE selector = NoSelector /\ Whole(legacy) /\ task'[m].pc = "migrate_key"
  <2>1. ~Missing(legacy')
    BY <1>2, WholeIsThere DEF TypeInv
  <2>2. ASSUME NEW u \in Writers PROVE ~Storing(u)' /\ ~Issuing(u)'
    BY <1>2, <2>1 DEF StoreInv, Calm, Storing, Issuing
  <2> QED
    BY <1>2, <2>2
<1> QED
  BY <1>1, <1>2 DEF SameMigrations

LEMMA CalmLoad ==
    ASSUME LoadInv, Calm, SameReader, PlaceInv, PlaceInv'
    PROVE  LoadInv'
<1> SUFFICES ASSUME Reading' PROVE LoadInv'
  BY DEF LoadInv, Reading
<1>1. /\ Reading /\ slot' = slot /\ selector' = selector
      /\ task'["loader"].pc = task["loader"].pc /\ task'["loader"].target = task["loader"].target
      /\ task'["loader"].cert = task["loader"].cert /\ task'["loader"].met = task["loader"].met
  BY DEF SameReader, Calm
<1>2. ASSUME NEW t \in Writers
      PROVE  /\ Early(t)' => Early(t) /\ task'[t].target = task[t].target
             /\ Waiting(t)' => Waiting(t)
  <2>1. Early(t)' => Storing(t)'
    BY PlacesNext, Sets DEF PlaceFacts, Writing
  <2>2. Storing(t)' => Storing(t) /\ task'[t].pc = task[t].pc /\ task'[t].target = task[t].target
    BY Sets DEF Calm, SameStores
  <2> QED
    BY <2>1, <2>2 DEF Early, Waiting
<1> QED
  BY <1>1, <1>2 DEF LoadInv

LEMMA CalmKeeps ==
    ASSUME IInv, Calm, SameMet, SameMigrations, SameIssuers, PlaceInv',
           task' \in [Tasks -> Record], legacy' = legacy
    PROVE  /\ TypeInv' /\ LegacyInv' /\ StoreInv' /\ MigrateInv' /\ SelectorInv' /\ CertInv'
           /\ MetInv' /\ WriteInv' /\ PairInv' /\ TargetIsSpare'
<1>1. TypeInv'
  BY DEF IInv, TypeInv, Calm
<1>2. LegacyInv'
  BY DEF IInv, LegacyInv, Calm, Whole
<1>3. StoreInv'
  BY CalmIssuers DEF IInv, Calm
<1>4. MigrateInv'
  BY <1>3, CalmMigrations DEF IInv
<1>5. CertInv'
  BY CalmCert DEF IInv
<1>6. MetInv'
  BY CalmMet DEF IInv
<1>7. SelectorInv' /\ WriteInv' /\ PairInv' /\ TargetIsSpare'
  BY CalmWrite DEF IInv
<1> QED
  BY <1>1, <1>2, <1>3, <1>4, <1>5, <1>6, <1>7

LEMMA CalmAction ==
    ASSUME IInv, NEW t \in Tasks, Moves(t), task'[t].op # "store",
           UNCHANGED <<slot, legacy, selector, issued>>,
           Placed(t, task'[t].op, task'[t].pc), (Up /\ t # "main") \/ task[t].pc # "idle",
           task'[t].pc \in RetirePcs => selector # NoSelector,
           Issuing(t)' =>
             /\ \A u \in Tasks \ {t} : InStorage(u) => u \in task'[t].slow
             /\ selector # NoSelector \/ (t = "httpd" /\ Missing(legacy)),
           Migrating(t)' =>
             \/ Migrating(t) /\ task'[t].pc = task[t].pc
             \/ selector = NoSelector /\ Whole(legacy) /\ task'[t].pc = "migrate_key",
           t = "loader" => SameMet
    PROVE  /\ TypeInv' /\ PlaceInv' /\ LegacyInv' /\ StoreInv' /\ MigrateInv' /\ SelectorInv'
           /\ CertInv' /\ MetInv' /\ WriteInv' /\ PairInv' /\ TargetIsSpare'
           /\ t # "loader" \/ ~Reading' => LoadInv'
<1>1. PlaceInv'
  BY PlaceStep DEF IInv
<1>2. Calm
  BY CalmStep DEF Calm, IInv
<1>3. SameMet
  BY Sets DEF SameMet, Moves, InStorage
<1>4. SameMigrations
  BY DEF SameMigrations, Moves, Migrating
<1>5. SameIssuers
  BY Sets DEF SameIssuers, Moves, Issuing
<1>6. /\ TypeInv' /\ LegacyInv' /\ StoreInv' /\ MigrateInv' /\ SelectorInv' /\ CertInv'
      /\ MetInv' /\ WriteInv' /\ PairInv' /\ TargetIsSpare'
  BY <1>1, <1>2, <1>3, <1>4, <1>5, CalmKeeps DEF Moves
<1>7. CASE ~Reading'
  BY <1>1, <1>6, <1>7 DEF LoadInv, Reading
<1>8. CASE t # "loader"
  <2>1. SameReader
    BY <1>8, Sets DEF SameReader, Reading, Moves
  <2> QED
    BY <1>1, <1>2, <1>6, <2>1, CalmLoad DEF IInv
<1> QED
  BY <1>1, <1>6, <1>7, <1>8

LEMMA PcSets ==
    /\ "write_key" \in EarlyPcs /\ "write_pem" \in EarlyPcs
    /\ "write_host" \in LatePcs /\ "validate" \in LatePcs /\ "commit" \in LatePcs
    /\ "migrate_key" \in MigratePcs /\ "migrate_pem" \in MigratePcs
    /\ "migrate_host" \in MigratePcs /\ "migrate_validate" \in MigratePcs
    /\ "migrate_commit" \in MigratePcs
    /\ "retire" \in RetirePcs /\ "erase_key" \in RetirePcs /\ "erase_pem" \in RetirePcs
    /\ "erase_host" \in RetirePcs
    /\ "read_key" \in ReadPcs /\ "read_pem" \in ReadPcs
    /\ \A pc \in {"idle", "issuing", "resolve", "reopen"} :
         pc \notin EarlyPcs \cup LatePcs \cup MigratePcs \cup RetirePcs \cup ReadPcs
    /\ \A pc \in MigratePcs : pc \notin EarlyPcs \cup LatePcs \cup RetirePcs \cup ReadPcs
    /\ \A pc \in ReadPcs : pc \notin EarlyPcs \cup LatePcs \cup RetirePcs \cup MigratePcs
    /\ \A pc \in RetirePcs : pc \notin EarlyPcs \cup LatePcs \cup MigratePcs \cup ReadPcs
    /\ \A pc \in EarlyPcs : pc \notin LatePcs \cup RetirePcs \cup MigratePcs \cup ReadPcs
    /\ \A pc \in LatePcs : pc \notin EarlyPcs \cup RetirePcs \cup MigratePcs \cup ReadPcs
    /\ EarlyPcs \subseteq Pcs /\ LatePcs \subseteq Pcs /\ MigratePcs \subseteq Pcs
    /\ RetirePcs \subseteq Pcs /\ ReadPcs \subseteq Pcs
    /\ {"idle", "issuing", "resolve", "reopen"} \subseteq Pcs
BY DEF EarlyPcs, LatePcs, MigratePcs, RetirePcs, ReadPcs, Pcs

LEMMA EndStepKeeps ==
    ASSUME IInv, NEW t \in Tasks, task[t].pc # "idle", Moves(t), ToEnd(t),
           UNCHANGED <<slot, legacy, selector, issued>>, LoadedWhole'
    PROVE  IInv'
<1>1. task'[t].op = "none" /\ task'[t].pc = "idle"
  BY DEF ToEnd
<1>2. Placed(t, task'[t].op, task'[t].pc)
  BY <1>1 DEF Placed
<1>3. t = "loader" => SameMet /\ ~Reading'
  BY <1>1, PcSets DEF SameMet, InStorage, Reading
<1>4. ~Issuing(t)' /\ ~Migrating(t)' /\ task'[t].pc \notin RetirePcs
  BY <1>1, PcSets DEF Issuing, Migrating
<1>5. /\ TypeInv' /\ PlaceInv' /\ LegacyInv' /\ StoreInv' /\ MigrateInv' /\ SelectorInv'
      /\ CertInv' /\ MetInv' /\ WriteInv' /\ PairInv' /\ TargetIsSpare'
      /\ t # "loader" \/ ~Reading' => LoadInv'
  BY <1>1, <1>2, <1>3, <1>4, CalmAction
<1> QED
  BY <1>3, <1>5 DEF IInv

LEMMA EndKeeps ==
    ASSUME IInv, NEW t \in Tasks, task[t].pc # "idle", task' = Ended(t),
           UNCHANGED <<slot, legacy, selector, issued>>, LoadedWhole'
    PROVE  IInv'
BY EndMoves, EndStepKeeps DEF IInv, ToEnd

LEMMA InspectKeeps ==
    ASSUME IInv, NEW t \in Writers, Inspect(t)
    PROVE  IInv'
<1>1. Moves(t) /\ task'[t].op = "inspect" /\ task'[t].pc = "resolve" /\ t \in Tasks
  BY InspectMoves, Sets DEF IInv
<1>2. Placed(t, task'[t].op, task'[t].pc)
  BY <1>1 DEF Placed
<1>3. t # "loader" /\ t # "main"
  BY Sets
<1>4. ~Issuing(t)' /\ ~Migrating(t)' /\ task'[t].pc \notin RetirePcs
  BY <1>1, PcSets DEF Issuing, Migrating
<1>5. UNCHANGED <<slot, legacy, selector, issued, loaded>> /\ Up
  BY DEF Inspect
<1>6. /\ TypeInv' /\ PlaceInv' /\ LegacyInv' /\ StoreInv' /\ MigrateInv' /\ SelectorInv'
      /\ CertInv' /\ MetInv' /\ WriteInv' /\ PairInv' /\ TargetIsSpare'
      /\ t # "loader" \/ ~Reading' => LoadInv'
  BY <1>1, <1>2, <1>3, <1>4, <1>5, CalmAction
<1> QED
  BY <1>3, <1>5, <1>6 DEF IInv, LoadedWhole

LEMMA LoadKeeps ==
    ASSUME IInv, Load
    PROVE  IInv'
<1> DEFINE t == "loader"
<1>1. /\ Moves(t) /\ task'[t].op = "load" /\ task'[t].pc = "resolve" /\ t \in Tasks
      /\ task'[t].met = StoresMet
  BY LoadMoves, Sets DEF IInv
<1>2. Placed(t, task'[t].op, task'[t].pc)
  BY <1>1 DEF Placed
<1>3. SameMet /\ ~Reading'
  BY <1>1, PcSets DEF SameMet, Reading
<1>4. ~Issuing(t)' /\ ~Migrating(t)' /\ task'[t].pc \notin RetirePcs
  BY <1>1, PcSets DEF Issuing, Migrating
<1>5. UNCHANGED <<slot, legacy, selector, issued, loaded>> /\ Up
  BY DEF Load
<1>6. /\ TypeInv' /\ PlaceInv' /\ LegacyInv' /\ StoreInv' /\ MigrateInv' /\ SelectorInv'
      /\ CertInv' /\ MetInv' /\ WriteInv' /\ PairInv' /\ TargetIsSpare'
      /\ t # "loader" \/ ~Reading' => LoadInv'
  BY <1>1, <1>2, <1>3, <1>4, <1>5, CalmAction
<1> QED
  BY <1>3, <1>5, <1>6 DEF IInv, LoadedWhole

LEMMA ResolveKeeps ==
    ASSUME IInv, NEW t \in Tasks, Resolve(t), ~Storing(t)
    PROVE  IInv'
<1>1. /\ UNCHANGED <<slot, legacy, selector, issued, loaded>>
      /\ task[t].pc = "resolve" /\ Moves(t)
      /\ \/ ToIssuing(t) \/ ToReopen(t) \/ ToRetire(t) \/ ToMigrate(t) \/ ToEnd(t)
  BY ResolveMoves DEF IInv, ToWriting
<1>2. /\ task[t].op \in {"prepare", "inspect", "load"}
      /\ task[t].op = "inspect" => t \in Writers
      /\ task[t].op = "load" => t = "loader"
      /\ task[t].op = "prepare" => t = "main"
  BY <1>1, ResolvePcs DEF IInv, Storing
<1>3. task'[t].op # "store" /\ Placed(t, task'[t].op, task'[t].pc)
  BY <1>1, <1>2, PcSets DEF ToIssuing, ToReopen, ToRetire, ToMigrate, ToEnd, Placed
<1>4. task'[t].pc \in RetirePcs => selector # NoSelector
  BY <1>1, PcSets DEF ToIssuing, ToReopen, ToRetire, ToMigrate, ToEnd
<1>5. Issuing(t)' =>
         /\ \A u \in Tasks \ {t} : InStorage(u) => u \in task'[t].slow
         /\ selector # NoSelector \/ (t = "httpd" /\ Missing(legacy))
  BY <1>1, PcSets DEF ToIssuing, ToReopen, ToRetire, ToMigrate, ToEnd, Issuing
<1>6. Migrating(t)' => selector = NoSelector /\ Whole(legacy) /\ task'[t].pc = "migrate_key"
  BY <1>1, PcSets DEF ToIssuing, ToReopen, ToRetire, ToMigrate, ToEnd, Migrating
<1>7. t = "loader" => SameMet
  <2>1. t = "loader" => ToReopen(t) \/ ToMigrate(t) \/ ToEnd(t)
    BY <1>1, <1>2, Sets DEF ToIssuing, ToRetire
  <2>2. t = "loader" /\ InStorage("loader")' => task'["loader"].met = task["loader"].met
    BY <2>1 DEF ToReopen, ToMigrate, ToEnd, InStorage
  <2> QED
    BY <1>1, <2>2 DEF SameMet, InStorage
<1>8. t = "loader" => ~Reading'
  BY <1>1, PcSets DEF ToIssuing, ToReopen, ToRetire, ToMigrate, ToEnd, Reading
<1>9. /\ TypeInv' /\ PlaceInv' /\ LegacyInv' /\ StoreInv' /\ MigrateInv' /\ SelectorInv'
      /\ CertInv' /\ MetInv' /\ WriteInv' /\ PairInv' /\ TargetIsSpare'
      /\ t # "loader" \/ ~Reading' => LoadInv'
  <2>1. UNCHANGED <<slot, legacy, selector, issued>> /\ task[t].pc # "idle"
    BY <1>1
  <2> QED
    BY <1>1, <1>3, <1>4, <1>5, <1>6, <1>7, <2>1, CalmAction
<1> QED
  BY <1>1, <1>8, <1>9 DEF IInv, LoadedWhole

LEMMA PowerLossKeeps ==
    ASSUME IInv, PowerLoss
    PROVE  IInv'
<1>1. /\ task' \in [Tasks -> Record]
      /\ task'["main"].op = "prepare" /\ task'["main"].pc = "resolve"
      /\ \A t \in Tasks \ {"main"} : task'[t].op = "none" /\ task'[t].pc = "idle"
  BY PowerLossMoves, IdleRecord DEF IInv
<1>2. UNCHANGED <<slot, legacy, selector, issued, loaded>>
  BY DEF PowerLoss
<1>3. \A t \in Tasks : ~Storing(t)' /\ ~Issuing(t)' /\ ~Migrating(t)'
  BY <1>1, PcSets DEF Storing, Issuing, Migrating
<1>4. ~InStorage("loader")' /\ ~Reading'
  BY <1>1, PcSets, Sets DEF InStorage, Reading
<1>5. PlaceInv'
  <2>1. \A t \in Tasks : Placed(t, task'[t].op, task'[t].pc)
    BY <1>1 DEF Placed
  <2> QED
    BY <1>1, <2>1, PcSets DEF PlaceInv, Placed
<1>6. Calm /\ SameMet /\ SameMigrations /\ SameIssuers
  BY <1>2, <1>3, <1>4, Sets DEF Calm, SameStores, SlowKept, SameMet, SameMigrations, SameIssuers
<1>7. /\ TypeInv' /\ LegacyInv' /\ StoreInv' /\ MigrateInv' /\ SelectorInv' /\ CertInv'
      /\ MetInv' /\ WriteInv' /\ PairInv' /\ TargetIsSpare'
  BY <1>1, <1>2, <1>5, <1>6, CalmKeeps
<1> QED
  BY <1>2, <1>4, <1>5, <1>7 DEF IInv, LoadInv, Reading, LoadedWhole

LEMMA RetireKeeps ==
    ASSUME IInv, NEW t \in Tasks, Retire(t)
    PROVE  IInv'
<1>1. CASE task' = Ended(t) /\ task[t].pc = "retire"
  <2>1. UNCHANGED <<slot, legacy, selector, issued>> /\ LoadedWhole'
    BY <1>1 DEF Retire, IInv, LoadedWhole
  <2> QED
    BY <1>1, <2>1, EndKeeps
<1> SUFFICES ASSUME ~(task' = Ended(t) /\ task[t].pc = "retire") PROVE IInv'
  BY <1>1
<1>2. UNCHANGED <<slot, selector, issued, loaded>> /\ task[t].pc \in RetirePcs
  BY PcSets DEF Retire
<1>3. /\ Moves(t)
      /\ \/ task'[t].op = "none" /\ task'[t].pc = "idle"
         \/ task'[t].op = task[t].op /\ task'[t].pc \in RetirePcs
  <2>1. CASE task' = Ended(t)
    BY <2>1, EndMoves DEF IInv
  <2>2. CASE \E pc \in RetirePcs : task' = At(t, pc)
    <3>1. PICK pc \in RetirePcs : task' = At(t, pc)
      BY <2>2
    <3>2. pc \in Pcs
      BY PcSets
    <3> QED
      BY <3>1, <3>2, AtMoves DEF IInv
  <2> QED
    BY <2>1, <2>2, PcSets DEF Retire
<1>4. /\ t = "main" /\ selector # NoSelector /\ task[t].op = "prepare"
      /\ \A u \in Tasks \ {t} : task[u].op = "none" /\ task[u].pc = "idle"
  <2>1. t = "main"
    BY <1>2, Places DEF IInv, PlaceFacts
  <2>2. Placed(t, task[t].op, task[t].pc) /\ task[t].pc # "idle"
    BY <1>2, PcSets DEF IInv, PlaceInv
  <2>3. task[t].op = "prepare"
    BY <1>2, <2>1, <2>2, PcSets, Sets DEF Placed
  <2>4. \A u \in Tasks \ {t} : task[u].pc = "idle"
    BY <2>1, <2>2 DEF IInv, PlaceInv
  <2> QED
    BY <1>2, <2>1, <2>3, <2>4, Places DEF IInv, PlaceInv, PlaceFacts
<1>5. \A u \in Tasks : ~Storing(u)' /\ ~Issuing(u)' /\ ~Migrating(u)'
  BY <1>3, <1>4, PcSets DEF Moves, Storing, Issuing, Migrating
<1>6. ~InStorage("loader")' /\ ~Reading'
  BY <1>3, <1>4, PcSets, Sets DEF Moves, InStorage, Reading
<1>7. Placed(t, task'[t].op, task'[t].pc)
  BY <1>3, <1>4 DEF Placed
<1>8. PlaceInv'
  BY <1>2, <1>3, <1>4, <1>7, PlaceStep, PcSets DEF IInv
<1>9. Calm /\ SameMet
  BY <1>2, <1>5, <1>6, Sets DEF Calm, SameStores, SlowKept, SameMet
<1>10. /\ legacy' \in Material
       /\ Whole(legacy') => legacy' = legacy
  <2>1. legacy \in Material /\ None \in None .. MaxCerts /\ None \in None .. Foreign
    BY SlotsAssumption DEF IInv, TypeInv, None, Foreign
  <2>2. ASSUME legacy' = [legacy EXCEPT !.key = None]
        PROVE  legacy' \in Material /\ ~Whole(legacy')
    BY <2>1, <2>2 DEF Material, Whole
  <2>3. ASSUME legacy' = [legacy EXCEPT !.pem = None]
        PROVE  legacy' \in Material /\ ~Whole(legacy')
    BY <2>1, <2>3 DEF Material, Whole
  <2>4. ASSUME legacy' = [legacy EXCEPT !.host = FALSE]
        PROVE  legacy' \in Material /\ ~Whole(legacy')
    BY <2>1, <2>4 DEF Material, Whole
  <2> QED
    BY <2>1, <2>2, <2>3, <2>4 DEF Retire
<1>11. TypeInv'
  BY <1>2, <1>3, <1>10 DEF IInv, TypeInv, Moves
<1>12. LegacyInv'
  BY <1>2, <1>4, <1>10 DEF IInv, LegacyInv
<1>13. StoreInv' /\ MigrateInv'
  BY <1>5, Sets DEF StoreInv, MigrateInv, Storing, Issuing, Migrating
<1>14. CertInv' /\ MetInv'
  BY <1>8, <1>9, CalmCert, CalmMet DEF IInv
<1>15. SelectorInv' /\ WriteInv' /\ PairInv' /\ TargetIsSpare'
  BY <1>8, <1>9, CalmWrite DEF IInv
<1> QED
  BY <1>2, <1>6, <1>8, <1>11, <1>12, <1>13, <1>14, <1>15 DEF IInv, LoadInv, Reading, LoadedWhole

LEMMA FailKeeps ==
    ASSUME IInv, NEW t \in Tasks, AbandonTransaction(t) \/ Fail(t)
    PROVE  IInv'
<1>1. UNCHANGED <<slot, legacy, selector, issued>> /\ LoadedWhole' /\ task' = Ended(t)
  BY DEF AbandonTransaction, Fail, IInv, LoadedWhole
<1>2. task[t].pc # "idle"
  BY DEF AbandonTransaction, Fail, InStorage
<1> QED
  BY <1>1, <1>2, EndKeeps

\* A load that may still trust what it reads has met one store at most.
LEMMA EarlyMeets ==
    ASSUME IInv, NEW t \in Writers, Early(t), InStorage("loader"), task["loader"].met < 2
    PROVE  task[t].met = 1 /\ task["loader"].met = 1
<1>1. Storing(t)
  BY Places, Sets DEF IInv, PlaceFacts, Writing
<1> QED
  BY <1>1 DEF IInv, MetInv

LEMMA ReopenKeeps ==
    ASSUME IInv, NEW t \in Tasks, task[t].pc = "reopen", selector # NoSelector,
           NEW s \in Slots, Whole(slot[s]),
           s = selector \/ (s = Other(selector) /\ ~Whole(slot[selector])),
           task' = [task EXCEPT ![t].pc = "read_key", ![t].target = s],
           UNCHANGED <<slot, legacy, selector, issued, loaded>>
    PROVE  IInv'
<1>1. t = "loader" /\ task[t].op = "load"
  BY Places DEF IInv, PlaceFacts
<1>5. "read_key" \in Pcs
  BY PcSets
<1>6. /\ Moves(t) /\ task'[t].op = task[t].op /\ task'[t].pc = "read_key"
      /\ task'[t].target = s /\ task'[t].cert = task[t].cert /\ task'[t].met = task[t].met
  <2>1. TypeInv
    BY DEF IInv
  <2> QED
    BY <1>5, <2>1, TargetMoves
<1>7. Placed(t, task'[t].op, task'[t].pc)
  BY <1>1, <1>6, PcSets DEF Placed
<1>8. InStorage("loader") /\ SameMet
  BY <1>1, <1>6 DEF SameMet, InStorage
<1>9. ~Issuing(t)' /\ ~Migrating(t)' /\ task'[t].pc \notin RetirePcs /\ task'[t].op # "store"
  BY <1>1, <1>6, PcSets DEF Issuing, Migrating
<1>10. /\ TypeInv' /\ PlaceInv' /\ LegacyInv' /\ StoreInv' /\ MigrateInv' /\ SelectorInv'
       /\ CertInv' /\ MetInv' /\ WriteInv' /\ PairInv' /\ TargetIsSpare'
  BY <1>6, <1>7, <1>8, <1>9, CalmAction
<1>11. \A u \in Writers : task'[u].pc = task[u].pc /\ task'[u].op = task[u].op
                          /\ task'[u].target = task[u].target
  BY <1>1, <1>6, Sets DEF Moves
<1>12. ASSUME task["loader"].met < 2, NEW u \in Writers, Early(u) PROVE task[u].target # s
  <2>1. task[u].met = 1
    BY <1>8, <1>12, EarlyMeets
  <2>2. ~(selector = task[u].target /\ Whole(slot[selector]))
    BY <1>12, <2>1 DEF IInv, WriteInv, Writing
  <2>3. Whole(slot[Other(task[u].target)])
    BY <1>12 DEF IInv, TargetIsSpare, Early, EarlyPcs
  <2> QED
    BY <2>2, <2>3, Sets DEF IInv, TypeInv
<1>13. ~(selector = Other(s) /\ Whole(slot[Other(s)]))
  BY Sets DEF IInv, TypeInv
<1>14. LoadInv'
  <2>1. task'["loader"].target = s /\ task'["loader"].pc = "read_key"
        /\ task'["loader"].met = task["loader"].met
    BY <1>1, <1>6
  <2>2. slot' = slot /\ selector' = selector
    OBVIOUS
  <2>3. task["loader"].met < 2 => \A u \in Writers : Early(u)' => task'[u].target # s
    BY <1>11, <1>12 DEF Early
  <2>4. Whole(slot[s])' /\ Whole(slot[Other(s)])' = Whole(slot[Other(s)])
    BY <2>2 DEF Whole
  <2> QED
    BY <1>13, <2>1, <2>2, <2>3, <2>4 DEF LoadInv, Whole
<1>15. LoadedWhole'
  BY DEF IInv, LoadedWhole
<1> QED
  BY <1>10, <1>14, <1>15 DEF IInv

LEMMA ReadKeyKeeps ==
    ASSUME IInv, NEW t \in Tasks, task[t].pc = "read_key",
           task' = [task EXCEPT ![t].pc = "read_pem", ![t].cert = slot[task[t].target].key],
           UNCHANGED <<slot, legacy, selector, issued, loaded>>
    PROVE  IInv'
<1>1. t = "loader" /\ task[t].op = "load" /\ Reading
  BY Places, PcSets DEF IInv, PlaceFacts, Reading
<1>2. slot[task[t].target].key \in None .. MaxCerts /\ "read_pem" \in Pcs
  BY PcSets DEF IInv, TypeInv, Record, Material
<1>3. /\ Moves(t) /\ task'[t].op = task[t].op /\ task'[t].pc = "read_pem"
      /\ task'[t].target = task[t].target /\ task'[t].cert = slot[task[t].target].key
      /\ task'[t].met = task[t].met
  BY <1>2, CertMoves DEF IInv
<1>4. Placed(t, task'[t].op, task'[t].pc)
  BY <1>1, <1>3, PcSets DEF Placed
<1>5. SameMet
  BY <1>1, <1>3 DEF SameMet, InStorage
<1>6. ~Issuing(t)' /\ ~Migrating(t)' /\ task'[t].pc \notin RetirePcs /\ task'[t].op # "store"
  BY <1>1, <1>3, PcSets DEF Issuing, Migrating
<1>7. /\ TypeInv' /\ PlaceInv' /\ LegacyInv' /\ StoreInv' /\ MigrateInv' /\ SelectorInv'
      /\ CertInv' /\ MetInv' /\ WriteInv' /\ PairInv' /\ TargetIsSpare'
  BY <1>3, <1>4, <1>5, <1>6, CalmAction
<1>8. \A u \in Writers : task'[u].pc = task[u].pc /\ task'[u].op = task[u].op
                         /\ task'[u].target = task[u].target
  BY <1>1, <1>3, Sets DEF Moves
<1>9. LoadInv'
  <2>1. /\ task'["loader"].target = task["loader"].target
        /\ task'["loader"].cert = slot[task["loader"].target].key
        /\ task'["loader"].met = task["loader"].met
    BY <1>1, <1>3
  <2>2. slot' = slot /\ selector' = selector
    OBVIOUS
  <2>3. \A u \in Writers : (Early(u)' <=> Early(u)) /\ (Waiting(u)' <=> Waiting(u))
    BY <1>8 DEF Early, Waiting, Storing
  <2> QED
    BY <1>1, <1>8, <2>1, <2>2, <2>3 DEF IInv, LoadInv
<1>10. LoadedWhole'
  BY DEF IInv, LoadedWhole
<1> QED
  BY <1>7, <1>9, <1>10 DEF IInv

LEMMA ReadKeeps ==
    ASSUME IInv, NEW t \in Tasks, ReadCredential(t)
    PROVE  IInv'
<1>1. UNCHANGED <<slot, legacy, selector, issued>>
  BY DEF ReadCredential
<1>2. CASE task[t].pc = "reopen" /\ Candidates # {}
  <2>1. PICK s : s = CHOOSE c \in Candidates : TRUE
    OBVIOUS
  <2>2. selector # NoSelector
    BY <1>2 DEF Candidates
  <2>3. /\ s \in Slots /\ Whole(slot[s])
        /\ s = selector \/ (s = Other(selector) /\ ~Whole(slot[selector]))
    BY <1>2, <2>1, <2>2, Chosen DEF IInv
  <2>4. /\ task' = [task EXCEPT ![t].pc = "read_key", ![t].target = s]
        /\ UNCHANGED <<slot, legacy, selector, issued, loaded>>
    BY <1>2, <2>1 DEF ReadCredential
  <2> QED
    BY <1>2, <2>2, <2>3, <2>4, ReopenKeeps
<1>3. CASE task[t].pc = "reopen" /\ Candidates = {}
  <2>1. task' = Ended(t) /\ LoadedWhole'
    BY <1>3 DEF ReadCredential, IInv, LoadedWhole
  <2> QED
    BY <1>1, <1>3, <2>1, EndKeeps
<1>4. CASE task[t].pc = "read_key"
  BY <1>4, ReadKeyKeeps DEF ReadCredential
<1>5. CASE task[t].pc = "read_pem"
  <2>1. /\ loaded' = [key |-> task[t].cert, pem |-> slot[task[t].target].pem, met |-> task[t].met]
        /\ task' = Ended(t)
    BY <1>5 DEF ReadCredential
  <2>2. t = "loader" /\ Reading
    BY <1>5, Places, PcSets DEF IInv, PlaceFacts, Reading
  <2>3. LoadedWhole'
    BY <1>5, <2>1, <2>2 DEF IInv, LoadInv, LoadedWhole, Whole
  <2> QED
    BY <1>1, <1>5, <2>1, <2>3, EndKeeps
<1> QED
  BY <1>2, <1>3, <1>4, <1>5 DEF ReadCredential

-------------------------------------------------------------------------------
(* A transaction stores its certificate. *)

LEMMA StoreKeeps ==
    ASSUME IInv, NEW t \in Writers, Store(t)
    PROVE  IInv'
<1>1. /\ issued + 1 \in 1 .. MaxCerts /\ task' \in [Tasks -> Record]
      /\ task'[t].op = "store" /\ task'[t].pc = "resolve" /\ task'[t].cert = issued + 1
      /\ task'[t].met = Seen(StoresMet)
      /\ \A u \in Tasks \ {t} :
           /\ task'[u].op = task[u].op /\ task'[u].pc = task[u].pc
           /\ task'[u].target = task[u].target /\ task'[u].cert = task[u].cert
           /\ task'[u].slow = task[u].slow
           /\ task'[u].met = IF InStorage(u) THEN Seen(task[u].met) ELSE task[u].met
  BY StoreMoves DEF IInv
<1>2. /\ task[t].pc = "issuing" /\ task[t].slow = {} /\ issued' = issued + 1
      /\ UNCHANGED <<slot, legacy, selector, loaded>> /\ t \in Tasks
  BY Sets DEF Store
<1>3. StoresMet \in 0 .. 2 /\ task'[t].met \in 1 .. 2
  BY <1>1, StoresMetType, SeenType DEF IInv
<1>4. ~Storing(t) /\ Issuing(t)
  BY <1>2, Places DEF IInv, PlaceFacts, Issuing
<1>5. \A u \in Writers \ {t} :
        /\ (Storing(u)' <=> Storing(u)) /\ (Writing(u)' <=> Writing(u))
        /\ (Early(u)' <=> Early(u)) /\ (Late(u)' <=> Late(u)) /\ (Waiting(u)' <=> Waiting(u))
        /\ (Issuing(u)' <=> Issuing(u))
  BY <1>1, Sets DEF Storing, Writing, Early, Late, Waiting, Issuing
<1>6. ~Writing(t)' /\ ~Early(t)' /\ ~Late(t)' /\ Storing(t)' /\ ~Issuing(t)' /\ ~Migrating(t)'
  BY <1>1, PcSets DEF Storing, Writing, Early, Late, Issuing, Migrating
<1>7. \A u \in Writers \ {t} : Storing(u) => task'[u].met = 2 /\ StoresMet \in 1 .. 2
  <2>1. SUFFICES ASSUME NEW u \in Writers \ {t}, Storing(u)
                 PROVE  task'[u].met = 2 /\ StoresMet \in 1 .. 2
    OBVIOUS
  <2>2. task[u].met \in {1, 2} /\ StoresMet \in {task[u].met, 2}
    BY <2>1, StoresMetFacts DEF IInv, MetInv
  <2>3. InStorage(u) /\ u \in Tasks
    BY <2>1, Places, Sets DEF IInv, PlaceFacts
  <2> QED
    BY <1>1, <2>2, <2>3, SeenType
<1>8. TypeInv'
  BY <1>1, <1>2 DEF IInv, TypeInv
<1>9. PlaceInv'
  <2>1. Placed(t, task'[t].op, task'[t].pc)
    BY <1>1 DEF Placed
  <2>2. \A u \in Tasks : Placed(u, task'[u].op, task'[u].pc)
    BY <1>1, <2>1 DEF IInv, PlaceInv
  <2>3. task["main"].pc = "idle" /\ t # "main"
    BY <1>2, Sets DEF IInv, PlaceInv
  <2>4. task'["main"].pc = "idle"
    BY <1>1, <2>3, Sets
  <2> QED
    BY <2>2, <2>4, PcSets DEF PlaceInv, Placed
<1>10. LegacyInv' /\ SelectorInv'
  BY <1>2 DEF IInv, LegacyInv, SelectorInv, Whole
<1>11. StoreInv'
  BY <1>2, <1>4, <1>5 DEF IInv, StoreInv, Missing, Storing, Issuing
<1>12. \A m \in Tasks : ~Migrating(m)'
  <2>1. \A m \in Tasks : ~Migrating(m)
    BY <1>2, <1>4 DEF IInv, MigrateInv
  <2> QED
    BY <1>1, <1>6, <2>1 DEF Migrating
<1>13. MigrateInv'
  BY <1>12 DEF MigrateInv, Migrating
<1>14. CertInv'
  <2>1. /\ \A s \in Slots : slot[s].key <= issued /\ slot[s].pem <= issued
        /\ issued \in Nat /\ issued >= 1
        /\ \A s \in Slots : slot[s].key \in Nat /\ slot[s].pem \in Nat
    BY DEF IInv, CertInv, TypeInv, Material, None, Foreign
  <2>2. \A s \in Slots : /\ slot'[s].key <= issued' /\ slot'[s].pem <= issued'
                         /\ slot'[s].key # task'[t].cert /\ slot'[s].pem # task'[t].cert
    BY <1>1, <1>2, <2>1
  <2>3. task'[t].cert \in 2 .. issued'
    BY <1>1, <1>2, <2>1
  <2>4. ASSUME NEW u \in Writers \ {t}, Storing(u)'
        PROVE  /\ task'[u].cert = task[u].cert /\ task[u].cert \in 2 .. issued
               /\ task'[u].cert # task'[t].cert /\ task'[u].cert \in 2 .. issued'
    <3>1. task'[u].cert = task[u].cert /\ Storing(u)
      BY <1>1, <1>5, <2>4, Sets
    <3>2. task[u].cert \in 2 .. issued
      BY <3>1 DEF IInv, CertInv
    <3> QED
      BY <1>1, <1>2, <2>1, <3>1, <3>2
  <2>5. \A u, v \in Writers : Storing(u)' /\ Storing(v)' /\ u # v => task'[u].cert # task'[v].cert
    BY <1>5, <2>4 DEF IInv, CertInv
  <2>6. ASSUME NEW u \in Writers, Storing(u)', NEW s \in Slots
        PROVE  /\ slot'[s].key = task'[u].cert
                  => Writing(u)' /\ s = task'[u].target /\ task'[u].pc # "write_key"
               /\ slot'[s].pem = task'[u].cert => Late(u)' /\ s = task'[u].target
    <3>1. CASE u = t
      BY <2>2, <3>1
    <3>2. CASE u # t
      BY <1>1, <1>2, <1>5, <2>4, <2>6, <3>2, Sets DEF IInv, CertInv
    <3> QED
      BY <3>1, <3>2
  <2>7. \A u \in Writers : Storing(u)' => task'[u].cert \in 2 .. issued'
    BY <2>3, <2>4
  <2>8. \A u \in Writers : Storing(u)' =>
          \A v \in Writers \ {u} : Storing(v)' => task'[v].cert # task'[u].cert
    BY <2>5
  <2>9. \A s \in Slots : slot'[s].key <= issued' /\ slot'[s].pem <= issued'
    BY <2>2
  <2>10. \A u \in Writers : Storing(u)' => \A s \in Slots :
           /\ slot'[s].key = task'[u].cert
              => Writing(u)' /\ s = task'[u].target /\ task'[u].pc # "write_key"
           /\ slot'[s].pem = task'[u].cert => Late(u)' /\ s = task'[u].target
    BY <2>6
  <2> QED
    BY <2>7, <2>8, <2>9, <2>10, Zenon DEF CertInv
<1>15. MetInv'
  <2>2. ASSUME NEW u \in Writers \ {t}, Storing(u)' PROVE task'[u].met = 2 /\ task'[t].met = 2
    BY <1>1, <1>3, <1>5, <1>7, <2>2, SeenType
  <2>3. ASSUME InStorage("loader")' PROVE task'["loader"].met \in {task'[t].met, 2}
    <3>1. task'["loader"].met = Seen(task["loader"].met)
      BY <1>1, <2>3, Sets DEF InStorage
    <3>2. task["loader"].met \in 0 .. 2
      BY Sets DEF IInv, TypeInv, Record
    <3>3. task'["loader"].met \in 1 .. 2
      BY <3>1, <3>2, SeenType
    <3>4. CASE task'[t].met = 1
      BY <3>3, <3>4
    <3>5. CASE task'[t].met = 2
      <4>1. StoresMet # 0
        <5>1. Seen(StoresMet) = 2
          BY <1>1, <3>5
        <5>2. Seen(0) = 1
          BY DEF Seen
        <5> QED
          BY <5>1, <5>2
      <4>2. PICK u \in Writers : Storing(u)
        BY <4>1 DEF StoresMet, Contended
      <4>3. task["loader"].met \in {task[u].met, 2} /\ task[u].met \in {1, 2}
        BY <1>1, <2>3, <4>2, Sets DEF IInv, MetInv, InStorage
      <4> QED
        BY <3>1, <4>3, SeenType
    <3> QED
      BY <1>3, <3>4, <3>5
  <2>4. ASSUME NEW u \in Writers \ {t}, Storing(u)', InStorage("loader")'
        PROVE  task'["loader"].met = 2
    BY <2>2, <2>3, <2>4
  <2> QED
    BY <1>1, <1>2, <1>3, <2>2, <2>3, <2>4 DEF MetInv, Storing, InStorage
<1>16. \A u \in Writers : Writing(u)' =>
         /\ u # t /\ Writing(u) /\ Storing(u) /\ task'[u].met = 2
         /\ task'[u].pc = task[u].pc /\ task'[u].target = task[u].target
  BY <1>1, <1>5, <1>6, <1>7, Places, Sets DEF IInv, PlaceFacts
<1>17. WriteInv'
  BY <1>2, <1>5, <1>16 DEF IInv, WriteInv, Writing, Early, Late, Whole
<1>18. PairInv'
  <2> SUFFICES ASSUME NEW u \in Writers, NEW v \in Writers, u # v, Writing(u)', selector' # NoSelector
               PROVE  /\ Writing(v)' /\ task'[v].target # task'[u].target
                         => \/ Late(u)' /\ Whole(slot'[task'[u].target])
                            \/ Late(v)' /\ Whole(slot'[task'[v].target])
                      /\ Early(u)' /\ (Waiting(v)' \/ (Issuing(v)' /\ u \notin task'[v].slow))
                         => ~(selector' = task'[u].target /\ Whole(slot'[selector']))
    BY DEF PairInv, Writing, Early, Late, Waiting, Issuing, Storing, Whole
  <2>1. /\ u # t /\ Writing(u) /\ (Early(u)' <=> Early(u)) /\ (Late(u)' <=> Late(u))
        /\ task'[u].target = task[u].target
    BY <1>5, <1>16
  <2>2. Writing(v)' => /\ Writing(v) /\ (Late(v)' <=> Late(v))
                       /\ task'[v].target = task[v].target
    BY <1>5, <1>16
  <2>3. Waiting(v)' \/ (Issuing(v)' /\ u \notin task'[v].slow)
        => Waiting(v) \/ (Issuing(v) /\ u \notin task[v].slow)
    BY <1>1, <1>2, <1>4, <1>5, <1>6, Sets
  <2> QED
    BY <1>2, <2>1, <2>2, <2>3 DEF IInv, PairInv
<1>19. LoadInv'
  <2> SUFFICES ASSUME Reading' PROVE LoadInv'
    BY DEF LoadInv, Reading
  <2>1. /\ task'["loader"].pc = task["loader"].pc /\ task'["loader"].cert = task["loader"].cert
        /\ task'["loader"].target = task["loader"].target
        /\ task'["loader"].met = IF InStorage("loader") THEN Seen(task["loader"].met)
                                 ELSE task["loader"].met
    BY <1>1, Sets
  <2>2. Reading /\ InStorage("loader")
    BY <2>1, PcSets DEF Reading, InStorage
  <2>3. task["loader"].met \in 0 .. 2
    BY Sets DEF IInv, TypeInv, Record
  <2>4. task'["loader"].met < 2 => task["loader"].met = 0 /\ task'["loader"].met # 0
    BY <2>1, <2>2, <2>3, SeenType
  <2>5. \A u \in Writers : Early(u)' => Early(u) /\ task'[u].target = task[u].target
    BY <1>5, <1>16 DEF Writing
  <2> QED
    BY <1>2, <2>1, <2>2, <2>4, <2>5 DEF IInv, LoadInv, Whole
<1>20. TargetIsSpare'
  BY <1>2, <1>6, <1>16 DEF IInv, TargetIsSpare, Writing, Early, Late, EarlyPcs, LatePcs, Whole
<1>21. LoadedWhole'
  BY <1>2 DEF IInv, LoadedWhole
<1> QED
  BY <1>8, <1>9, <1>10, <1>11, <1>13, <1>14, <1>15, <1>17, <1>18, <1>19, <1>20, <1>21 DEF IInv

-------------------------------------------------------------------------------
(* The steps of a store. *)

\* While a store runs, nothing is migrated, and before there is a selector it
\* is the only one.
LEMMA WhileStoring ==
    ASSUME IInv, NEW t \in Writers, Storing(t)
    PROVE  /\ \A m \in Tasks : ~Migrating(m)
           /\ selector = NoSelector => Missing(legacy) /\ ~Whole(legacy)
           /\ selector = NoSelector => \A u \in Writers : Storing(u) => u = t
           /\ task[t].met \in {1, 2}
           /\ \A u \in Writers \ {t} : Storing(u) => task[t].met = 2 /\ task[u].met = 2
           /\ t \in Tasks /\ t # "main" /\ t # "loader" /\ InStorage(t) /\ ~Issuing(t)
           /\ slot \in [Slots -> Material]
<1>1. \A m \in Tasks : ~Migrating(m)
  BY DEF IInv, MigrateInv
<1>2. selector = NoSelector => Missing(legacy) /\ ~Whole(legacy)
  BY WholeIsThere DEF IInv, StoreInv, TypeInv
<1>3. selector = NoSelector => \A u \in Writers : Storing(u) => u = t
  BY DEF IInv, StoreInv
<1>4. task[t].met \in {1, 2} /\ \A u \in Writers \ {t} : Storing(u) => task[t].met = 2
  BY DEF IInv, MetInv
<1>5. \A u \in Writers \ {t} : Storing(u) => task[u].met = 2
  BY DEF IInv, MetInv
<1>6. t \in Tasks /\ t # "main" /\ t # "loader" /\ InStorage(t) /\ ~Issuing(t)
  BY Places, Sets DEF IInv, PlaceFacts
<1> QED
  BY <1>1, <1>2, <1>3, <1>4, <1>5, <1>6 DEF IInv, TypeInv

\* The other tasks during a step of a store, whatever becomes of it.
OthersStay(t) ==
    /\ \A u \in Tasks \ {t} :
        /\ (Storing(u)' <=> Storing(u)) /\ (Writing(u)' <=> Writing(u))
        /\ (Early(u)' <=> Early(u)) /\ (Late(u)' <=> Late(u)) /\ (Waiting(u)' <=> Waiting(u))
        /\ (Issuing(u)' <=> Issuing(u)) /\ (Migrating(u)' <=> Migrating(u))
        /\ task'[u].pc = task[u].pc /\ task'[u].target = task[u].target
        /\ task'[u].cert = task[u].cert /\ task'[u].met = task[u].met
    /\ \A u \in Tasks \ {t} : t \notin task'[u].slow /\ task'[t].pc # "idle" => t \notin task[u].slow
    /\ \A u, v \in Tasks \ {t} : v \notin task'[u].slow => v \notin task[u].slow
    /\ t # "loader" => (Reading' <=> Reading) /\ (InStorage("loader")' <=> InStorage("loader"))

LEMMA OthersStayThere ==
    ASSUME NEW t \in Tasks, Moves(t)
    PROVE  OthersStay(t)
<1>1. \A u \in Tasks \ {t} :
        /\ task'[u].pc = task[u].pc /\ task'[u].op = task[u].op /\ task'[u].target = task[u].target
        /\ task'[u].cert = task[u].cert /\ task'[u].met = task[u].met
  BY DEF Moves
<1>2. \A u \in Tasks \ {t} :
        /\ (Storing(u)' <=> Storing(u)) /\ (Writing(u)' <=> Writing(u))
        /\ (Early(u)' <=> Early(u)) /\ (Late(u)' <=> Late(u)) /\ (Waiting(u)' <=> Waiting(u))
        /\ (Issuing(u)' <=> Issuing(u)) /\ (Migrating(u)' <=> Migrating(u))
  BY <1>1 DEF Storing, Writing, Early, Late, Waiting, Issuing, Migrating
<1>3. \A u \in Tasks \ {t} : t \notin task'[u].slow /\ task'[t].pc # "idle" => t \notin task[u].slow
  BY DEF Moves
<1>4. \A u, v \in Tasks \ {t} : v \notin task'[u].slow => v \notin task[u].slow
  BY DEF Moves
<1>5. t # "loader" => (Reading' <=> Reading) /\ (InStorage("loader")' <=> InStorage("loader"))
  BY <1>1, Sets DEF Reading, InStorage
<1> QED
  BY <1>1, <1>2, <1>3, <1>4, <1>5 DEF OthersStay

\* What a step of a store keeps whatever it writes.
LEMMA StoringStep ==
    ASSUME IInv, NEW t \in Writers, Storing(t), Moves(t), Storing(t)' \/ ToEnd(t),
           Placed(t, task'[t].op, task'[t].pc),
           Storing(t)' => task'[t].cert = task[t].cert /\ task'[t].met = task[t].met,
           UNCHANGED <<legacy, issued, loaded>>, selector # NoSelector => selector' # NoSelector
    PROVE  /\ PlaceInv' /\ StoreInv' /\ MigrateInv' /\ MetInv' /\ LoadedWhole'
           /\ (selector = NoSelector => ~Whole(legacy'))
           /\ ~Issuing(t)' /\ \A u \in Tasks : ~Migrating(u)'
<1>0. t \in Tasks /\ task[t].pc # "idle" /\ t # "main" /\ t # "loader"
  BY WhileStoring DEF InStorage
<1>1. PlaceInv'
  BY <1>0, PlaceStep DEF IInv
<1>2. OthersStay(t)
  BY <1>0, OthersStayThere
<1>3. ~Issuing(t)' /\ ~Migrating(t)'
  BY <1>0, PcSets DEF ToEnd, Placed, Storing, Issuing, Migrating
<1>4. \A u \in Tasks : ~Migrating(u)'
  BY <1>2, <1>3, WhileStoring DEF OthersStay
<1>5. MigrateInv'
  BY <1>4 DEF MigrateInv, Migrating
<1>6. StoreInv'
  <2>1. ASSUME NEW u \in Writers, Storing(u)' \/ Issuing(u)'
        PROVE  Storing(u) \/ Issuing(u)
    BY <1>2, <1>3, <2>1, Sets DEF OthersStay
  <2>2. Missing(legacy') = Missing(legacy)
    OBVIOUS
  <2> QED
    BY <2>1, <2>2 DEF IInv, StoreInv, Storing, Issuing, Missing
<1>7. MetInv'
  <2>1. ASSUME NEW u \in Writers, Storing(u)'
        PROVE  Storing(u) /\ task'[u].met = task[u].met /\ task'[u].cert = task[u].cert
    BY <1>2, <2>1, Sets DEF OthersStay
  <2>2. (InStorage("loader")' <=> InStorage("loader"))
        /\ task'["loader"].met = task["loader"].met
    BY <1>0, <1>2, Sets DEF OthersStay
  <2> QED
    BY <2>1, <2>2, Zenon DEF IInv, MetInv
<1>8. LoadedWhole'
  BY DEF IInv, LoadedWhole
<1>9. selector = NoSelector => ~Whole(legacy')
  BY WhileStoring
<1> QED
  BY <1>1, <1>3, <1>4, <1>5, <1>6, <1>7, <1>8, <1>9

\* The store has found the slot it may write: the spare one.
LEMMA ResolveStoreKeeps ==
    ASSUME IInv, NEW t \in Tasks, Resolve(t), Storing(t)
    PROVE  IInv'
<1>1. /\ UNCHANGED <<slot, legacy, selector, issued, loaded>>
      /\ task[t].pc = "resolve" /\ Moves(t) /\ (ToWriting(t) \/ ToEnd(t))
  <2>1. t \in Writers
    BY Places DEF IInv, PlaceFacts
  <2>2. ~ToMigrate(t)
    BY <2>1, WhileStoring DEF ToMigrate
  <2> QED
    BY <2>2, ResolveMoves DEF IInv, ToIssuing, ToReopen, ToRetire, Storing
<1>2. CASE ToEnd(t)
  <2>1. LoadedWhole' /\ task[t].pc # "idle"
    BY <1>1 DEF IInv, LoadedWhole
  <2> QED
    BY <1>1, <1>2, <2>1, EndStepKeeps
<1> SUFFICES ASSUME ToWriting(t) PROVE IInv'
  BY <1>1, <1>2
<1>3. t \in Writers
  BY Places DEF IInv, PlaceFacts
<1> DEFINE d == task'[t].target
<1>4. /\ Storing(t)' /\ task'[t].pc = "write_key" /\ task'[t].cert = task[t].cert
      /\ task'[t].met = task[t].met /\ (selector = NoSelector => d = 0)
  BY DEF ToWriting
<1>5. Placed(t, task'[t].op, task'[t].pc)
  BY <1>3, <1>4, PcSets DEF Placed, Storing
<1>6. /\ PlaceInv' /\ StoreInv' /\ MigrateInv' /\ MetInv' /\ LoadedWhole'
      /\ ~Issuing(t)' /\ \A u \in Tasks : ~Migrating(u)'
  BY <1>1, <1>3, <1>4, <1>5, StoringStep
<1>7. OthersStay(t)
  BY <1>1, OthersStayThere
<1>8. Early(t)' /\ ~Late(t)' /\ Writing(t)' /\ ~Waiting(t)'
  BY <1>4, PcSets DEF Early, Late, Writing, Waiting
<1>9. Waiting(t) /\ ~Writing(t)
  BY <1>1, PcSets DEF Waiting, Writing, Early, Late
<1>10. TypeInv' /\ LegacyInv' /\ SelectorInv'
  BY <1>1 DEF IInv, TypeInv, LegacyInv, SelectorInv, Moves, Whole
<1>11. selector # NoSelector => Whole(slot[Other(d)]) /\ d \in Slots
                                /\ ~(selector = d /\ Whole(slot[selector]))
  BY Sets DEF ToWriting
<1>12. CertInv'
  <2>1. ASSUME NEW u \in Writers, Storing(u)'
        PROVE  /\ Storing(u) /\ task'[u].cert = task[u].cert
               /\ Writing(u) => Writing(u)' /\ task'[u].pc = task[u].pc
                                /\ task'[u].target = task[u].target
               /\ Late(u) => Late(u)'
    BY <1>4, <1>7, <1>9, <2>1, Sets DEF OthersStay, Writing
  <2>2. slot' = slot /\ issued' = issued
    BY <1>1
  <2>3. \A s \in Slots : slot'[s].key <= issued' /\ slot'[s].pem <= issued'
    BY <2>2 DEF IInv, CertInv
  <2>4. \A u \in Writers : Storing(u)' => task'[u].cert \in 2 .. issued'
    BY <2>1, <2>2 DEF IInv, CertInv
  <2>5. \A u \in Writers : Storing(u)' =>
          \A v \in Writers \ {u} : Storing(v)' => task'[v].cert # task'[u].cert
    BY <2>1 DEF IInv, CertInv
  <2>6. ASSUME NEW u \in Writers, Storing(u)', NEW s \in Slots
        PROVE  /\ slot'[s].key = task'[u].cert
                  => Writing(u)' /\ s = task'[u].target /\ task'[u].pc # "write_key"
               /\ slot'[s].pem = task'[u].cert => Late(u)' /\ s = task'[u].target
    <3>1. /\ slot[s].key = task[u].cert
             => Writing(u) /\ s = task[u].target /\ task[u].pc # "write_key"
          /\ slot[s].pem = task[u].cert => Late(u) /\ s = task[u].target
      BY <2>1, <2>6 DEF IInv, CertInv
    <3> QED
      BY <2>1, <2>2, <2>6, <3>1 DEF Writing
  <2> QED
    BY <2>3, <2>4, <2>5, <2>6, Zenon DEF CertInv
<1>13. WriteInv'
  <2> SUFFICES ASSUME NEW u \in Writers, Writing(u)'
               PROVE  /\ selector' = NoSelector => task'[u].target = 0
                      /\ task'[u].pc \in {"validate", "commit"} => slot'[task'[u].target].host
                      /\ selector' = NoSelector /\ task'[u].pc = "commit"
                         => Whole(slot'[task'[u].target])
                      /\ task'[u].met = 1 /\ task'[u].pc # "write_key"
                         => slot'[task'[u].target].key = task'[u].cert
                      /\ Early(u)' /\ selector' = task'[u].target /\ Whole(slot'[selector'])
                         => task'[u].met = 2
    BY DEF WriteInv, Writing, Early, Late, Whole
  <2>1. CASE u = t
    <3>1. selector = NoSelector \/ ~(selector = d /\ Whole(slot[selector]))
      BY <1>11
    <3>2. selector = NoSelector => d # selector
      BY <1>4 DEF NoSelector
    <3> QED
      BY <1>1, <1>4, <2>1, <3>1, <3>2
  <2>2. CASE u # t
    <3>1. /\ Writing(u) /\ (Early(u)' => Early(u)) /\ task'[u].pc = task[u].pc
          /\ task'[u].target = task[u].target /\ task'[u].cert = task[u].cert
          /\ task'[u].met = task[u].met
      BY <1>7, <2>2, Sets DEF OthersStay
    <3> QED
      BY <1>1, <3>1 DEF IInv, WriteInv
  <2> QED
    BY <2>1, <2>2
\* A slot with an early store in it is not the one t found whole.
<1>14. ASSUME NEW u \in Writers \ {t}, Writing(u), task[u].target # d, selector # NoSelector
       PROVE  Late(u) /\ Whole(slot[task[u].target])
  <2>1. task[u].target = Other(d) /\ Whole(slot[task[u].target])
    BY <1>11, <1>14, Sets DEF IInv, TypeInv, Record
  <2>2. ~(selector = task[u].target /\ Early(u))
    BY <1>3, <1>9, <1>14, <2>1 DEF IInv, PairInv
  <2>3. Early(u) => Whole(slot[Other(task[u].target)])
    BY <1>14 DEF IInv, TargetIsSpare, Early, EarlyPcs
  <2>4. PICK s \in Slots : /\ Whole(slot[s]) /\ d = Other(s)
                           /\ s = selector \/ (s = Other(selector) /\ ~Whole(slot[selector]))
    BY <1>14 DEF ToWriting
  <2>5. task[u].target = s /\ selector \in Slots
    BY <1>14, <2>1, <2>4, Sets DEF IInv, TypeInv
  <2>6. ~Early(u)
    BY <2>2, <2>3, <2>4, <2>5, Sets
  <2> QED
    BY <1>14, <2>1, <2>6 DEF Writing
<1>15. PairInv'
  <2> SUFFICES ASSUME NEW u \in Writers, NEW v \in Writers, u # v, Writing(u)', selector' # NoSelector
               PROVE  /\ Writing(v)' /\ task'[v].target # task'[u].target
                         => \/ Late(u)' /\ Whole(slot'[task'[u].target])
                            \/ Late(v)' /\ Whole(slot'[task'[v].target])
                      /\ Early(u)' /\ (Waiting(v)' \/ (Issuing(v)' /\ u \notin task'[v].slow))
                         => ~(selector' = task'[u].target /\ Whole(slot'[selector']))
    BY DEF PairInv, Writing, Early, Late, Waiting, Issuing, Storing, Whole
  <2>1. CASE u = t
    <3>1. v # t /\ v \in Tasks
      BY <2>1, Sets
    <3>2. Writing(v)' /\ task'[v].target # task'[u].target
            => Late(v)' /\ Whole(slot'[task'[v].target])
      BY <1>1, <1>7, <1>14, <2>1, <3>1 DEF OthersStay
    <3> QED
      BY <1>1, <1>11, <2>1, <3>2
  <2>2. CASE v = t
    <3>1. u # t /\ u \in Tasks
      BY <2>2, Sets
    <3>2. Writing(v)' /\ task'[v].target # task'[u].target
            => Late(u)' /\ Whole(slot'[task'[u].target])
      BY <1>1, <1>7, <1>14, <2>2, <3>1 DEF OthersStay
    <3> QED
      BY <1>6, <1>8, <2>2, <3>2
  <2> QED
    BY <1>3, <2>1, <2>2, Sets
<1>16. LoadInv'
  <2> SUFFICES ASSUME Reading' PROVE LoadInv'
    BY DEF LoadInv, Reading
  <2> DEFINE x == task["loader"].target
  <2>1. /\ task'["loader"].pc = task["loader"].pc /\ task'["loader"].cert = task["loader"].cert
        /\ task'["loader"].target = x /\ task'["loader"].met = task["loader"].met /\ Reading
    BY <1>3, <1>7, Sets DEF OthersStay
  <2>2. selector # NoSelector
    BY <2>1 DEF IInv, LoadInv
  <2>3. ASSUME task["loader"].met < 2 PROVE d # x
    <3>1. Whole(slot[x]) /\ ~(selector = Other(x) /\ Whole(slot[Other(x)]))
      BY <1>3, <1>9, <2>1, <2>3 DEF IInv, LoadInv
    <3>2. PICK s \in Slots : /\ Whole(slot[s]) /\ d = Other(s)
                             /\ s = selector \/ (s = Other(selector) /\ ~Whole(slot[selector]))
      BY <2>2 DEF ToWriting
    <3> QED
      BY <2>2, <3>1, <3>2, Sets DEF IInv, TypeInv
  <2>4. ASSUME task["loader"].met < 2, NEW u \in Writers, Early(u)' PROVE task'[u].target # x
    <3>1. CASE u = t
      BY <2>3, <2>4, <3>1
    <3>2. CASE u # t
      BY <1>7, <2>1, <2>4, <3>2, Sets DEF OthersStay, IInv, LoadInv
    <3> QED
      BY <3>1, <3>2
  <2>5. \A u \in Writers : Waiting(u)' => Waiting(u)
    BY <1>7, <1>8, Sets DEF OthersStay
  <2> QED
    BY <1>1, <2>1, <2>2, <2>4, <2>5 DEF IInv, LoadInv, Whole
<1>17. TargetIsSpare'
  <2>1. \A u \in Writers \ {t} : task'[u].pc = task[u].pc /\ task'[u].target = task[u].target
    BY <1>7, Sets DEF OthersStay
  <2> QED
    BY <1>1, <1>4, <1>11, <2>1 DEF IInv, TargetIsSpare, Whole
<1> QED
  BY <1>6, <1>10, <1>12, <1>13, <1>15, <1>16, <1>17 DEF IInv

KeyWritten(t) ==
    /\ task[t].pc = "write_key" /\ task'[t].pc = "write_pem"
    /\ slot'[task[t].target].key = task[t].cert
    /\ slot'[task[t].target].pem = slot[task[t].target].pem

PemWritten(t) ==
    /\ task[t].pc = "write_pem" /\ task'[t].pc = "write_host"
    /\ slot'[task[t].target].key = slot[task[t].target].key
    /\ slot'[task[t].target].pem = task[t].cert

\* The key or the chain is written: the slot may not be whole, the other one is.
LEMMA EarlyWriteKeeps ==
    ASSUME IInv, NEW t \in Writers, Storing(t), Moves(t), Storing(t)',
           KeyWritten(t) \/ PemWritten(t), slot' \in [Slots -> Material],
           slot'[Other(task[t].target)] = slot[Other(task[t].target)],
           slot'[task[t].target].host = slot[task[t].target].host,
           task'[t].target = task[t].target /\ task'[t].cert = task[t].cert
           /\ task'[t].met = task[t].met,
           UNCHANGED <<legacy, selector, issued, loaded>>
    PROVE  IInv'
<1> DEFINE s == task[t].target
           c == task[t].cert
<1>1. /\ \A m \in Tasks : ~Migrating(m)
      /\ selector = NoSelector => Missing(legacy) /\ ~Whole(legacy)
      /\ selector = NoSelector => \A u \in Writers : Storing(u) => u = t
      /\ task[t].met \in {1, 2}
      /\ \A u \in Writers \ {t} : Storing(u) => task[t].met = 2 /\ task[u].met = 2
      /\ t \in Tasks /\ t # "main" /\ t # "loader" /\ InStorage(t) /\ ~Issuing(t)
      /\ slot \in [Slots -> Material]
  BY WhileStoring
<1>2. /\ Early(t) /\ Writing(t) /\ ~Late(t) /\ Writing(t)' /\ ~Waiting(t)' /\ ~Issuing(t)'
      /\ (Early(t)' => KeyWritten(t)) /\ (Late(t)' => PemWritten(t))
  BY PcSets DEF KeyWritten, PemWritten, Early, Late, Writing, Waiting, Issuing
<1>3. Placed(t, task'[t].op, task'[t].pc)
  BY PcSets DEF KeyWritten, PemWritten, Placed, Storing
<1>4. /\ PlaceInv' /\ StoreInv' /\ MigrateInv' /\ MetInv' /\ LoadedWhole'
      /\ \A u \in Tasks : ~Migrating(u)'
  BY <1>3, StoringStep
<1>5. OthersStay(t)
  BY <1>1, OthersStayThere
<1>6. s \in Slots /\ selector \in Slots \cup {NoSelector} /\ task \in [Tasks -> Record]
  BY <1>1 DEF IInv, TypeInv, Record
<1>7. TypeInv'
  BY DEF IInv, TypeInv, Moves
<1>8. selector # NoSelector => Whole(slot[Other(s)]) /\ Whole(slot'[Other(s)])
  BY <1>2 DEF IInv, TargetIsSpare, Early, EarlyPcs
<1>9. Early(t)' => ~Whole(slot'[s])
  <2>1. slot[s].pem # c
    BY <1>2, <1>6 DEF IInv, CertInv
  <2> QED
    BY <1>2, <2>1 DEF KeyWritten, Whole
<1>10. \A r \in Slots : slot'[r].host = slot[r].host
  BY <1>6, Sets
<1>11. SelectorInv'
  BY <1>6, <1>8, <1>10, Sets DEF IInv, SelectorInv
<1>12. LegacyInv'
  BY <1>1 DEF IInv, LegacyInv
<1>13. \A u \in Writers \ {t} :
         /\ (Storing(u)' <=> Storing(u)) /\ (Writing(u)' <=> Writing(u))
         /\ (Early(u)' <=> Early(u)) /\ (Late(u)' <=> Late(u))
         /\ (Waiting(u)' <=> Waiting(u)) /\ (Issuing(u)' <=> Issuing(u))
         /\ task'[u].pc = task[u].pc /\ task'[u].target = task[u].target
         /\ task'[u].cert = task[u].cert /\ task'[u].met = task[u].met
         /\ (Writing(u) => Storing(u))
  BY <1>5, Places, Sets DEF IInv, PlaceFacts, OthersStay
<1>14. CertInv'
  <2>1. c \in 2 .. issued /\ \A u \in Writers \ {t} : Storing(u) => task[u].cert # c
    BY DEF IInv, CertInv
  <2>2. \A r \in Slots : /\ slot'[r].key = slot[r].key \/ (r = s /\ slot'[r].key = c)
                         /\ slot'[r].pem = slot[r].pem \/ (r = s /\ slot'[r].pem = c)
    BY <1>6, Sets DEF KeyWritten, PemWritten
  <2>3. \A r \in Slots : slot'[r].key <= issued' /\ slot'[r].pem <= issued'
    BY <2>1, <2>2 DEF IInv, CertInv
  <2>4. \A u \in Writers : Storing(u)' => task'[u].cert \in 2 .. issued'
    BY <1>13, <2>1 DEF IInv, CertInv
  <2>5. \A u \in Writers : Storing(u)' =>
          \A v \in Writers \ {u} : Storing(v)' => task'[v].cert # task'[u].cert
    BY <1>13 DEF IInv, CertInv
  <2>6. ASSUME NEW u \in Writers, Storing(u)', NEW r \in Slots
        PROVE  /\ slot'[r].key = task'[u].cert
                  => Writing(u)' /\ r = task'[u].target /\ task'[u].pc # "write_key"
               /\ slot'[r].pem = task'[u].cert => Late(u)' /\ r = task'[u].target
    <3>1. CASE u = t
      <4>1. slot[r].key = c => r = s /\ task[t].pc # "write_key"
        BY DEF IInv, CertInv
      <4>2. slot[r].pem # c
        BY <1>2 DEF IInv, CertInv
      <4>3. task'[t].pc # "write_key" /\ (PemWritten(t) => Late(t)')
        BY PcSets DEF KeyWritten, PemWritten, Late
      <4>4. slot'[r].pem = c => r = s /\ PemWritten(t)
        BY <2>2, <4>2 DEF KeyWritten
      <4>5. slot'[r].key = c => r = s
        BY <2>2, <4>1
      <4> QED
        BY <1>2, <3>1, <4>3, <4>4, <4>5
    <3>2. CASE u # t
      <4>1. Storing(u) /\ task[u].cert # c /\ task'[u].cert = task[u].cert
        BY <1>13, <2>1, <2>6, <3>2
      <4>2. /\ slot'[r].key = task[u].cert => slot[r].key = task[u].cert
            /\ slot'[r].pem = task[u].cert => slot[r].pem = task[u].cert
        BY <2>2, <4>1
      <4>3. /\ slot[r].key = task[u].cert
               => Writing(u) /\ r = task[u].target /\ task[u].pc # "write_key"
            /\ slot[r].pem = task[u].cert => Late(u) /\ r = task[u].target
        BY <4>1 DEF IInv, CertInv
      <4> QED
        BY <1>13, <3>2, <4>1, <4>2, <4>3
    <3> QED
      BY <3>1, <3>2
  <2> QED
    BY <2>3, <2>4, <2>5, <2>6, Zenon DEF CertInv
<1>15. WriteInv'
  <2> SUFFICES ASSUME NEW u \in Writers, Writing(u)'
               PROVE  /\ selector' = NoSelector => task'[u].target = 0
                      /\ task'[u].pc \in {"validate", "commit"} => slot'[task'[u].target].host
                      /\ selector' = NoSelector /\ task'[u].pc = "commit"
                         => Whole(slot'[task'[u].target])
                      /\ task'[u].met = 1 /\ task'[u].pc # "write_key"
                         => slot'[task'[u].target].key = task'[u].cert
                      /\ Early(u)' /\ selector' = task'[u].target /\ Whole(slot'[selector'])
                         => task'[u].met = 2
    BY DEF WriteInv, Writing, Early, Late, Whole
  <2>1. CASE u = t
    <3>1. selector = NoSelector => s = 0
      BY <1>2 DEF IInv, WriteInv
    <3>2. task'[t].pc \notin {"validate", "commit"}
      BY DEF KeyWritten, PemWritten
    <3>3. task[t].met = 1 => slot'[s].key = c
      BY <1>2 DEF IInv, WriteInv, KeyWritten, PemWritten
    <3> QED
      BY <1>9, <2>1, <3>1, <3>2, <3>3
  <2>2. CASE u # t
    <3>1. /\ Writing(u) /\ Storing(u) /\ task'[u].met = 2 /\ task'[u].pc = task[u].pc
          /\ task'[u].target = task[u].target /\ selector # NoSelector
      BY <1>1, <1>13, <2>2
    <3>2. task[u].target \in Slots /\ u \in Tasks
      BY <1>6, Sets DEF Record
    <3> QED
      BY <1>10, <3>1, <3>2 DEF IInv, WriteInv
  <2> QED
    BY <2>1, <2>2
\* The other writer is past its chain, if it writes the other slot.
<1>16. ASSUME NEW u \in Writers \ {t}, Writing(u), task[u].target # s
       PROVE  Late(u) /\ Whole(slot'[task[u].target])
  <2>1. selector # NoSelector
    BY <1>1, <1>13, <1>16
  <2>2. Late(u) /\ Whole(slot[task[u].target])
    BY <1>2, <1>16, <2>1 DEF IInv, PairInv
  <2>3. task[u].target \in Slots
    BY <1>6, Sets DEF Record
  <2>4. task[u].target = Other(s)
    BY <1>6, <1>16, <2>3, Sets
  <2> QED
    BY <2>2, <2>4
<1>17. PairInv'
  <2> SUFFICES ASSUME NEW u \in Writers, NEW v \in Writers, u # v, Writing(u)', selector' # NoSelector
               PROVE  /\ Writing(v)' /\ task'[v].target # task'[u].target
                         => \/ Late(u)' /\ Whole(slot'[task'[u].target])
                            \/ Late(v)' /\ Whole(slot'[task'[v].target])
                      /\ Early(u)' /\ (Waiting(v)' \/ (Issuing(v)' /\ u \notin task'[v].slow))
                         => ~(selector' = task'[u].target /\ Whole(slot'[selector']))
    BY DEF PairInv, Writing, Early, Late, Waiting, Issuing, Storing, Whole
  <2>1. CASE u = t
    <3>1. v \in Writers \ {t}
      BY <2>1
    <3>2. Writing(v)' /\ task'[v].target # task'[u].target
            => Late(v)' /\ Whole(slot'[task'[v].target])
      BY <1>13, <1>16, <2>1, <3>1
    <3> QED
      BY <1>9, <2>1, <3>2
  <2>2. CASE v = t
    <3>1. u \in Writers \ {t}
      BY <2>2
    <3>2. Writing(v)' /\ task'[v].target # task'[u].target
            => Late(u)' /\ Whole(slot'[task'[u].target])
      BY <1>13, <1>16, <2>2, <3>1
    <3> QED
      BY <1>2, <2>2, <3>2
  <2> QED
    BY <2>1, <2>2, Sets
<1>18. LoadInv'
  <2> SUFFICES ASSUME Reading' PROVE LoadInv'
    BY DEF LoadInv, Reading
  <2> DEFINE x == task["loader"].target
  <2>1. /\ task'["loader"].pc = task["loader"].pc /\ task'["loader"].cert = task["loader"].cert
        /\ task'["loader"].target = x /\ task'["loader"].met = task["loader"].met /\ Reading
    BY <1>1, <1>5, Sets DEF OthersStay
  <2>2. selector # NoSelector /\ InStorage("loader") /\ x \in Slots
    BY <1>6, <2>1, Places, Sets DEF IInv, LoadInv, PlaceFacts, Record
  <2>3. ASSUME task["loader"].met < 2
        PROVE  /\ Whole(slot[x]) /\ s # x /\ slot'[x] = slot[x] /\ s = Other(x)
               /\ task["loader"].pc = "read_pem" => task["loader"].cert = slot[x].key
               /\ \A u \in Writers : Early(u) => task[u].target # x
    <3>1. /\ Whole(slot[x]) /\ s # x
          /\ task["loader"].pc = "read_pem" => task["loader"].cert = slot[x].key
          /\ \A u \in Writers : Early(u) => task[u].target # x
      BY <1>2, <2>1, <2>3 DEF IInv, LoadInv
    <3>2. x = Other(s) /\ s = Other(x)
      BY <1>6, <2>2, <3>1, Sets
    <3> QED
      BY <3>1, <3>2
  <2>4. ASSUME task["loader"].met < 2, NEW u \in Writers, Early(u)' PROVE task'[u].target # x
    <3>1. CASE u = t
      BY <2>3, <2>4, <3>1
    <3>2. CASE u # t
      BY <1>13, <2>3, <2>4, <3>2
    <3> QED
      BY <3>1, <3>2
  <2>5. task["loader"].met < 2 => task["loader"].met = 1 /\ \A u \in Writers : ~Waiting(u)'
    <3>1. ASSUME task["loader"].met < 2 PROVE task["loader"].met = 1 /\ task[t].met = 1
      BY <1>2, <2>2, <3>1, EarlyMeets
    <3>2. ASSUME task[t].met = 1, NEW u \in Writers \ {t} PROVE ~Waiting(u)'
      BY <1>1, <1>13, <3>2 DEF Waiting
    <3> QED
      BY <1>2, <3>1, <3>2
  <2> QED
    BY <2>1, <2>2, <2>3, <2>4, <2>5 DEF LoadInv
<1>19. TargetIsSpare'
  <2> SUFFICES ASSUME NEW u \in Writers, Writing(u)', selector # NoSelector
               PROVE  \/ Whole(slot'[Other(task'[u].target)])
                      \/ Whole(slot'[task'[u].target]) /\ task'[u].pc \notin {"write_key", "write_pem"}
    BY DEF TargetIsSpare, Writing, Early, Late, EarlyPcs, LatePcs, Whole
  <2>1. CASE task'[u].target = s
    BY <1>8, <2>1
  <2>2. CASE task'[u].target # s
    <3>1. u # t
      BY <2>2
    <3>2. Late(u) /\ Whole(slot'[task[u].target])
      BY <1>13, <1>16, <2>2, <3>1
    <3> QED
      BY <1>13, <3>1, <3>2 DEF Late, LatePcs
  <2> QED
    BY <2>1, <2>2
<1> QED
  BY <1>4, <1>7, <1>11, <1>12, <1>14, <1>15, <1>17, <1>18, <1>19 DEF IInv

\* The hostname is written, or the slot found whole: no slot is worse for it.
LEMMA LateWriteKeeps ==
    ASSUME IInv, NEW t \in Writers, Storing(t), Moves(t), Storing(t)', Late(t),
           task'[t].pc \in {"validate", "commit"}, slot' \in [Slots -> Material],
           slot'[Other(task[t].target)] = slot[Other(task[t].target)],
           slot'[task[t].target].key = slot[task[t].target].key,
           slot'[task[t].target].pem = slot[task[t].target].pem,
           slot'[task[t].target].host,
           task'[t].pc = "commit" => Whole(slot'[task[t].target]),
           task'[t].target = task[t].target /\ task'[t].cert = task[t].cert
           /\ task'[t].met = task[t].met,
           UNCHANGED <<legacy, selector, issued, loaded>>
    PROVE  IInv'
<1> DEFINE s == task[t].target
           c == task[t].cert
<1>1. /\ \A m \in Tasks : ~Migrating(m)
      /\ selector = NoSelector => Missing(legacy) /\ ~Whole(legacy)
      /\ \A u \in Writers \ {t} : Storing(u) => task[t].met = 2 /\ task[u].met = 2
      /\ t \in Tasks /\ t # "main" /\ t # "loader" /\ InStorage(t) /\ ~Issuing(t)
      /\ slot \in [Slots -> Material]
  BY WhileStoring
<1>2. /\ ~Early(t) /\ Writing(t) /\ Late(t)' /\ ~Early(t)' /\ Writing(t)'
      /\ ~Waiting(t)' /\ ~Issuing(t)'
  BY PcSets DEF Early, Late, Writing, Waiting, Issuing
<1>3. Placed(t, task'[t].op, task'[t].pc)
  BY <1>2 DEF Placed, Storing, Late
<1>4. /\ PlaceInv' /\ StoreInv' /\ MigrateInv' /\ MetInv' /\ LoadedWhole'
      /\ \A u \in Tasks : ~Migrating(u)'
  BY <1>3, StoringStep
<1>5. OthersStay(t)
  BY <1>1, OthersStayThere
<1>6. s \in Slots /\ selector \in Slots \cup {NoSelector} /\ task \in [Tasks -> Record]
  BY <1>1 DEF IInv, TypeInv, Record
<1>7. TypeInv'
  BY DEF IInv, TypeInv, Moves
<1>8. \A r \in Slots : /\ slot'[r].key = slot[r].key /\ slot'[r].pem = slot[r].pem
                       /\ slot[r].host => slot'[r].host
                       /\ Whole(slot[r]) => Whole(slot'[r])
  BY <1>6, Sets DEF Whole
<1>9. selector # NoSelector => (Whole(slot'[selector]) <=> Whole(slot[selector]))
  BY <1>6, <1>8, Sets DEF IInv, SelectorInv, Whole
<1>10. SelectorInv'
  BY <1>6, <1>8 DEF IInv, SelectorInv
<1>11. LegacyInv'
  BY <1>1 DEF IInv, LegacyInv
<1>12. \A u \in Writers \ {t} :
         /\ (Storing(u)' <=> Storing(u)) /\ (Writing(u)' <=> Writing(u))
         /\ (Early(u)' <=> Early(u)) /\ (Late(u)' <=> Late(u))
         /\ (Waiting(u)' <=> Waiting(u)) /\ (Issuing(u)' <=> Issuing(u))
         /\ task'[u].pc = task[u].pc /\ task'[u].target = task[u].target
         /\ task'[u].cert = task[u].cert /\ task'[u].met = task[u].met
         /\ (Writing(u) => Storing(u))
  BY <1>5, Places, Sets DEF IInv, PlaceFacts, OthersStay
<1>13. \A u \in Writers :
         /\ (Storing(u)' => Storing(u)) /\ (Writing(u)' <=> Writing(u))
         /\ (Early(u)' <=> Early(u)) /\ (Late(u)' <=> Late(u))
         /\ task'[u].target = task[u].target /\ task'[u].cert = task[u].cert
         /\ task'[u].met = task[u].met /\ u \in Tasks /\ task[u].target \in Slots
         /\ (task'[u].pc = "write_key" <=> task[u].pc = "write_key")
  BY <1>2, <1>6, <1>12, PcSets, Sets DEF Record, Late
<1>14. CertInv'
  <2>1. \A r \in Slots : slot'[r].key <= issued' /\ slot'[r].pem <= issued'
    BY <1>8 DEF IInv, CertInv
  <2>2. \A u \in Writers : Storing(u)' => task'[u].cert \in 2 .. issued'
    BY <1>13 DEF IInv, CertInv
  <2>3. \A u \in Writers : Storing(u)' =>
          \A v \in Writers \ {u} : Storing(v)' => task'[v].cert # task'[u].cert
    BY <1>13 DEF IInv, CertInv
  <2>4. ASSUME NEW u \in Writers, Storing(u)', NEW r \in Slots
        PROVE  /\ slot'[r].key = task'[u].cert
                  => Writing(u)' /\ r = task'[u].target /\ task'[u].pc # "write_key"
               /\ slot'[r].pem = task'[u].cert => Late(u)' /\ r = task'[u].target
    <3>1. /\ slot[r].key = task[u].cert
             => Writing(u) /\ r = task[u].target /\ task[u].pc # "write_key"
          /\ slot[r].pem = task[u].cert => Late(u) /\ r = task[u].target
      BY <1>13, <2>4 DEF IInv, CertInv
    <3> QED
      BY <1>8, <1>13, <3>1
  <2> QED
    BY <2>1, <2>2, <2>3, <2>4, Zenon DEF CertInv
<1>15. WriteInv'
  <2> SUFFICES ASSUME NEW u \in Writers, Writing(u)'
               PROVE  /\ selector' = NoSelector => task'[u].target = 0
                      /\ task'[u].pc \in {"validate", "commit"} => slot'[task'[u].target].host
                      /\ selector' = NoSelector /\ task'[u].pc = "commit"
                         => Whole(slot'[task'[u].target])
                      /\ task'[u].met = 1 /\ task'[u].pc # "write_key"
                         => slot'[task'[u].target].key = task'[u].cert
                      /\ Early(u)' /\ selector' = task'[u].target /\ Whole(slot'[selector'])
                         => task'[u].met = 2
    BY DEF WriteInv, Writing, Early, Late, Whole
  <2>1. Writing(u) /\ (Early(u)' <=> Early(u)) /\ task'[u].target = task[u].target
        /\ task'[u].cert = task[u].cert /\ task'[u].met = task[u].met
        /\ task[u].target \in Slots /\ (task'[u].pc = "write_key" <=> task[u].pc = "write_key")
    BY <1>13
  <2>2. /\ selector' = NoSelector => task'[u].target = 0
        /\ task'[u].met = 1 /\ task'[u].pc # "write_key"
           => slot'[task'[u].target].key = task'[u].cert
    BY <1>8, <2>1 DEF IInv, WriteInv
  <2>3. task'[u].pc \in {"validate", "commit"} => slot'[task'[u].target].host
    BY <1>8, <1>12, <2>1 DEF IInv, WriteInv
  <2>4. selector' = NoSelector /\ task'[u].pc = "commit" => Whole(slot'[task'[u].target])
    BY <1>8, <1>12, <2>1 DEF IInv, WriteInv
  <2>5. Early(u)' /\ selector' = task'[u].target /\ Whole(slot'[selector']) => task'[u].met = 2
    BY <1>2, <1>12, <1>1
  <2> QED
    BY <2>2, <2>3, <2>4, <2>5
<1>16. PairInv'
  <2> SUFFICES ASSUME NEW u \in Writers, NEW v \in Writers, u # v, Writing(u)', selector' # NoSelector
               PROVE  /\ Writing(v)' /\ task'[v].target # task'[u].target
                         => \/ Late(u)' /\ Whole(slot'[task'[u].target])
                            \/ Late(v)' /\ Whole(slot'[task'[v].target])
                      /\ Early(u)' /\ (Waiting(v)' \/ (Issuing(v)' /\ u \notin task'[v].slow))
                         => ~(selector' = task'[u].target /\ Whole(slot'[selector']))
    BY DEF PairInv, Writing, Early, Late, Waiting, Issuing, Storing, Whole
  <2>1. Writing(v)' /\ task'[v].target # task'[u].target
          => \/ Late(u)' /\ Whole(slot'[task'[u].target])
             \/ Late(v)' /\ Whole(slot'[task'[v].target])
    BY <1>8, <1>13 DEF IInv, PairInv
  <2>2. Early(u)' => u # t
    BY <1>2
  <2>3. Early(u)' => ~Waiting(v)' /\ ~Issuing(v)'
    BY <1>2, <2>2, Sets
  <2> QED
    BY <2>1, <2>3
<1>17. LoadInv'
  <2> SUFFICES ASSUME Reading' PROVE LoadInv'
    BY DEF LoadInv, Reading
  <2> DEFINE x == task["loader"].target
  <2>1. /\ task'["loader"].pc = task["loader"].pc /\ task'["loader"].cert = task["loader"].cert
        /\ task'["loader"].target = x /\ task'["loader"].met = task["loader"].met /\ Reading
    BY <1>1, <1>5, Sets DEF OthersStay
  <2>2. selector # NoSelector /\ x \in Slots
    BY <1>6, <2>1, Sets DEF IInv, LoadInv, Record
  <2>3. \A u \in Writers : (Early(u)' => Early(u)) /\ task'[u].target = task[u].target
                           /\ (Waiting(u)' => Waiting(u))
    BY <1>2, <1>12, <1>13
  <2>4. selector = Other(x) => (Whole(slot'[Other(x)]) <=> Whole(slot[Other(x)]))
    BY <1>9, <2>2
  <2> QED
    BY <1>8, <2>1, <2>2, <2>3, <2>4 DEF IInv, LoadInv
<1>18. TargetIsSpare'
  <2> SUFFICES ASSUME NEW u \in Writers, Writing(u)', selector # NoSelector
               PROVE  \/ Whole(slot'[Other(task'[u].target)])
                      \/ Whole(slot'[task'[u].target]) /\ task'[u].pc \notin {"write_key", "write_pem"}
    BY DEF TargetIsSpare, Writing, Early, Late, EarlyPcs, LatePcs, Whole
  <2>1. /\ Whole(slot[Other(task[u].target)])
           \/ (Whole(slot[task[u].target]) /\ task[u].pc \notin {"write_key", "write_pem"})
        /\ task[u].target \in Slots /\ Other(task[u].target) \in Slots
    BY <1>13, Sets DEF IInv, TargetIsSpare, Writing, Early, Late, EarlyPcs, LatePcs
  <2>2. task[u].pc \notin {"write_key", "write_pem"} => task'[u].pc \notin {"write_key", "write_pem"}
    BY <1>12
  <2> QED
    BY <1>8, <1>13, <2>1, <2>2
<1> QED
  BY <1>4, <1>7, <1>10, <1>11, <1>14, <1>15, <1>16, <1>17, <1>18 DEF IInv

\* The selector moves to the slot the store has written.
LEMMA CommitKeeps ==
    ASSUME IInv, NEW t \in Writers, Storing(t), Moves(t), ToEnd(t),
           task[t].pc = "commit", selector' = task[t].target,
           UNCHANGED <<slot, legacy, issued, loaded>>
    PROVE  IInv'
<1> DEFINE s == task[t].target
<1>1. /\ \A m \in Tasks : ~Migrating(m)
      /\ selector = NoSelector => \A u \in Writers : Storing(u) => u = t
      /\ task[t].met \in {1, 2}
      /\ \A u \in Writers \ {t} : Storing(u) => task[t].met = 2 /\ task[u].met = 2
      /\ t \in Tasks /\ t # "main" /\ t # "loader" /\ InStorage(t)
      /\ slot \in [Slots -> Material]
  BY WhileStoring
<1>2. Late(t) /\ Writing(t) /\ ~Early(t)
  BY PcSets DEF Early, Late, Writing
<1>3. s \in Slots /\ s # NoSelector /\ task \in [Tasks -> Record]
  BY <1>1 DEF IInv, TypeInv, Record, Slots, NoSelector
<1>4. Placed(t, task'[t].op, task'[t].pc)
  BY DEF ToEnd, Placed
<1>5. /\ PlaceInv' /\ StoreInv' /\ MigrateInv' /\ MetInv' /\ LoadedWhole'
      /\ ~Issuing(t)' /\ \A u \in Tasks : ~Migrating(u)'
  BY <1>3, <1>4, StoringStep, PcSets DEF ToEnd, Storing
<1>6. OthersStay(t)
  BY <1>1, OthersStayThere
<1>7. ~Storing(t)' /\ ~Writing(t)' /\ ~Waiting(t)' /\ ~Early(t)' /\ ~Late(t)'
  BY PcSets DEF ToEnd, Storing, Writing, Waiting, Early, Late
<1>8. TypeInv'
  BY <1>3 DEF IInv, TypeInv, Moves
<1>9. SelectorInv'
  <2>1. slot[s].host
    BY <1>2 DEF IInv, WriteInv
  <2>2. \E r \in Slots : Whole(slot[r])
    BY <1>2, <1>3 DEF IInv, SelectorInv, WriteInv
  <2> QED
    BY <2>1, <2>2 DEF SelectorInv, Whole
<1>10. LegacyInv'
  BY <1>3 DEF IInv, LegacyInv, Whole
<1>11. \A u \in Writers : Storing(u)' \/ Writing(u)' =>
         /\ u # t /\ Storing(u) /\ (Writing(u)' <=> Writing(u))
         /\ (Early(u)' <=> Early(u)) /\ (Late(u)' <=> Late(u))
         /\ (Waiting(u)' <=> Waiting(u))
         /\ task'[u].pc = task[u].pc /\ task'[u].target = task[u].target
         /\ task'[u].cert = task[u].cert /\ task'[u].met = task[u].met
  BY <1>6, <1>7, Places, Sets DEF IInv, PlaceFacts, OthersStay
<1>12. CertInv'
  <2>1. \A r \in Slots : slot'[r].key <= issued' /\ slot'[r].pem <= issued'
    BY DEF IInv, CertInv
  <2>2. \A u \in Writers : Storing(u)' => task'[u].cert \in 2 .. issued'
    BY <1>11 DEF IInv, CertInv
  <2>3. \A u \in Writers : Storing(u)' =>
          \A v \in Writers \ {u} : Storing(v)' => task'[v].cert # task'[u].cert
    BY <1>11 DEF IInv, CertInv
  <2>4. ASSUME NEW u \in Writers, Storing(u)', NEW r \in Slots
        PROVE  /\ slot'[r].key = task'[u].cert
                  => Writing(u)' /\ r = task'[u].target /\ task'[u].pc # "write_key"
               /\ slot'[r].pem = task'[u].cert => Late(u)' /\ r = task'[u].target
    BY <1>11, <2>4 DEF IInv, CertInv
  <2> QED
    BY <2>1, <2>2, <2>3, <2>4, Zenon DEF CertInv
<1>13. \A u \in Writers : Writing(u)' => /\ Writing(u) /\ Storing(u) /\ u # t /\ task'[u].met = 2
                                         /\ selector # NoSelector
  BY <1>1, <1>11
<1>14. WriteInv'
  <2> SUFFICES ASSUME NEW u \in Writers, Writing(u)'
               PROVE  /\ task'[u].pc \in {"validate", "commit"} => slot'[task'[u].target].host
                      /\ task'[u].met = 2
    BY <1>3 DEF WriteInv, Writing, Early, Late, Whole
  <2> QED
    BY <1>11, <1>13 DEF IInv, WriteInv
<1>15. PairInv'
  <2> SUFFICES ASSUME NEW u \in Writers, NEW v \in Writers, u # v, Writing(u)'
               PROVE  ~Writing(v)' /\ ~Waiting(v)' /\ ~Issuing(v)'
    BY DEF PairInv, Writing, Early, Late, Waiting, Issuing, Storing, Whole
  <2>1. v = t
    BY <1>13, Sets
  <2> QED
    BY <1>5, <1>7, <2>1
<1>16. LoadInv'
  <2> SUFFICES ASSUME Reading' PROVE LoadInv'
    BY DEF LoadInv, Reading
  <2> DEFINE x == task["loader"].target
  <2>1. /\ task'["loader"].pc = task["loader"].pc /\ task'["loader"].cert = task["loader"].cert
        /\ task'["loader"].target = x /\ task'["loader"].met = task["loader"].met
        /\ Reading /\ InStorage("loader")
    BY <1>1, <1>6, Places, Sets DEF OthersStay, IInv, PlaceFacts
  <2>2. task["loader"].met \in {task[t].met, 2}
    BY <2>1 DEF IInv, MetInv
  <2>3. ASSUME task["loader"].met < 2 PROVE task["loader"].met # 0 /\ \A u \in Writers : ~Waiting(u)'
    <3>1. task[t].met = 1 /\ task["loader"].met = 1
      BY <1>1, <2>2, <2>3
    <3>2. ASSUME NEW u \in Writers, Waiting(u)' PROVE FALSE
      <4>1. u # t /\ Storing(u)
        BY <1>7, <1>11, <3>2 DEF Waiting
      <4> QED
        BY <1>1, <3>1, <4>1
    <3> QED
      BY <3>1, <3>2
  <2>4. \A u \in Writers : Early(u)' => Early(u) /\ task'[u].target = task[u].target
    BY <1>11 DEF Writing
  <2> QED
    BY <1>3, <2>1, <2>3, <2>4 DEF IInv, LoadInv, Whole
<1>17. TargetIsSpare'
  <2> SUFFICES ASSUME NEW u \in Writers, Writing(u)'
               PROVE  \/ Whole(slot'[Other(task'[u].target)])
                      \/ Whole(slot'[task'[u].target]) /\ task'[u].pc \notin {"write_key", "write_pem"}
    BY DEF TargetIsSpare, Writing, Early, Late, EarlyPcs, LatePcs, Whole
  <2> QED
    BY <1>11, <1>13 DEF IInv, TargetIsSpare, Writing, Early, Late, EarlyPcs, LatePcs
<1> QED
  BY <1>5, <1>8, <1>9, <1>10, <1>12, <1>14, <1>15, <1>16, <1>17 DEF IInv

LEMMA KeyWrites ==
    ASSUME TypeInv, NEW s \in Slots, NEW c \in None .. MaxCerts, WriteKey(s, c)
    PROVE  /\ slot' \in [Slots -> Material] /\ slot'[Other(s)] = slot[Other(s)]
           /\ slot'[s].key = c /\ slot'[s].pem = slot[s].pem /\ slot'[s].host = slot[s].host
<1>1. slot[s] \in Material /\ Other(s) # s /\ Other(s) \in Slots
  BY Sets DEF TypeInv
<1>2. [slot[s] EXCEPT !.key = c] \in Material
  BY <1>1 DEF Material
<1>3. slot' = [slot EXCEPT ![s] = [slot[s] EXCEPT !.key = c]]
  BY DEF WriteKey
<1> QED
  BY <1>1, <1>2, <1>3 DEF TypeInv, Material

LEMMA PemWrites ==
    ASSUME TypeInv, NEW s \in Slots, NEW c \in None .. Foreign, WritePem(s, c)
    PROVE  /\ slot' \in [Slots -> Material] /\ slot'[Other(s)] = slot[Other(s)]
           /\ slot'[s].pem = c /\ slot'[s].key = slot[s].key /\ slot'[s].host = slot[s].host
<1>1. slot[s] \in Material /\ Other(s) # s /\ Other(s) \in Slots
  BY Sets DEF TypeInv
<1>2. [slot[s] EXCEPT !.pem = c] \in Material
  BY <1>1 DEF Material
<1>3. slot' = [slot EXCEPT ![s] = [slot[s] EXCEPT !.pem = c]]
  BY DEF WritePem
<1> QED
  BY <1>1, <1>2, <1>3 DEF TypeInv, Material

LEMMA HostWrites ==
    ASSUME TypeInv, NEW s \in Slots, WriteHost(s)
    PROVE  /\ slot' \in [Slots -> Material] /\ slot'[Other(s)] = slot[Other(s)]
           /\ slot'[s].pem = slot[s].pem /\ slot'[s].key = slot[s].key /\ slot'[s].host
<1>1. slot[s] \in Material /\ Other(s) # s /\ Other(s) \in Slots
  BY Sets DEF TypeInv
<1>2. [slot[s] EXCEPT !.host = TRUE] \in Material
  BY <1>1 DEF Material
<1>3. slot' = [slot EXCEPT ![s] = [slot[s] EXCEPT !.host = TRUE]]
  BY DEF WriteHost
<1> QED
  BY <1>1, <1>2, <1>3 DEF TypeInv, Material

LEMMA WriteStoreKeeps ==
    ASSUME IInv, NEW t \in Tasks, WriteStore(t)
    PROVE  IInv'
<1> DEFINE s == task[t].target
           c == task[t].cert
<1>1. Writing(t) /\ UNCHANGED <<legacy, issued, loaded>>
  BY PcSets DEF WriteStore, Writing, Early, Late
<1>2. Storing(t) /\ t \in Writers
  BY <1>1, Places DEF IInv, PlaceFacts
<1>3. TypeInv /\ s \in Slots /\ c \in None .. MaxCerts /\ c \in None .. Foreign
  BY SlotsAssumption DEF IInv, TypeInv, Record, None, Foreign
<1>4. CASE task[t].pc = "write_key"
  <2>1. WriteKey(s, c) /\ task' = At(t, "write_pem") /\ selector' = selector /\ "write_pem" \in Pcs
    BY <1>4, PcSets DEF WriteStore
  <2>2. /\ Moves(t) /\ task'[t].op = task[t].op /\ task'[t].pc = "write_pem"
        /\ task'[t].target = s /\ task'[t].cert = c /\ task'[t].met = task[t].met
    BY <1>3, <2>1, AtMoves
  <2>3. /\ slot' \in [Slots -> Material] /\ slot'[Other(s)] = slot[Other(s)]
        /\ slot'[s].key = c /\ slot'[s].pem = slot[s].pem /\ slot'[s].host = slot[s].host
    BY <1>3, <2>1, KeyWrites
  <2>4. KeyWritten(t) /\ Storing(t)'
    BY <1>2, <1>4, <2>2, <2>3 DEF KeyWritten, Storing
  <2> QED
    BY <1>1, <1>2, <2>1, <2>2, <2>3, <2>4, EarlyWriteKeeps
<1>5. CASE task[t].pc = "write_pem"
  <2>1. WritePem(s, c) /\ task' = At(t, "write_host") /\ selector' = selector /\ "write_host" \in Pcs
    BY <1>5, PcSets DEF WriteStore
  <2>2. /\ Moves(t) /\ task'[t].op = task[t].op /\ task'[t].pc = "write_host"
        /\ task'[t].target = s /\ task'[t].cert = c /\ task'[t].met = task[t].met
    BY <1>3, <2>1, AtMoves
  <2>3. /\ slot' \in [Slots -> Material] /\ slot'[Other(s)] = slot[Other(s)]
        /\ slot'[s].pem = c /\ slot'[s].key = slot[s].key /\ slot'[s].host = slot[s].host
    BY <1>3, <2>1, PemWrites
  <2>4. PemWritten(t) /\ Storing(t)'
    BY <1>2, <1>5, <2>2, <2>3 DEF PemWritten, Storing
  <2> QED
    BY <1>1, <1>2, <2>1, <2>2, <2>3, <2>4, EarlyWriteKeeps
<1>6. CASE task[t].pc = "write_host"
  <2>1. WriteHost(s) /\ task' = At(t, "validate") /\ selector' = selector /\ "validate" \in Pcs
    BY <1>6, PcSets DEF WriteStore
  <2>2. /\ Moves(t) /\ task'[t].op = task[t].op /\ task'[t].pc = "validate"
        /\ task'[t].target = s /\ task'[t].cert = c /\ task'[t].met = task[t].met
    BY <1>3, <2>1, AtMoves
  <2>3. /\ slot' \in [Slots -> Material] /\ slot'[Other(s)] = slot[Other(s)]
        /\ slot'[s].pem = slot[s].pem /\ slot'[s].key = slot[s].key /\ slot'[s].host
    BY <1>3, <2>1, HostWrites
  <2>4. Late(t) /\ Storing(t)'
    BY <1>2, <1>6, <2>2, PcSets DEF Late, Storing
  <2> QED
    BY <1>1, <1>2, <2>1, <2>2, <2>3, <2>4, LateWriteKeeps
<1>7. CASE task[t].pc = "validate"
  <2>1. CASE ~Whole(slot[s])
    <3>1. task' = Ended(t) /\ UNCHANGED <<slot, selector>> /\ LoadedWhole'
      BY <1>1, <1>7, <2>1 DEF WriteStore, IInv, LoadedWhole
    <3> QED
      BY <1>1, <1>7, <3>1, EndKeeps
  <2>2. CASE Whole(slot[s])
    <3>1. task' = At(t, "commit") /\ UNCHANGED <<slot, selector>> /\ "commit" \in Pcs
      BY <1>7, <2>2, PcSets DEF WriteStore
    <3>2. /\ Moves(t) /\ task'[t].op = task[t].op /\ task'[t].pc = "commit"
          /\ task'[t].target = s /\ task'[t].cert = c /\ task'[t].met = task[t].met
      BY <1>3, <3>1, AtMoves
    <3>3. Late(t) /\ Storing(t)'
      BY <1>2, <1>7, <3>2, PcSets DEF Late, Storing
    <3>4. slot' \in [Slots -> Material] /\ slot'[s].host /\ Whole(slot'[s])
      BY <1>3, <2>2, <3>1 DEF TypeInv, Whole
    <3> QED
      BY <1>1, <1>2, <3>1, <3>2, <3>3, <3>4, LateWriteKeeps
  <2> QED
    BY <2>1, <2>2
<1>8. CASE task[t].pc = "commit"
  <2>1. selector' = s /\ task' = Ended(t) /\ slot' = slot
    BY <1>8 DEF WriteStore
  <2>2. Moves(t) /\ ToEnd(t)
    BY <1>3, <2>1, EndMoves DEF ToEnd
  <2> QED
    BY <1>1, <1>2, <1>8, <2>1, <2>2, CommitKeeps
<1> QED
  BY <1>4, <1>5, <1>6, <1>7, <1>8 DEF WriteStore

-------------------------------------------------------------------------------
(* The migration of the legacy credential. *)

LEMMA CompleteOne ==
    /\ Complete(1) \in Material /\ Whole(Complete(1))
    /\ \A m \in Material : m.key = 1 /\ m.pem = 1 /\ m.host => m = Complete(1)
<1>1. 1 \in None .. MaxCerts /\ 1 \in None .. Foreign
  BY SlotsAssumption DEF None, Foreign
<1> QED
  BY <1>1 DEF Complete, Material, Whole, None

LEMMA MigrateStepKeeps ==
    ASSUME IInv, NEW m \in Tasks, Migrating(m), Moves(m), task'[m].op = task[m].op,
           task'[m].pc \in MigratePcs \cup {"resolve"}, task'[m].met = task[m].met,
           slot' \in [Slots -> Material], slot'[1] = slot[1],
           slot'[0].key \in {slot[0].key, 1}, slot'[0].pem \in {slot[0].pem, 1},
           slot[0].host => slot'[0].host,
           task'[m].pc = "migrate_commit" => Whole(slot'[0]),
           selector' = selector \/ (selector' = 0 /\ slot' = slot /\ Whole(slot[0])),
           UNCHANGED <<legacy, issued, loaded>>
    PROVE  IInv'
<1>0. TypeInv /\ 0 \in Slots /\ 1 \in Slots /\ slot[0] \in Material /\ slot'[0] \in Material
  BY Sets DEF IInv, TypeInv
<1>1. /\ Whole(legacy) /\ legacy = Complete(1) /\ ~Missing(legacy)
      /\ selector # NoSelector =>
           selector = 0 /\ slot = [s \in Slots |-> IF s = 0 THEN Complete(1) ELSE Empty]
      /\ \A u \in Writers : ~Storing(u) /\ (Issuing(u) => m \in task[u].slow)
  BY <1>0, WholeIsThere DEF IInv, MigrateInv, LegacyInv, TypeInv
<1>2. selector = NoSelector => /\ slot[1] = Empty
                               /\ slot[0].key \in {None, 1} /\ slot[0].pem \in {None, 1}
  BY <1>1 DEF IInv, LegacyInv
<1>3. selector # NoSelector => slot[0] = Complete(1) /\ slot[1] = Empty
  BY <1>0, <1>1
<1>4. Whole(slot[0]) => slot[0] = Complete(1) /\ slot'[0] = Complete(1)
  <2>1. ASSUME Whole(slot[0]) PROVE slot[0].key = 1 /\ slot[0].pem = 1 /\ slot[0].host
    BY <1>2, <1>3, <2>1 DEF Whole, Complete
  <2>2. ASSUME Whole(slot[0]) PROVE slot'[0].key = 1 /\ slot'[0].pem = 1 /\ slot'[0].host
    BY <2>1, <2>2
  <2> QED
    BY <1>0, <2>1, <2>2, CompleteOne
<1>5. Whole(slot[0]) => slot' = slot
  <2>1. ASSUME Whole(slot[0]) PROVE \A s \in Slots : slot'[s] = slot[s]
    BY <1>4, <2>1, Sets
  <2> QED
    BY <1>0, <2>1 DEF TypeInv
<1>6. selector # NoSelector => slot' = slot /\ selector' = selector
  BY <1>1, <1>3, <1>5, CompleteOne
<1>7. selector' # NoSelector =>
        /\ selector' = 0 /\ slot'[0] = Complete(1) /\ slot'[1] = Empty
        /\ slot' = [s \in Slots |-> IF s = 0 THEN Complete(1) ELSE Empty]
  <2>1. ASSUME selector' # NoSelector
        PROVE  selector' = 0 /\ slot'[0] = Complete(1) /\ slot'[1] = Empty
    BY <1>1, <1>2, <1>3, <1>4, <1>6, <2>1
  <2> QED
    BY <2>1, Sets
<1>8. TypeInv'
  BY <1>0 DEF TypeInv, Moves
<1>9. PlaceInv'
  <2>1. Placed(m, task[m].op, task[m].pc) /\ task[m].pc # "idle"
    BY PcSets DEF IInv, PlaceInv, Migrating
  <2>2. Placed(m, task'[m].op, task'[m].pc)
    BY <2>1, PcSets DEF Placed, Migrating
  <2>3. selector # NoSelector => selector' # NoSelector
    BY <1>6
  <2> QED
    BY <2>1, <2>2, <2>3, PlaceStep, PcSets DEF IInv
<1>10. LegacyInv'
  BY <1>1, <1>2 DEF LegacyInv, NoSelector
<1>11. OthersStay(m) /\ ~Storing(m)' /\ ~Issuing(m)' /\ task'[m].pc # "idle"
  <2>1. ~Storing(m)
    BY Places DEF IInv, PlaceFacts
  <2> QED
    BY <2>1, OthersStayThere, PcSets DEF Storing, Issuing
<1>12. \A u \in Writers : ~Storing(u)' /\ (Issuing(u)' => Issuing(u) /\ u # m)
  BY <1>1, <1>11, Sets DEF OthersStay
<1>13. StoreInv'
  <2>1. \A u \in Writers : Issuing(u)' => selector' # NoSelector
    BY <1>1, <1>6, <1>12 DEF IInv, StoreInv
  <2> QED
    BY <1>12, <2>1 DEF StoreInv, Storing, Issuing
<1>14. MigrateInv'
  <2> SUFFICES ASSUME NEW n \in Tasks, Migrating(n)'
               PROVE  /\ task'[n].pc = "migrate_commit" => Whole(slot'[0])
                      /\ \A u \in Writers : Issuing(u)' => n \in task'[u].slow
    BY <1>1, <1>7, <1>12 DEF MigrateInv, Migrating, Whole, Storing, Issuing
  <2>1. n = m \/ (Migrating(n) /\ task'[n].pc = task[n].pc)
    BY <1>11 DEF OthersStay
  <2>2. task'[n].pc = "migrate_commit" => Whole(slot'[0])
    BY <1>5, <2>1 DEF IInv, MigrateInv
  <2>3. ASSUME NEW u \in Writers, Issuing(u)' PROVE n \in task'[u].slow
    <3>1. Issuing(u) /\ u # m /\ u \in Tasks
      BY <1>12, <2>3, Sets
    <3>2. task'[u].slow = task[u].slow
      BY <1>11, <3>1 DEF Moves
    <3> QED
      BY <1>1, <2>1, <3>1, <3>2 DEF IInv, MigrateInv
  <2> QED
    BY <2>2, <2>3
<1>15. SelectorInv'
  BY <1>0, <1>7, CompleteOne DEF SelectorInv, Whole, Complete
<1>16. CertInv'
  <2>1. issued \in Nat /\ issued >= 1
    BY <1>0 DEF TypeInv
  <2>2. \A s \in Slots : slot'[s].key <= issued /\ slot'[s].pem <= issued
    <3>1. slot[0].key <= issued /\ slot[0].pem <= issued /\ slot[1].key <= issued
          /\ slot[1].pem <= issued
      BY <1>0 DEF IInv, CertInv
    <3> QED
      BY <2>1, <3>1, Sets
  <2> QED
    BY <1>12, <2>2 DEF CertInv, Storing, Whole
<1>17. \A u \in Writers : ~Writing(u)' /\ ~Waiting(u)' /\ ~Early(u)' /\ ~Late(u)'
  BY <1>9, <1>12, PlacesNext, Sets DEF PlaceFacts, Writing, Waiting
<1>18. MetInv' /\ WriteInv' /\ PairInv'
  BY <1>12, <1>17 DEF MetInv, WriteInv, PairInv, Storing, Writing, Early, Late
<1>19. TargetIsSpare'
  BY <1>17 DEF TargetIsSpare, Early, Late, EarlyPcs, LatePcs
<1>20. LoadInv'
  <2> SUFFICES ASSUME Reading' PROVE LoadInv'
    BY DEF LoadInv, Reading
  <2>1. m # "loader"
    BY PcSets DEF Reading
  <2>2. /\ task'["loader"].pc = task["loader"].pc /\ task'["loader"].cert = task["loader"].cert
        /\ task'["loader"].target = task["loader"].target
        /\ task'["loader"].met = task["loader"].met /\ Reading
    BY <1>11, <2>1, Sets DEF OthersStay
  <2>3. slot' = slot /\ selector' = selector
    BY <1>6, <2>2 DEF IInv, LoadInv
  <2> QED
    BY <1>17, <2>2, <2>3 DEF IInv, LoadInv, Whole, Waiting, Early
<1>21. LoadedWhole'
  BY DEF IInv, LoadedWhole
<1> QED
  BY <1>8, <1>9, <1>10, <1>13, <1>14, <1>15, <1>16, <1>18, <1>19, <1>20, <1>21 DEF IInv

LEMMA MigrateKeeps ==
    ASSUME IInv, NEW m \in Tasks, Migrate(m)
    PROVE  IInv'
<1>1. Migrating(m) /\ UNCHANGED <<legacy, issued, loaded>> /\ TypeInv /\ 0 \in Slots
  BY PcSets, Sets DEF Migrate, Migrating, IInv
<1>2. legacy = Complete(1) /\ legacy.key = 1 /\ legacy.pem = 1
  BY <1>1 DEF IInv, MigrateInv, LegacyInv, Complete
<1>3. 1 \in None .. MaxCerts /\ 1 \in None .. Foreign
  BY SlotsAssumption DEF None, Foreign
<1>4. slot \in [Slots -> Material] /\ Other(0) = 1
  BY <1>1, Sets DEF TypeInv
<1>5. ASSUME NEW pc \in MigratePcs \cup {"resolve"}, task' = At(m, pc)
      PROVE  Moves(m) /\ task'[m].op = task[m].op /\ task'[m].pc = pc /\ task'[m].met = task[m].met
  BY <1>1, <1>5, AtMoves, PcSets
<1>6. CASE task[m].pc = "migrate_key"
  <2>1. WriteKey(0, 1) /\ task' = At(m, "migrate_pem") /\ selector' = selector
    BY <1>2, <1>6 DEF Migrate
  <2>2. /\ slot' \in [Slots -> Material] /\ slot'[1] = slot[1]
        /\ slot'[0].key = 1 /\ slot'[0].pem = slot[0].pem /\ slot'[0].host = slot[0].host
    BY <1>1, <1>3, <1>4, <2>1, KeyWrites
  <2>3. /\ Moves(m) /\ task'[m].op = task[m].op /\ task'[m].pc = "migrate_pem"
        /\ task'[m].met = task[m].met
    BY <1>5, <2>1, PcSets
  <2> QED
    BY <1>1, <2>1, <2>2, <2>3, PcSets, MigrateStepKeeps
<1>7. CASE task[m].pc = "migrate_pem"
  <2>1. WritePem(0, 1) /\ task' = At(m, "migrate_host") /\ selector' = selector
    BY <1>2, <1>7 DEF Migrate
  <2>2. /\ slot' \in [Slots -> Material] /\ slot'[1] = slot[1]
        /\ slot'[0].pem = 1 /\ slot'[0].key = slot[0].key /\ slot'[0].host = slot[0].host
    BY <1>1, <1>3, <1>4, <2>1, PemWrites
  <2>3. /\ Moves(m) /\ task'[m].op = task[m].op /\ task'[m].pc = "migrate_host"
        /\ task'[m].met = task[m].met
    BY <1>5, <2>1, PcSets
  <2> QED
    BY <1>1, <2>1, <2>2, <2>3, PcSets, MigrateStepKeeps
<1>8. CASE task[m].pc = "migrate_host"
  <2>1. WriteHost(0) /\ task' = At(m, "migrate_validate") /\ selector' = selector
    BY <1>8 DEF Migrate
  <2>2. /\ slot' \in [Slots -> Material] /\ slot'[1] = slot[1]
        /\ slot'[0].pem = slot[0].pem /\ slot'[0].key = slot[0].key /\ slot'[0].host
    BY <1>1, <1>4, <2>1, HostWrites
  <2>3. /\ Moves(m) /\ task'[m].op = task[m].op /\ task'[m].pc = "migrate_validate"
        /\ task'[m].met = task[m].met
    BY <1>5, <2>1, PcSets
  <2> QED
    BY <1>1, <2>1, <2>2, <2>3, PcSets, MigrateStepKeeps
<1>9. CASE task[m].pc = "migrate_validate"
  <2>1. CASE Whole(slot[0])
    <3>1. task' = At(m, "migrate_commit") /\ UNCHANGED <<slot, selector>>
      BY <1>9, <2>1 DEF Migrate
    <3>2. /\ Moves(m) /\ task'[m].op = task[m].op /\ task'[m].pc = "migrate_commit"
          /\ task'[m].met = task[m].met
      BY <1>5, <3>1, PcSets
    <3>3. slot' \in [Slots -> Material] /\ Whole(slot'[0])
      BY <1>4, <2>1, <3>1
    <3> QED
      BY <1>1, <3>1, <3>2, <3>3, PcSets, MigrateStepKeeps
  <2>2. CASE ~Whole(slot[0])
    <3>1. task' = Ended(m) /\ UNCHANGED <<slot, selector>> /\ LoadedWhole'
      BY <1>1, <1>9, <2>2 DEF Migrate, IInv, LoadedWhole
    <3> QED
      BY <1>1, <1>9, <3>1, EndKeeps
  <2> QED
    BY <2>1, <2>2
<1>10. CASE task[m].pc = "migrate_commit"
  <2>1. selector' = 0 /\ task' = At(m, "resolve") /\ slot' = slot
    BY <1>10 DEF Migrate
  <2>2. Whole(slot[0]) /\ slot' \in [Slots -> Material]
    BY <1>1, <1>4, <1>10, <2>1 DEF IInv, MigrateInv
  <2>3. /\ Moves(m) /\ task'[m].op = task[m].op /\ task'[m].pc = "resolve"
        /\ task'[m].met = task[m].met
    BY <1>5, <2>1
  <2> QED
    BY <1>1, <2>1, <2>2, <2>3, PcSets, MigrateStepKeeps
<1> QED
  BY <1>6, <1>7, <1>8, <1>9, <1>10 DEF Migrate

-------------------------------------------------------------------------------
(* The invariant. *)

LEMMA InitHolds == Init => IInv
<1> SUFFICES ASSUME Init PROVE IInv
  OBVIOUS
<1>1. PICK r : r = [Idle EXCEPT !.op = "prepare", !.pc = "resolve"]
  OBVIOUS
<1>2. r = [op |-> "prepare", pc |-> "resolve", target |-> 0, cert |-> None, slow |-> {}, met |-> 0]
  BY <1>1 DEF Idle
<1>3. task = [t \in Tasks |-> IF t = "main" THEN r ELSE Idle]
  BY <1>1 DEF Init, Booting
<1>4. r \in Record
  BY <1>2, SlotsAssumption DEF Record, Ops, Pcs, Slots, None
<1>5. /\ task \in [Tasks -> Record]
      /\ task["main"].op = "prepare" /\ task["main"].pc = "resolve"
      /\ \A t \in Tasks \ {"main"} : task[t].op = "none" /\ task[t].pc = "idle"
  BY <1>2, <1>3, <1>4, IdleRecord, Sets
<1>6. /\ selector = NoSelector /\ issued = 1 /\ slot = [s \in Slots |-> Empty]
      /\ legacy \in {Empty, Complete(1), Broken}
      /\ loaded = [key |-> None, pem |-> None, met |-> 0]
  BY DEF Init
<1>7. \A t \in Tasks : /\ ~Storing(t) /\ ~Issuing(t) /\ ~Migrating(t) /\ ~Writing(t) /\ ~Early(t)
                       /\ ~Late(t) /\ task[t].pc \notin ReadPcs
  BY <1>5, PcSets DEF Storing, Issuing, Migrating, Writing, Early, Late
<1>8. ~Reading
  BY <1>7, Sets DEF Reading
<1>9. 1 \in None .. MaxCerts /\ None \in None .. MaxCerts /\ 1 \in None .. Foreign
      /\ None \in None .. Foreign /\ Foreign \in None .. Foreign /\ Foreign # 1
  BY SlotsAssumption DEF None, Foreign
<1>10. /\ Empty \in Material /\ Complete(1) \in Material /\ Broken \in Material
       /\ Empty.key = 0 /\ Empty.pem = 0
       /\ ~Whole(Broken) /\ ~Whole(Empty)
  BY <1>9 DEF Empty, Complete, Broken, Material, Whole, None
<1>11. TypeInv
  BY <1>5, <1>6, <1>10, SlotsAssumption DEF TypeInv, Slots, NoSelector
<1>12. PlaceInv
  <2>1. \A t \in Tasks : Placed(t, task[t].op, task[t].pc)
    BY <1>5 DEF Placed
  <2> QED
    BY <1>5, <2>1, PcSets DEF PlaceInv
<1>13. LegacyInv
  BY <1>6, <1>10, Sets DEF LegacyInv, None
<1>14. StoreInv /\ MigrateInv
  BY <1>7, Sets DEF StoreInv, MigrateInv
<1>15. SelectorInv
  BY <1>6 DEF SelectorInv
<1>16. CertInv
  BY <1>6, <1>7, <1>10, Sets DEF CertInv
<1>17. MetInv /\ WriteInv /\ PairInv
  BY <1>7, Sets DEF MetInv, WriteInv, PairInv
<1>18. LoadInv
  BY <1>8 DEF LoadInv
<1>19. TargetIsSpare /\ LoadedWhole
  BY <1>6 DEF TargetIsSpare, LoadedWhole
<1> QED
  BY <1>11, <1>12, <1>13, <1>14, <1>15, <1>16, <1>17, <1>18, <1>19 DEF IInv

LEMMA StutterKeeps ==
    ASSUME IInv, UNCHANGED vars
    PROVE  IInv'
BY DEF vars, IInv, TypeInv, PlaceInv, LegacyInv, StoreInv, MigrateInv, SelectorInv, CertInv, MetInv,
   WriteInv, PairInv, LoadInv, TargetIsSpare, LoadedWhole, Placed, Storing, Issuing, Migrating,
   Missing, Whole, InStorage, Writing, Early, Late, Waiting, Reading

LEMMA NextKeeps ==
    ASSUME IInv, Next
    PROVE  IInv'
<1>1. ASSUME NEW t \in Writers, Inspect(t) PROVE IInv'
  BY <1>1, InspectKeeps
<1>2. ASSUME NEW t \in Writers, Store(t) PROVE IInv'
  BY <1>2, StoreKeeps
<1>3. ASSUME NEW t \in Writers, AbandonTransaction(t) PROVE IInv'
  BY <1>3, FailKeeps, Sets
<1>4. CASE Load
  BY <1>4, LoadKeeps
<1>5. ASSUME NEW t \in Tasks, Resolve(t) PROVE IInv'
  BY <1>5, ResolveKeeps, ResolveStoreKeeps
<1>6. ASSUME NEW t \in Tasks, Migrate(t) PROVE IInv'
  BY <1>6, MigrateKeeps
<1>7. ASSUME NEW t \in Tasks, WriteStore(t) PROVE IInv'
  BY <1>7, WriteStoreKeeps
<1>8. ASSUME NEW t \in Tasks, ReadCredential(t) PROVE IInv'
  BY <1>8, ReadKeeps
<1>9. ASSUME NEW t \in Tasks, Retire(t) PROVE IInv'
  BY <1>9, RetireKeeps
<1>10. ASSUME NEW t \in Tasks, Fail(t) PROVE IInv'
  BY <1>10, FailKeeps
<1>11. CASE PowerLoss
  BY <1>11, PowerLossKeeps
<1> QED
  BY <1>1, <1>2, <1>3, <1>4, <1>5, <1>6, <1>7, <1>8, <1>9, <1>10, <1>11 DEF Next, Step

\* The invariant holds of every reachable state: no operation, failed write or loss
\* of power (store_certificate_material, migrate_legacy_production_material,
\* resolve_production_slot, load_tls_credentials) leaves it.
THEOREM Inductive == Spec => []IInv
<1>1. IInv /\ [Next]_vars => IInv'
  BY NextKeeps, StutterKeeps
<1> QED
  BY InitHolds, <1>1, PTL DEF Spec

LEMMA TypeFollows == IInv => TypeOK
<1> SUFFICES ASSUME IInv PROVE TypeOK
  OBVIOUS
<1>1. \A t \in Tasks : task[t] \in Record
  BY DEF IInv, TypeInv
<1> QED
  BY <1>1 DEF IInv, TypeInv, TypeOK, Record

\* The slots, the selector and the records of the tasks keep their types.
THEOREM Typed == Spec => []TypeOK
BY Inductive, TypeFollows, PTL

\* store_certificate_material never rewrites the last whole slot, whatever other
\* store runs beside it and wherever either was interrupted.
THEOREM StoresIntoTheSpareSlot == Spec => []TargetIsSpare
<1>1. IInv => TargetIsSpare
  BY DEF IInv
<1> QED
  BY Inductive, <1>1, PTL

\* load_tls_credentials never returns the key of one certificate and the chain of
\* another, unless it met two stores.
THEOREM LoadsOneCredential == Spec => []LoadedWhole
<1>1. IInv => LoadedWhole
  BY DEF IInv
<1> QED
  BY Inductive, <1>1, PTL

-------------------------------------------------------------------------------
(* The slots implement the credential. *)

EffectiveIs ==
    /\ selector # NoSelector =>
         /\ Effective = IF Whole(slot[selector]) THEN slot[selector].key
                        ELSE slot[Other(selector)].key
         /\ Effective \in 1 .. MaxCerts
         /\ ~Whole(slot[selector]) => Whole(slot[Other(selector)])
    /\ selector = NoSelector => Effective = IF Whole(legacy) THEN 1 ELSE 0

LEMMA EffectiveFacts == IInv => EffectiveIs
<1> SUFFICES ASSUME IInv PROVE EffectiveIs
  OBVIOUS
<1>1. ASSUME selector # NoSelector
      PROVE  /\ Effective = IF Whole(slot[selector]) THEN slot[selector].key
                            ELSE slot[Other(selector)].key
             /\ Effective \in 1 .. MaxCerts
             /\ ~Whole(slot[selector]) => Whole(slot[Other(selector)])
  <2>1. selector \in Slots /\ TypeInv
    BY <1>1 DEF IInv, TypeInv
  <2>2. \E s \in Slots : Whole(slot[s])
    BY <1>1 DEF IInv, SelectorInv
  <2>3. ~Whole(slot[selector]) => Whole(slot[Other(selector)])
    BY <2>1, <2>2, Sets
  <2>4. Candidates # {}
    BY <1>1, <2>1, <2>3, CandidateFacts
  <2>5. PICK s : s = CHOOSE c \in Candidates : TRUE
    OBVIOUS
  <2>6. /\ s \in Slots /\ Whole(slot[s])
        /\ s = selector \/ (s = Other(selector) /\ ~Whole(slot[selector]))
    BY <1>1, <2>1, <2>4, <2>5, Chosen
  <2>7. Effective = slot[s].key
    BY <1>1, <2>4, <2>5 DEF Effective
  <2>8. slot[s].key \in 1 .. MaxCerts
    BY <2>1, <2>6 DEF TypeInv, Material, Whole, None
  <2>9. s = IF Whole(slot[selector]) THEN selector ELSE Other(selector)
    BY <2>6
  <2> QED
    BY <2>3, <2>7, <2>8, <2>9
<1>2. ASSUME selector = NoSelector PROVE Effective = IF Whole(legacy) THEN 1 ELSE 0
  BY <1>2 DEF Effective, IInv, LegacyInv, Complete, None
<1> QED
  BY <1>1, <1>2 DEF EffectiveIs

LEMMA EffectiveNext == IInv' => EffectiveIs'
BY EffectiveFacts, PTL

LEMMA EffectiveRange == EffectiveIs => Effective \in 0 .. MaxCerts
BY SlotsAssumption DEF EffectiveIs, NoSelector

LEMMA PhaseIs == Phase \in {"quiet", "replacing", "contended"}
BY DEF Phase

LEMMA PhaseNext == Phase' \in {"quiet", "replacing", "contended"}
BY DEF Phase

\* What a step of a store makes of the credential, if it met no other store:
\* nothing, or a newer one.
LEMMA AloneInstalls ==
    ASSUME IInv, NEW t \in Tasks, WriteStore(t), task[t].met = 1
    PROVE  Effective' = Effective \/ Effective' > Effective
<1> DEFINE s == task[t].target
           c == task[t].cert
<1>1. Writing(t) /\ legacy' = legacy
  BY PcSets DEF WriteStore, Writing, Early, Late
<1>2. Storing(t) /\ t \in Writers
  BY <1>1, Places DEF IInv, PlaceFacts
<1>3. /\ selector = NoSelector => ~Whole(legacy)
      /\ slot \in [Slots -> Material]
  BY <1>2, WhileStoring
<1>4. /\ TypeInv /\ s \in Slots /\ Other(s) \in Slots /\ c \in None .. MaxCerts
      /\ c \in None .. Foreign /\ selector \in Slots \cup {NoSelector}
  BY SlotsAssumption, Sets DEF IInv, TypeInv, Record, None, Foreign
<1>5. IInv' /\ EffectiveIs /\ EffectiveIs'
  BY WriteStoreKeeps, EffectiveFacts, EffectiveNext
<1>6. c = issued /\ c \in 2 .. issued /\ issued \in Nat
  BY <1>2 DEF IInv, MetInv, CertInv, TypeInv
<1>7. slot[Other(s)].key < c
  <2>1. slot[Other(s)].key <= issued /\ slot[Other(s)].key # c /\ slot[Other(s)].key \in Nat
    BY <1>2, <1>4, Sets DEF IInv, CertInv, TypeInv, Material, None
  <2> QED
    BY <1>6, <2>1
<1>8. task[t].pc # "write_key" => slot[s].key = c
  BY <1>1, <1>2 DEF IInv, WriteInv
<1>9. Early(t) => ~(selector = s /\ Whole(slot[selector]))
  BY <1>1, <1>2 DEF IInv, WriteInv
<1>10. ASSUME selector = NoSelector, selector' = selector PROVE Effective' = Effective
  BY <1>1, <1>5, <1>10 DEF EffectiveIs, Whole
<1>11. CASE task[t].pc = "write_key" /\ selector # NoSelector
  <2>1. WriteKey(s, c) /\ selector' = selector /\ Early(t)
    BY <1>11, PcSets DEF WriteStore, Early
  <2>2. /\ slot'[Other(s)] = slot[Other(s)] /\ slot'[s].key = c /\ slot'[s].pem = slot[s].pem
    BY <1>4, <2>1, KeyWrites
  <2>3. slot[s].pem # c /\ ~Late(t)
    BY <1>2, <1>4, <1>11, PcSets DEF IInv, CertInv, Late
  <2>4. ~Whole(slot'[s])
    BY <2>2, <2>3 DEF Whole
  <2>5. Whole(slot[Other(s)])
    BY <1>2, <1>11 DEF IInv, TargetIsSpare
  <2>6. CASE selector = s
    BY <1>5, <1>9, <1>11, <2>1, <2>2, <2>4, <2>6 DEF EffectiveIs
  <2>7. CASE selector = Other(s)
    BY <1>5, <1>11, <2>1, <2>2, <2>5, <2>7 DEF EffectiveIs
  <2> QED
    BY <1>4, <1>11, <2>6, <2>7, Sets
<1>12. CASE task[t].pc = "write_pem" /\ selector # NoSelector
  <2>1. WritePem(s, c) /\ selector' = selector /\ Early(t)
    BY <1>12, PcSets DEF WriteStore, Early
  <2>2. /\ slot'[Other(s)] = slot[Other(s)] /\ slot'[s].key = c
    BY <1>4, <1>8, <1>12, <2>1, PemWrites
  <2>5. Whole(slot[Other(s)])
    BY <1>2, <1>12 DEF IInv, TargetIsSpare
  <2>6. CASE selector = s
    <3>1. Effective = slot[Other(s)].key
      BY <1>5, <1>9, <1>12, <2>1, <2>6 DEF EffectiveIs
    <3>2. Effective' = c \/ Effective' = slot[Other(s)].key
      BY <1>5, <1>12, <2>1, <2>2, <2>6 DEF EffectiveIs
    <3> QED
      BY <1>6, <1>7, <3>1, <3>2
  <2>7. CASE selector = Other(s)
    BY <1>5, <1>12, <2>1, <2>2, <2>5, <2>7 DEF EffectiveIs
  <2> QED
    BY <1>4, <1>12, <2>6, <2>7, Sets
<1>13. CASE task[t].pc = "write_host" /\ selector # NoSelector
  <2>1. WriteHost(s) /\ selector' = selector
    BY <1>13 DEF WriteStore
  <2>2. /\ slot'[Other(s)] = slot[Other(s)] /\ slot'[s].pem = slot[s].pem
        /\ slot'[s].key = slot[s].key /\ slot'[s].host
    BY <1>4, <2>1, HostWrites
  <2>3. \A r \in Slots : slot'[r].key = slot[r].key
    BY <1>4, <2>2, Sets
  <2>4. slot[selector].host
    BY <1>13 DEF IInv, SelectorInv
  <2>5. Whole(slot'[selector]) <=> Whole(slot[selector])
    BY <1>4, <1>13, <2>2, <2>4, Sets DEF Whole
  <2> QED
    BY <1>4, <1>5, <1>13, <2>1, <2>3, <2>5, Sets DEF EffectiveIs
<1>14. CASE task[t].pc = "validate"
  BY <1>5, <1>1, <1>14 DEF WriteStore, EffectiveIs, Whole
<1>15. CASE task[t].pc = "commit"
  <2>1. selector' = s /\ slot' = slot /\ s # NoSelector /\ slot[s].key = c
    BY <1>4, <1>8, <1>15 DEF WriteStore, Slots, NoSelector
  <2>2. Effective' = IF Whole(slot[s]) THEN c ELSE slot[Other(s)].key
    BY <1>5, <2>1 DEF EffectiveIs, Whole
  <2>3. CASE selector = NoSelector
    <3>1. Whole(slot[s])
      BY <1>1, <1>2, <1>15, <2>3 DEF IInv, WriteInv
    <3> QED
      BY <1>3, <1>5, <1>6, <2>2, <2>3, <3>1 DEF EffectiveIs
  <2>4. CASE selector = s
    BY <1>4, <1>5, <2>1, <2>2, <2>4 DEF EffectiveIs, Slots, NoSelector
  <2>5. CASE selector = Other(s)
    <3>1. Effective = IF Whole(slot[Other(s)]) THEN slot[Other(s)].key ELSE c
      BY <1>4, <1>5, <2>1, <2>5, Sets DEF EffectiveIs, Slots, NoSelector
    <3>2. ~Whole(slot[Other(s)]) => Whole(slot[s])
      BY <1>4, <1>5, <2>1, <2>5, Sets DEF EffectiveIs, Slots, NoSelector
    <3> QED
      BY <1>6, <1>7, <2>2, <3>1, <3>2
  <2> QED
    BY <1>4, <2>3, <2>4, <2>5, Sets
<1> QED
  BY <1>10, <1>11, <1>12, <1>13, <1>14, <1>15 DEF WriteStore

\* Every step of the storage is one of the credential, or none.
LEMMA SameEffective ==
    ASSUME Effective' = Effective
    PROVE  Abstract!Next
BY PhaseNext DEF Abstract!Next, Abstract!Progress, Abstract!Phases

\* What is migrated is the credential users have.
MigratedIsOne == \A m \in Tasks : Migrating(m) => Effective = 1

LEMMA MigratesOne == IInv => MigratedIsOne
<1> SUFFICES ASSUME IInv, NEW m \in Tasks, Migrating(m) PROVE Effective = 1
  BY DEF MigratedIsOne
<1>1. /\ Whole(legacy)
      /\ selector # NoSelector =>
           selector = 0 /\ slot = [s \in Slots |-> IF s = 0 THEN Complete(1) ELSE Empty]
  BY DEF IInv, MigrateInv
<1>2. selector # NoSelector => slot[selector] = Complete(1)
  BY <1>1, Sets
<1> QED
  BY <1>1, <1>2, EffectiveFacts, CompleteOne DEF EffectiveIs, Complete

LEMMA MigratesOneNext == IInv' => MigratedIsOne'
BY MigratesOne, PTL

LEMMA StepImplements ==
    ASSUME IInv, Next
    PROVE  Abstract!Next
<1>1. IInv' /\ EffectiveIs /\ EffectiveIs'
  BY NextKeeps, EffectiveFacts, EffectiveNext
<1>2. ASSUME UNCHANGED <<slot, legacy, selector>> PROVE Abstract!Next
  <2>1. Effective' = Effective
    BY <1>2 DEF Effective, Candidates, Whole
  <2> QED
    BY <2>1, SameEffective
<1>3. ASSUME NEW t \in Writers, Inspect(t) \/ Store(t) \/ AbandonTransaction(t)
      PROVE  Abstract!Next
  BY <1>2, <1>3 DEF Inspect, Store, AbandonTransaction
<1>4. CASE Load \/ PowerLoss
  BY <1>2, <1>4 DEF Load, PowerLoss
<1>5. ASSUME NEW t \in Tasks, Resolve(t) \/ ReadCredential(t) \/ Fail(t) PROVE Abstract!Next
  BY <1>2, <1>5 DEF Resolve, ReadCredential, Fail
<1>6. ASSUME NEW t \in Tasks, Retire(t) PROVE Abstract!Next
  <2>1. selector # NoSelector /\ UNCHANGED <<slot, selector>>
    <3>1. task[t].pc \in RetirePcs
      BY <1>6, PcSets DEF Retire
    <3>2. t = "main"
      BY <3>1, Places DEF IInv, PlaceFacts
    <3> QED
      BY <1>6, <3>1, <3>2 DEF Retire, IInv, PlaceInv
  <2>2. Effective' = Effective
    BY <1>1, <2>1 DEF EffectiveIs, Whole
  <2> QED
    BY <2>2, SameEffective
<1>7. ASSUME NEW t \in Tasks, Migrate(t) PROVE Abstract!Next
  <2>1. Migrating(t) /\ t \in Tasks
    BY <1>7, PcSets DEF Migrate, Migrating
  <2>2. CASE Migrating(t)'
    <3>1. Effective = 1 /\ Effective' = 1
      BY <1>1, <2>1, <2>2, MigratesOne, MigratesOneNext DEF MigratedIsOne
    <3> QED
      BY <3>1, SameEffective
  <2>3. CASE task[t].pc = "migrate_commit"
    <3>1. slot' = slot /\ selector' = 0 /\ Whole(slot[0])
      BY <1>7, <2>1, <2>3 DEF Migrate, IInv, MigrateInv
    <3>2. slot[0].key = 1
      <4>1. Whole(legacy)
        BY <2>1 DEF IInv, MigrateInv
      <4>2. CASE selector = NoSelector
        BY <3>1, <4>1, <4>2 DEF IInv, LegacyInv, Whole
      <4>3. CASE selector # NoSelector
        <5>1. slot = [s \in Slots |-> IF s = 0 THEN Complete(1) ELSE Empty]
          BY <2>1, <4>3 DEF IInv, MigrateInv
        <5> QED
          BY <5>1, Sets DEF Complete
      <4> QED
        BY <4>2, <4>3
    <3>3. Effective' = 1
      BY <1>1, <3>1, <3>2 DEF EffectiveIs, NoSelector, Whole
    <3>4. Effective = 1
      BY <2>1, MigratesOne DEF MigratedIsOne
    <3> QED
      BY <3>3, <3>4, SameEffective
  <2>4. CASE task' = Ended(t)
    <3>1. UNCHANGED <<slot, legacy, selector>>
      <4>1. task'[t].pc = "idle"
        BY <2>4, EndMoves DEF IInv
      <4>2. task[t].pc = "migrate_validate"
        <5>1. ASSUME NEW pc \in MigratePcs \cup {"resolve"} PROVE task' # At(t, pc)
          BY <4>1, <5>1, AtMoves, PcSets DEF IInv
        <5> QED
          BY <1>7, <5>1, PcSets DEF Migrate
      <4> QED
        BY <1>7, <4>2 DEF Migrate
    <3> QED
      BY <1>2, <3>1
  <2>5. \/ task[t].pc = "migrate_commit"
        \/ task' = Ended(t)
        \/ \E pc \in MigratePcs : task' = At(t, pc)
    BY <1>7, PcSets DEF Migrate
  <2>6. ASSUME NEW pc \in MigratePcs, task' = At(t, pc) PROVE Migrating(t)'
    BY <2>6, AtMoves, PcSets DEF IInv, Migrating
  <2> QED
    BY <2>2, <2>3, <2>4, <2>5, <2>6
<1>8. ASSUME NEW t \in Tasks, WriteStore(t) PROVE Abstract!Next
  <2>1. Storing(t) /\ t \in Writers /\ legacy' = legacy /\ issued' = issued
    <3>1. Writing(t)
      BY <1>8, PcSets DEF WriteStore, Writing, Early, Late
    <3> QED
      BY <1>8, <3>1, Places DEF IInv, PlaceFacts, WriteStore
  <2>2. Phase # "quiet" /\ (task[t].met = 2 => Phase = "contended")
    BY <2>1 DEF Phase, Contended
  <2>3. Effective \in 0 .. MaxCerts
    BY <1>1, EffectiveRange
  <2>4. Effective' = Effective \/ Effective' \in 1 .. MaxCerts
    <3>1. task[t].target \in Slots /\ task[t].target # NoSelector
      BY DEF IInv, TypeInv, Record, Slots, NoSelector
    <3>2. selector' = selector \/ selector' = task[t].target
      BY <1>8 DEF WriteStore
    <3>3. CASE selector' = NoSelector
      BY <1>1, <2>1, <3>1, <3>2, <3>3 DEF EffectiveIs, Whole
    <3>4. CASE selector' # NoSelector
      BY <1>1, <3>4 DEF EffectiveIs
    <3> QED
      BY <3>3, <3>4
  <2>5. task[t].met = 1 \/ task[t].met = 2
    BY <2>1, WhileStoring
  <2>6. CASE Effective' = Effective
    BY <2>6, SameEffective
  <2>7. CASE Effective' # Effective /\ Effective' > Effective
    <3>1. Effective' \in (Effective + 1) .. MaxCerts
      BY <2>3, <2>4, <2>7, SlotsAssumption
    <3> QED
      BY <2>2, <3>1, PhaseNext DEF Abstract!Next, Abstract!Install, Abstract!Phases
  <2>8. CASE Effective' # Effective /\ ~(Effective' > Effective)
    <3>1. Effective' \in 1 .. (Effective - 1)
      BY <2>3, <2>4, <2>8, SlotsAssumption
    <3>2. task[t].met = 2
      BY <1>8, <2>5, <2>8, AloneInstalls
    <3> QED
      BY <2>2, <3>1, <3>2, PhaseNext DEF Abstract!Next, Abstract!Withdraw, Abstract!Phases
  <2> QED
    BY <2>6, <2>7, <2>8
<1> QED
  BY <1>3, <1>4, <1>5, <1>6, <1>7, <1>8 DEF Next, Step

LEMMA InitImplements == Init => Abstract!Init
<1> SUFFICES ASSUME Init PROVE Abstract!Init
  OBVIOUS
<1>1. IInv
  BY InitHolds
<1>2. Effective \in 0 .. 1
  BY <1>1, EffectiveFacts DEF EffectiveIs, Init
<1>3. \A t \in Writers : ~Storing(t)
  BY Sets DEF Init, Booting, Idle, Storing
<1>4. Phase = "quiet"
  BY <1>3 DEF Phase, Contended
<1> QED
  BY <1>2, <1>4 DEF Abstract!Init

\* The two slots behave as one credential that is replaced in a single step, only
\* towards a newer one unless stores met, and never lost: the initial states are
\* those of Credential, and every step is one of its steps or a stutter.
THEOREM SlotsImplementCredential == Spec => ImplementsCredential
<1>1. IInv /\ [Next]_vars => [Abstract!Next]_(Abstract!vars)
  <2>1. ASSUME UNCHANGED vars PROVE UNCHANGED Abstract!vars
    BY <2>1 DEF vars, Abstract!vars, Effective, Candidates, Whole, Phase, Contended, Storing
  <2> QED
    BY <2>1, StepImplements
<1> QED
  BY Inductive, InitImplements, <1>1, PTL DEF Spec, ImplementsCredential, Abstract!Spec
================================================================================
