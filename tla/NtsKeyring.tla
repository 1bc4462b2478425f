------------------------------- MODULE NtsKeyring -------------------------------
(***************************************************************************)
(* The cookie keys of NTS: the ring of three keys kept in encrypted NVS    *)
(* (src/main/nts_storage.c), and the cookies sealed and opened under them  *)
(* (src/main/nts_cookie.c).  Two tasks use it: ntp_server_task opens the   *)
(* cookie of a request and seals fresh ones for the reply                  *)
(* (nts_ntp_auth.c), nts_ke_task seals the first cookies of a client       *)
(* (nts_ke.c).  Every operation starts by maintaining the ring - load,     *)
(* rotate, save - and then loads it again.  NVS is locked for a load and   *)
(* for a save, but not from one to the other.                              *)
(*                                                                         *)
(* Abstractions.  A random key is named after the task that drew it and    *)
(* the tick it did so: a task that draws one identifier twice in a tick    *)
(* has not stored the first.  A task's private copy is not affected by the *)
(* others, so the first round of the rotation is one step with the load.   *)
(* From its load to its save or use at most one tick passes.  Time ends    *)
(* before the 32 bits of NTP seconds do.                                   *)
(***************************************************************************)
EXTENDS Integers, FiniteSets

CONSTANTS
    Period,      \* NTS_STORAGE_KEY_PERIOD_SECONDS, in ticks
    Lifetime,    \* NTS_KE_COOKIE_LIFETIME_SECONDS, in ticks
    KeyIds,      \* number of values a key identifier has (2^32)
    MaxCookies,  \* bound of the model: unexpired cookies the clients hold
    MaxTime      \* bound of the model: the last tick considered

ASSUME KeyringAssumption ==
    /\ {Period, Lifetime, MaxCookies, MaxTime} \subseteq Nat \ {0}
    /\ Lifetime <= Period
    /\ KeyIds \in Nat /\ KeyIds >= 4

VARIABLES
    now,        \* clock_discipline_get_ntp_timestamp
    ring,       \* the blob "cookie_ring" of NVS
    task,       \* the two tasks
    cookies,    \* unexpired cookies held by clients
    overdue     \* history: a rotation was a whole period late, less a tick

vars == <<now, ring, task, cookies, overdue>>

Tasks == {"ntp_server", "nts_ke"}

NoRing == [stored |-> FALSE]

NoSlot == [valid |-> FALSE]

NoWork == [none |-> TRUE]

Idle == [pc |-> "idle", work |-> NoWork, copy |-> NoRing, read |-> 0]

\* nts_ke_task begins with the ring, ntp_server_task with its socket.
Booting == [t \in Tasks |->
              IF t = "nts_ke" THEN [Idle EXCEPT !.pc = "ensure"] ELSE Idle]

Init ==
    /\ now = 1
    /\ ring = NoRing
    /\ task = Booting
    /\ cookies = {}
    /\ overdue = FALSE

-------------------------------------------------------------------------------
(* The ring. *)

Draw(t) == [by |-> t, at |-> now]

Keys == [by : Tasks, at : 1 .. MaxTime]

\* generate_next_slot, with the random key `key'.
NewSlot(id, before, key) ==
    [valid |-> TRUE, id |-> id, before |-> before, after |-> before + Period,
     key |-> key]

\* Faulty variant: the identifier is not kept to its width.
NextIdUnbounded(id) == id + 1

\* Faulty variant: zero is not skipped when the identifier wraps.
NextIdWithZero(id) == (id + 1) % KeyIds

\* next_key_id
NextId(id) == IF id + 1 = KeyIds THEN 1 ELSE id + 1

SlotValid(slot) == slot.valid /\ slot.id # 0 /\ slot.before < slot.after

\* validate_cookie_keyring
RingValid(keys) ==
    /\ SlotValid(keys.active)
    /\ SlotValid(keys.next)
    /\ keys.active.id # keys.next.id
    /\ keys.next.before = keys.active.after
    /\ keys.previous.valid =>
         /\ SlotValid(keys.previous)
         /\ keys.previous.id \notin {keys.active.id, keys.next.id}
         /\ keys.previous.after = keys.active.before

\* nts_storage_ensure_cookie_keyring
FirstRing ==
    LET active == NewSlot(1, now, Draw("nts_ke"))
    IN  [stored |-> TRUE, previous |-> NoSlot, active |-> active,
         next |-> NewSlot(2, active.after, Draw("nts_ke"))]

\* One round of the loop of nts_storage_maintain_cookie_keyring.
Rotate(keys, key) ==
    [keys EXCEPT
        !.previous = keys.active,
        !.active = keys.next,
        !.next = NewSlot(NextId(keys.next.id), keys.next.after, key)]

\* Its condition, at the time the task read.
Due(keys, time) == time >= keys.active.after

\* Faulty variant: at most one round, however long ago the last one was.
FurtherOnce(keys, time) == "save"

\* Where a round leaves the task.
Further(keys, time) == IF Due(keys, time) THEN "rotate" ELSE "save"

\* Faulty variant: only the active key is tried.
OpensWithActive(cookie, keys) ==
    keys.active.id = cookie.id /\ keys.active.key = cookie.key

\* find_cookie_master_key finds a key, and it is the one that sealed.
Opens(cookie, keys) ==
    \E slot \in {keys.previous, keys.active, keys.next} :
        slot.valid /\ slot.id = cookie.id /\ slot.key = cookie.key

-------------------------------------------------------------------------------
(* The tasks: pc "maintain", then "rotate" and "save" when something is due, *)
(* then "use".                                                             *)

\* nts_ke_task, once after boot; it ends if there is no ring and none is made.
Ensure(made) ==
    /\ task["nts_ke"].pc = "ensure"
    /\ IF ring = NoRing /\ made
       THEN ring' = FirstRing ELSE UNCHANGED ring
    /\ task' = [task EXCEPT !["nts_ke"].pc =
                    IF ring' = NoRing \/ ~RingValid(ring') THEN "ended" ELSE "idle"]
    /\ UNCHANGED <<now, cookies, overdue>>

Begin(t, work) ==
    /\ task[t].pc = "idle"
    /\ task' = [task EXCEPT ![t] = [Idle EXCEPT !.pc = "maintain", !.work = work]]
    /\ UNCHANGED <<now, ring, cookies, overdue>>

\* A client completes the TLS handshake: nts_cookie_generate_keys.
Connect == Begin("nts_ke", [job |-> "generate"])

\* An NTP request with an NTS cookie: nts_cookie_unpack.
Request(cookie) == Begin("ntp_server", [job |-> "unpack", cookie |-> cookie])

\* The first load, and the clock.
Load(t) ==
    /\ task[t].pc = "maintain"
    /\ ring # NoRing
    /\ RingValid(ring)

\* Nothing is due.
Leave(t) ==
    /\ Load(t)
    /\ ~Due(ring, now)
    /\ task' = [task EXCEPT ![t] = [@ EXCEPT !.pc = "use", !.read = now]]
    /\ UNCHANGED <<now, ring, cookies, overdue>>

\* The first round of the loop, on the task's copy.
Maintain(t) ==
    LET keys == Rotate(ring, Draw(t))
    IN  /\ Load(t)
        /\ Due(ring, now)
        /\ task' = [task EXCEPT ![t] =
                      [@ EXCEPT !.pc = Further(keys, now), !.copy = keys,
                                !.read = now]]
        /\ overdue' = (overdue \/ now >= ring.next.after - 1)
        /\ UNCHANGED <<now, ring, cookies>>

\* Another round.
RotateAgain(t) ==
    LET keys == Rotate(task[t].copy, Draw(t))
    IN  /\ task[t].pc = "rotate"
        /\ task' = [task EXCEPT ![t] =
                      [@ EXCEPT !.pc = Further(keys, task[t].read), !.copy = keys]]
        /\ UNCHANGED <<now, ring, cookies, overdue>>

Save(t) ==
    /\ task[t].pc = "save"
    /\ ring' = task[t].copy
    /\ task' = [task EXCEPT ![t] = [@ EXCEPT !.pc = "use", !.copy = NoRing]]
    /\ UNCHANGED <<now, cookies, overdue>>

\* No storage, no served time, no authentic cookie: the operation is given up,
\* before or after its save took effect.
Fail(t) ==
    /\ task[t].pc \in {"maintain", "rotate", "save", "use"}
    /\ task' = [task EXCEPT ![t] = Idle]
    /\ UNCHANGED <<now, ring, cookies, overdue>>

\* The task goes on to nts_cookie_create, with the times of the grant.
SealNext(t, issued, expires) ==
    task' = [task EXCEPT ![t] =
               [Idle EXCEPT !.pc = "maintain",
                            !.work = [job |-> "seal", issued |-> issued,
                                      expires |-> expires]]]

\* The second load of nts_cookie_generate_keys.
Generate(t) ==
    /\ task[t].pc = "use"
    /\ task[t].work.job = "generate"
    /\ SealNext(t, now, now + Lifetime)
    /\ UNCHANGED <<now, ring, cookies, overdue>>

\* The second load of nts_cookie_unpack: a fresh cookie keeps the old times.
Unpack(t) ==
    /\ task[t].pc = "use"
    /\ task[t].work.job = "unpack"
    /\ LET cookie == task[t].work.cookie
       IN  /\ Opens(cookie, ring)
           /\ cookie.issued <= now /\ now < cookie.expires
           /\ SealNext(t, cookie.issued, cookie.expires)
    /\ UNCHANGED <<now, ring, cookies, overdue>>

Unexpired(some, time) == {cookie \in some : time < cookie.expires}

\* The second load of nts_cookie_create; more cookies may be due (`again').
Seal(t, again) ==
    /\ task[t].pc = "use"
    /\ task[t].work.job = "seal"
    /\ cookies' = Unexpired(cookies \cup
                    {[id |-> ring.active.id, key |-> ring.active.key,
                      issued |-> task[t].work.issued,
                      expires |-> task[t].work.expires]}, now)
    /\ Cardinality(cookies') <= MaxCookies
    /\ IF again THEN SealNext(t, task[t].work.issued, task[t].work.expires)
       ELSE task' = [task EXCEPT ![t] = Idle]
    /\ UNCHANGED <<now, ring, overdue>>

-------------------------------------------------------------------------------
Holding(t) == task[t].pc \in {"rotate", "save", "use"}

Tick ==
    /\ now < MaxTime
    /\ \A t \in Tasks : Holding(t) => task[t].read = now
    /\ now' = now + 1
    /\ cookies' = Unexpired(cookies, now')
    /\ UNCHANGED <<ring, task, overdue>>

\* Power is lost: only NVS and the clients' cookies remain.
Restart ==
    /\ task' = Booting
    /\ UNCHANGED <<now, ring, cookies, overdue>>

Next ==
    \/ Tick
    \/ Restart
    \/ \E made \in BOOLEAN : Ensure(made)
    \/ Connect
    \/ \E cookie \in cookies : Request(cookie)
    \/ \E t \in Tasks :
         \/ Leave(t) \/ Maintain(t) \/ RotateAgain(t) \/ Save(t) \/ Fail(t)
         \/ Generate(t) \/ Unpack(t)
         \/ \E again \in BOOLEAN : Seal(t, again)

Spec == Init /\ [][Next]_vars

-------------------------------------------------------------------------------
(* Properties. *)

Slot == [valid : {TRUE}, id : 0 .. KeyIds - 1, before : Nat, after : Nat,
         key : Keys]

Ring == [stored : {TRUE}, previous : Slot \cup {NoSlot}, active : Slot,
         next : Slot]

\* Type correctness of the storage, the tasks and the cookies.
TypeOK ==
    /\ now \in 1 .. MaxTime
    /\ ring \in Ring \cup {NoRing}
    /\ \A t \in Tasks :
         /\ task[t].pc \in {"ensure", "ended", "idle", "maintain", "rotate", "save",
                            "use"}
         /\ task[t].copy \in Ring \cup {NoRing}
         /\ task[t].read \in 0 .. MaxTime
    /\ cookies \subseteq [id : 1 .. KeyIds - 1, key : Keys,
                          issued : 1 .. MaxTime, expires : Nat]
    /\ overdue \in BOOLEAN

\* Whatever rotations cross, whatever is saved late, and however long nobody
\* looked, the ring in NVS is one that validate_cookie_keyring accepts: a ring
\* it refuses would end NTS for good, since nothing replaces it.
StoredRingValid == ring # NoRing => RingValid(ring)

\* A cookie that has not expired opens under the ring as it is stored, and under
\* the ring of a maintenance now, which takes no more than one round: across
\* rotation, restart and the two tasks rotating at once without a lock.  They
\* draw different NEXT keys, but NEXT is not used before a period has passed
\* (nts_storage_maintain_cookie_keyring, nts_cookie_unpack).
CookiesOpen ==
    ~overdue => \A cookie \in cookies :
        /\ Opens(cookie, ring)
        /\ Due(ring, now) =>
             LET keys == Rotate(ring, Draw("ntp_server"))
             IN  Opens(cookie, keys) /\ ~Due(keys, now)

\* However long ago the last maintenance was, and whichever task saved last, an
\* operation past its own maintenance works with an active key that is in its
\* interval, but for the tick two operations may be late (the callers of
\* nts_storage_maintain_cookie_keyring look at no interval themselves).
ActiveKeyCurrent ==
    \A t \in Tasks : task[t].pc = "use" =>
        ring.active.before <= now /\ now <= ring.active.after + 1
===============================================================================
