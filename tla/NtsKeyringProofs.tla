---------------------------- MODULE NtsKeyringProofs ----------------------------
(***************************************************************************)
(* Proofs about NtsKeyring, for every period, lifetime, width of the       *)
(* identifiers, number of cookies and time.                                *)
(*                                                                         *)
(* KeyringTypes says what the ring, a task's copy and its work are.  The   *)
(* intervals of a ring's slots follow one another (Chain), in NVS and in   *)
(* every copy, which is all that validate_cookie_keyring asks.  Timely     *)
(* places the tick at which a task read the clock against the intervals of *)
(* its copy and of the ring.  Crossing describes two tasks that rotate at  *)
(* once: whichever saves last, the same PREVIOUS and ACTIVE keys are       *)
(* stored; with Covered, which says under which keys the unexpired cookies *)
(* are, it keeps them openable.                                            *)
(***************************************************************************)
EXTENDS NtsKeyring, TLAPS

Ids == 1 .. KeyIds - 1

Cookie == [id : Ids, key : Keys, issued : 1 .. MaxTime, expires : Nat]

Generates == [job : {"generate"}]

Unpacks == [job : {"unpack"}, cookie : Cookie]

Seals == [job : {"seal"}, issued : 1 .. MaxTime, expires : Nat]

Works == Generates \cup Unpacks \cup Seals

Pcs == {"ensure", "ended", "idle", "maintain", "rotate", "save", "use"}

Copies == Ring \cup {NoRing}

TaskRec == [pc : Pcs, work : Works \cup {NoWork}, copy : Copies,
            read : 0 .. MaxTime]

InHandPcs == {"maintain", "rotate", "save", "use"}

\* What an operation has when it is under way.
InHand(t) ==
    /\ task[t].pc \in InHandPcs => task[t].work \in Works
    /\ Holding(t) => ring # NoRing
    /\ task[t].pc \in {"rotate", "save"} => task[t].copy \in Ring

KeyringTypes ==
    /\ now \in 1 .. MaxTime
    /\ ring \in Ring \cup {NoRing}
    /\ task \in [Tasks -> TaskRec]
    /\ \A t \in Tasks : InHand(t)
    /\ cookies \subseteq Cookie
    /\ cookies # {} => ring # NoRing
    /\ overdue \in BOOLEAN

\* `later' begins where `slot' ends, under the next identifier.
Follows(slot, later) ==
    /\ later.id = NextId(slot.id)
    /\ later.before = slot.after

\* An interval of one period, under an identifier that is not 0.
Whole(slot) == slot.id \in Ids /\ slot.after = slot.before + Period

Chain(keys) ==
    /\ Whole(keys.active)
    /\ Whole(keys.next)
    /\ Follows(keys.active, keys.next)
    /\ keys.previous.valid =>
         Whole(keys.previous) /\ Follows(keys.previous, keys.active)

RingInv == ring # NoRing => Chain(ring) /\ ring.active.before <= now

CopyInv ==
    \A t \in Tasks : task[t].pc \in {"rotate", "save"} =>
        /\ Chain(task[t].copy)
        /\ task[t].copy.active.before <= task[t].read
        /\ task[t].pc = "rotate" <=> task[t].copy.active.after <= task[t].read

ReadInv ==
    \A t \in Tasks : Holding(t) => task[t].read <= now /\ now <= task[t].read + 1

\* An operation past its maintenance finds a ring that was not due for it.
UseInv ==
    \A t \in Tasks : task[t].pc = "use" => task[t].read <= ring.active.after

Timely == RingInv /\ CopyInv /\ ReadInv /\ UseInv

\* Nothing has been saved since the task loaded the ring, or what it is about to
\* save is stored already, but for the key of NEXT.
Crosses(copy) ==
    \/ copy.previous = ring.active /\ copy.active = ring.next
    \/ copy.previous = ring.previous /\ copy.active = ring.active

CrossingInv ==
    \A t \in Tasks : task[t].pc \in {"rotate", "save"} =>
        /\ task[t].read + 1 < task[t].copy.active.after
        /\ task[t].copy.previous.valid
        /\ Crosses(task[t].copy)

\* A cookie lives for one lifetime, and was issued by then.
Granted(some, time) == some.issued <= time /\ some.expires = some.issued + Lifetime

Fit(work, time) ==
    /\ work.job = "seal" => Granted(work, time)
    /\ work.job = "unpack" => Granted(work.cookie, time)

WorkInv ==
    \A t \in Tasks :
        /\ task[t].pc \in InHandPcs => Fit(task[t].work, now)
        /\ Holding(t) /\ task[t].work.job = "seal" =>
             Granted(task[t].work, task[t].read)

\* The slot's key sealed the cookie, while it was ACTIVE.
Under(cookie, slot) ==
    /\ slot.valid /\ slot.id = cookie.id /\ slot.key = cookie.key
    /\ cookie.expires <= slot.after + Lifetime

CookieInv ==
    \A cookie \in cookies : Under(cookie, ring.active) \/ Under(cookie, ring.previous)

Covered == ~overdue => CrossingInv /\ CookieInv

UnexpiredInv ==
    \A cookie \in cookies : Granted(cookie, now) /\ now < cookie.expires

Lived == WorkInv /\ UnexpiredInv

IInv == KeyringTypes /\ Timely /\ Lived /\ Covered

-------------------------------------------------------------------------------
(* Slots and rings. *)

LEMMA NextIdFact ==
    ASSUME NEW id \in Ids
    PROVE  NextId(id) \in Ids /\ NextId(id) # id /\ NextId(NextId(id)) # id
BY KeyringAssumption DEF Ids, NextId

LEMMA SlotFields ==
    ASSUME NEW slot \in Slot
    PROVE  /\ slot.valid = TRUE
           /\ slot.id \in 0 .. KeyIds - 1
           /\ slot.before \in Nat /\ slot.after \in Nat
           /\ slot.key \in Keys
BY DEF Slot

LEMMA RingFields ==
    ASSUME NEW keys \in Ring
    PROVE  /\ keys # NoRing
           /\ keys.active \in Slot /\ keys.next \in Slot
           /\ keys.previous \in Slot \cup {NoSlot}
           /\ keys.previous.valid => keys.previous \in Slot
           /\ keys.previous \in Slot => keys.previous.valid
           /\ keys.active.valid /\ keys.next.valid
<1>1. /\ keys.stored = TRUE
      /\ keys.active \in Slot /\ keys.next \in Slot
      /\ keys.previous \in Slot \cup {NoSlot}
  BY DEF Ring
<1>2. NoRing.stored = FALSE /\ NoSlot.valid = FALSE
  BY DEF NoRing, NoSlot
<1>3. keys # NoRing
  BY <1>1, <1>2, Zenon
<1>4. keys.active.valid /\ keys.next.valid
  BY <1>1, SlotFields, Zenon
<1>5. keys.previous \in Slot => keys.previous.valid
  BY SlotFields, Zenon
<1>6. keys.previous.valid => keys.previous \in Slot
  BY <1>1, <1>2, Zenon
<1> QED
  BY <1>1, <1>3, <1>4, <1>5, <1>6, Zenon

LEMMA NewSlotFields ==
    ASSUME NEW id \in Ids, NEW before \in Nat, NEW key \in Keys
    PROVE  /\ NewSlot(id, before, key) \in Slot
           /\ NewSlot(id, before, key).id = id
           /\ NewSlot(id, before, key).before = before
           /\ NewSlot(id, before, key).after = before + Period
           /\ Whole(NewSlot(id, before, key))
BY KeyringAssumption DEF NewSlot, Slot, Ids, Whole

\* The intervals of a ring whose slots follow one another.
LEMMA ChainTimes ==
    ASSUME NEW keys \in Ring, Chain(keys)
    PROVE  /\ keys.active.id \in Ids /\ keys.next.id \in Ids
           /\ keys.active.after = keys.active.before + Period
           /\ keys.next.before = keys.active.after
           /\ keys.next.after = keys.active.after + Period
           /\ keys.previous.valid => keys.previous.after = keys.active.before
BY RingFields, SlotFields, KeyringAssumption DEF Chain, Whole, Follows

LEMMA WholeValid ==
    ASSUME NEW slot \in Slot, Whole(slot)
    PROVE  SlotValid(slot)
<1>1. slot.valid
  BY SlotFields, Zenon
<1>2. /\ slot.id \in Ids /\ slot.before \in Nat
      /\ slot.after = slot.before + Period
  BY SlotFields DEF Whole
<1>3. slot.id # 0 /\ slot.before < slot.after
  BY <1>2, KeyringAssumption DEF Ids
<1> QED
  BY <1>1, <1>3, Zenon DEF SlotValid

\* validate_cookie_keyring accepts such a ring: three successive identifiers are
\* different, and none is 0.
LEMMA ChainValid ==
    ASSUME NEW keys \in Ring, Chain(keys)
    PROVE  RingValid(keys)
<1>1. SlotValid(keys.active) /\ SlotValid(keys.next)
  BY RingFields, WholeValid, Zenon DEF Chain
<1>2. keys.active.id # keys.next.id /\ keys.next.before = keys.active.after
  BY NextIdFact DEF Chain, Whole, Follows
<1>3. ASSUME keys.previous.valid
      PROVE  /\ SlotValid(keys.previous)
             /\ keys.previous.id \notin {keys.active.id, keys.next.id}
             /\ keys.previous.after = keys.active.before
  <2>1. keys.previous \in Slot
    BY <1>3, RingFields
  <2>2. SlotValid(keys.previous)
    BY <1>3, <2>1, WholeValid, Zenon DEF Chain
  <2>3. /\ keys.previous.id \in Ids
        /\ keys.active.id = NextId(keys.previous.id)
        /\ keys.next.id = NextId(keys.active.id)
        /\ keys.previous.after = keys.active.before
    BY <1>3 DEF Chain, Whole, Follows
  <2> QED
    BY <2>2, <2>3, NextIdFact
<1> QED
  BY <1>1, <1>2, <1>3 DEF RingValid

\* One round of the rotation keeps a ring, and its slots in line.
LEMMA RotateFacts ==
    ASSUME NEW keys \in Ring, Chain(keys), NEW key \in Keys
    PROVE  /\ Rotate(keys, key) \in Ring
           /\ Chain(Rotate(keys, key))
           /\ Rotate(keys, key).previous = keys.active
           /\ Rotate(keys, key).active = keys.next
           /\ Rotate(keys, key).previous.valid
           /\ Rotate(keys, key).active.before = keys.active.after
           /\ Rotate(keys, key).active.after = keys.next.after
<1> DEFINE later == NewSlot(NextId(keys.next.id), keys.next.after, key)
           rotated == Rotate(keys, key)
<1>1. keys.next.id \in Ids /\ keys.next.after \in Nat
  BY RingFields, SlotFields DEF Chain, Whole
<1>2. NextId(keys.next.id) \in Ids
  BY <1>1, NextIdFact
<1>3. /\ later \in Slot /\ later.id = NextId(keys.next.id)
      /\ later.before = keys.next.after /\ Whole(later)
  BY <1>1, <1>2, NewSlotFields
<1> HIDE DEF later
<1>4. rotated = [keys EXCEPT !.previous = keys.active, !.active = keys.next,
                             !.next = later]
  BY DEF Rotate, later
<1> HIDE DEF rotated
<1>5. keys.active \in Slot /\ keys.next \in Slot
  BY RingFields
<1>6. /\ rotated \in Ring
      /\ rotated.previous = keys.active
      /\ rotated.active = keys.next
      /\ rotated.next = later
  BY <1>3, <1>4, <1>5 DEF Ring
<1>7. Chain(rotated)
  BY <1>3, <1>6 DEF Chain, Follows
<1>8. rotated.previous.valid
  BY <1>5, <1>6, SlotFields
<1>9. rotated.active.before = keys.active.after
  BY <1>6, ChainTimes
<1> QED
  BY <1>6, <1>7, <1>8, <1>9 DEF rotated

-------------------------------------------------------------------------------
(* What an action makes of the tasks. *)

\* Task `t' alone changes, and to this.
Becomes(t, pc, work, copy, read) ==
    /\ task' \in [Tasks -> TaskRec]
    /\ task'[t].pc = pc /\ task'[t].work = work
    /\ task'[t].copy = copy /\ task'[t].read = read
    /\ \A u \in Tasks \ {t} : task'[u] = task[u]

LEMMA TaskFields ==
    ASSUME task \in [Tasks -> TaskRec], NEW t \in Tasks
    PROVE  /\ task[t] \in TaskRec
           /\ task[t].pc \in Pcs
           /\ task[t].work \in Works \cup {NoWork}
           /\ task[t].copy \in Copies
           /\ task[t].read \in 0 .. MaxTime
BY DEF TaskRec

LEMMA TaskSet ==
    ASSUME task \in [Tasks -> TaskRec], NEW t \in Tasks, NEW rec \in TaskRec,
           task' = [task EXCEPT ![t] = rec]
    PROVE  Becomes(t, rec.pc, rec.work, rec.copy, rec.read)
BY DEF Becomes

\* A record of a task, but for its work.
With(rec, pc, copy, read) ==
    [[[rec EXCEPT !.pc = pc] EXCEPT !.copy = copy] EXCEPT !.read = read]

LEMMA RecordSet ==
    ASSUME NEW rec \in TaskRec, NEW pc \in Pcs, NEW copy \in Copies,
           NEW read \in 0 .. MaxTime
    PROVE  /\ With(rec, pc, copy, read) \in TaskRec
           /\ With(rec, pc, copy, read).pc = pc
           /\ With(rec, pc, copy, read).work = rec.work
           /\ With(rec, pc, copy, read).copy = copy
           /\ With(rec, pc, copy, read).read = read
<1> DEFINE one == [rec EXCEPT !.pc = pc]
           two == [one EXCEPT !.copy = copy]
           new == With(rec, pc, copy, read)
<1>1. one \in TaskRec /\ one.pc = pc /\ one.work = rec.work
  BY DEF TaskRec
<1>3. new = [two EXCEPT !.read = read]
  BY DEF With
<1> HIDE DEF one
<1>4. two \in TaskRec /\ two.pc = pc /\ two.work = rec.work /\ two.copy = copy
  BY <1>1 DEF TaskRec
<1> HIDE DEF two, new
<1>5. /\ new \in TaskRec /\ new.pc = pc /\ new.work = rec.work
      /\ new.copy = copy /\ new.read = read
  BY <1>3, <1>4 DEF TaskRec
<1> QED
  BY <1>5 DEF new

LEMMA IdleFields ==
    /\ Idle \in TaskRec
    /\ Idle.pc = "idle" /\ Idle.work = NoWork /\ Idle.copy = NoRing /\ Idle.read = 0
BY KeyringAssumption DEF Idle, TaskRec, Pcs, Copies

\* A task takes up work.
LEMMA WorkSet ==
    ASSUME NEW work \in Works, NEW new,
           new = [Idle EXCEPT !.pc = "maintain", !.work = work]
    PROVE  /\ new \in TaskRec
           /\ new.pc = "maintain" /\ new.work = work
           /\ new.copy = NoRing /\ new.read = 0
<1> DEFINE made == [pc |-> "maintain", work |-> work, copy |-> NoRing, read |-> 0]
<1>1. /\ "maintain" \in Pcs /\ 0 \in 0 .. MaxTime
      /\ work \in Works \cup {NoWork} /\ NoRing \in Copies
  BY KeyringAssumption DEF Pcs, Copies
<1>2. made \in TaskRec
  BY <1>1 DEF TaskRec
<1>3. /\ made.pc = "maintain" /\ made.work = work
      /\ made.copy = NoRing /\ made.read = 0
  OBVIOUS
<1>4. new = made
  BY DEF Idle
<1> QED
  BY <1>2, <1>3, <1>4, Zenon

LEMMA DrawFact ==
    ASSUME KeyringTypes, NEW t \in Tasks
    PROVE  Draw(t) \in Keys
BY DEF KeyringTypes, Draw, Keys

LEMMA TypesOfTask ==
    ASSUME KeyringTypes, NEW t \in Tasks
    PROVE  /\ task \in [Tasks -> TaskRec]
           /\ task[t] \in TaskRec
           /\ task[t].pc \in Pcs
           /\ task[t].work \in Works \cup {NoWork}
           /\ task[t].copy \in Copies
           /\ task[t].read \in 0 .. MaxTime
           /\ InHand(t)
           /\ now \in 1 .. MaxTime /\ now \in 0 .. MaxTime
BY TaskFields DEF KeyringTypes

LEMMA LeaveEffect ==
    ASSUME KeyringTypes, NEW t \in Tasks, Leave(t)
    PROVE  Becomes(t, "use", task[t].work, task[t].copy, now) /\ ring \in Ring
<1> DEFINE pc == "use"
           new == [task[t] EXCEPT !.pc = pc, !.read = now]
<1>1. task' = [task EXCEPT ![t] = new]
  BY DEF Leave
<1>2. new = With(task[t], pc, task[t].copy, now)
  BY TypesOfTask DEF With, TaskRec
<1>3. pc \in Pcs
  BY DEF Pcs
<1> HIDE DEF pc
<1>4. /\ new \in TaskRec /\ new.pc = pc /\ new.work = task[t].work
      /\ new.copy = task[t].copy /\ new.read = now
  <2> HIDE DEF new
  <2>1. /\ task[t] \in TaskRec /\ task[t].copy \in Copies
        /\ now \in 0 .. MaxTime
    BY TypesOfTask
  <2> QED BY <1>2, <1>3, <2>1, RecordSet
<1> HIDE DEF new
<1>5. ring \in Ring
  BY DEF Leave, Load, KeyringTypes
<1>6. Becomes(t, pc, task[t].work, task[t].copy, now)
  BY <1>1, <1>4, TypesOfTask, TaskSet
<1> QED
  BY <1>5, <1>6 DEF pc

LEMMA MaintainEffect ==
    ASSUME KeyringTypes, RingInv, NEW t \in Tasks, Maintain(t)
    PROVE  LET keys == Rotate(ring, Draw(t))
           IN  /\ ring \in Ring /\ Chain(ring)
               /\ keys \in Ring
               /\ Becomes(t, Further(keys, now), task[t].work, keys, now)
<1> DEFINE keys == Rotate(ring, Draw(t))
           pc == Further(keys, now)
           new == [task[t] EXCEPT !.pc = pc, !.copy = keys, !.read = now]
<1>1. task' = [task EXCEPT ![t] = new]
  BY DEF Maintain
<1>2. ring \in Ring /\ Chain(ring)
  BY DEF Maintain, Load, KeyringTypes, RingInv
<1>3. keys \in Ring /\ keys \in Copies
  BY <1>2, DrawFact, RotateFacts DEF Copies
<1>4. pc \in Pcs
  BY DEF Further, Pcs
<1> HIDE DEF keys, pc
<1>5. new = With(task[t], pc, keys, now)
  BY TypesOfTask DEF With, TaskRec
<1>6. /\ new \in TaskRec /\ new.pc = pc /\ new.work = task[t].work
      /\ new.copy = keys /\ new.read = now
  <2> HIDE DEF new
  <2> QED BY <1>3, <1>4, <1>5, TypesOfTask, RecordSet
<1> HIDE DEF new
<1>7. Becomes(t, pc, task[t].work, keys, now)
  BY <1>1, <1>6, TypesOfTask, TaskSet
<1> QED
  BY <1>2, <1>3, <1>7 DEF keys, pc

LEMMA RotateAgainEffect ==
    ASSUME KeyringTypes, CopyInv, NEW t \in Tasks, RotateAgain(t)
    PROVE  LET keys == Rotate(task[t].copy, Draw(t))
           IN  /\ task[t].copy \in Ring /\ Chain(task[t].copy)
               /\ keys \in Ring
               /\ Becomes(t, Further(keys, task[t].read), task[t].work, keys,
                          task[t].read)
<1> DEFINE keys == Rotate(task[t].copy, Draw(t))
           pc == Further(keys, task[t].read)
           new == [task[t] EXCEPT !.pc = pc, !.copy = keys]
<1>1. task' = [task EXCEPT ![t] = new]
  BY DEF RotateAgain
<1>2. task[t].copy \in Ring /\ Chain(task[t].copy)
  BY TypesOfTask DEF RotateAgain, InHand, CopyInv
<1>3. keys \in Ring /\ keys \in Copies
  BY <1>2, DrawFact, RotateFacts DEF Copies
<1>4. pc \in Pcs
  BY DEF Further, Pcs
<1> HIDE DEF keys, pc
<1>5. new = With(task[t], pc, keys, task[t].read)
  BY TypesOfTask DEF With, TaskRec
<1>6. /\ new \in TaskRec /\ new.pc = pc /\ new.work = task[t].work
      /\ new.copy = keys /\ new.read = task[t].read
  <2> HIDE DEF new
  <2> QED BY <1>3, <1>4, <1>5, TypesOfTask, RecordSet
<1> HIDE DEF new
<1>7. Becomes(t, pc, task[t].work, keys, task[t].read)
  BY <1>1, <1>6, TypesOfTask, TaskSet
<1> QED
  BY <1>2, <1>3, <1>7 DEF keys, pc

LEMMA SaveEffect ==
    ASSUME KeyringTypes, NEW t \in Tasks, Save(t)
    PROVE  /\ Becomes(t, "use", task[t].work, NoRing, task[t].read)
           /\ task[t].copy \in Ring /\ ring' = task[t].copy
<1> DEFINE pc == "use"
           new == [task[t] EXCEPT !.pc = pc, !.copy = NoRing]
<1>1. task' = [task EXCEPT ![t] = new] /\ ring' = task[t].copy
  BY DEF Save
<1>2. task[t].copy \in Ring
  BY TypesOfTask DEF Save, InHand
<1>3. new = With(task[t], pc, NoRing, task[t].read)
  BY TypesOfTask DEF With, TaskRec
<1>4. pc \in Pcs /\ NoRing \in Copies
  BY DEF Pcs, Copies
<1> HIDE DEF pc
<1>5. /\ new \in TaskRec /\ new.pc = pc /\ new.work = task[t].work
      /\ new.copy = NoRing /\ new.read = task[t].read
  <2> HIDE DEF new
  <2>1. task[t] \in TaskRec /\ task[t].read \in 0 .. MaxTime
    BY TypesOfTask
  <2> QED BY <1>3, <1>4, <2>1, RecordSet
<1> HIDE DEF new
<1>6. Becomes(t, pc, task[t].work, NoRing, task[t].read)
  BY <1>1, <1>5, TypesOfTask, TaskSet
<1> QED
  BY <1>1, <1>2, <1>6 DEF pc

LEMMA IdleEffect ==
    ASSUME KeyringTypes, NEW t \in Tasks, task' = [task EXCEPT ![t] = Idle]
    PROVE  Becomes(t, "idle", NoWork, NoRing, 0)
<1>1. task \in [Tasks -> TaskRec]
  BY TypesOfTask
<1> QED
  BY <1>1, IdleFields, TaskSet

LEMMA WorkEffect ==
    ASSUME KeyringTypes, NEW t \in Tasks, NEW work \in Works,
           task' = [task EXCEPT ![t] = [Idle EXCEPT !.pc = "maintain", !.work = work]]
    PROVE  Becomes(t, "maintain", work, NoRing, 0)
<1> DEFINE new == [Idle EXCEPT !.pc = "maintain", !.work = work]
<1>1. /\ new \in TaskRec
      /\ new.pc = "maintain" /\ new.work = work
      /\ new.copy = NoRing /\ new.read = 0
  <2> HIDE DEF new
  <2>1. new = [Idle EXCEPT !.pc = "maintain", !.work = work]
    BY DEF new
  <2> QED BY <2>1, WorkSet
<1>2. task' = [task EXCEPT ![t] = new]
  OBVIOUS
<1> HIDE DEF new
<1>3. task \in [Tasks -> TaskRec]
  BY TypesOfTask
<1> QED
  BY <1>1, <1>2, <1>3, TaskSet

-------------------------------------------------------------------------------
(* Types. *)

LEMMA TypesKept ==
    ASSUME KeyringTypes, NEW t \in Tasks, NEW pc, NEW work, NEW copy, NEW read,
           Becomes(t, pc, work, copy, read),
           pc \in InHandPcs => work \in Works,
           pc \in {"rotate", "save"} => copy \in Ring,
           pc \in {"rotate", "save", "use"} => ring' # NoRing,
           ring # NoRing => ring' # NoRing
    PROVE  task' \in [Tasks -> TaskRec] /\ \A u \in Tasks : InHand(u)'
<1> SUFFICES ASSUME NEW u \in Tasks PROVE InHand(u)'
  BY Zenon DEF Becomes
<1>1. CASE u = t
  <2>1. task'[u].pc = pc /\ task'[u].work = work /\ task'[u].copy = copy
    BY <1>1, Zenon DEF Becomes
  <2> QED BY <2>1, Zenon DEF InHand, Holding, InHandPcs
<1>2. CASE u # t
  <2>1. task'[u] = task[u]
    BY <1>2, Zenon DEF Becomes
  <2>2. InHand(u)
    BY TypesOfTask
  <2> QED BY <2>1, <2>2, Zenon DEF InHand, Holding
<1> QED
  BY <1>1, <1>2

LEMMA TypesRest ==
    ASSUME KeyringTypes, task' \in [Tasks -> TaskRec], \A u \in Tasks : InHand(u)',
           now' = now, ring' \in Ring \cup {NoRing}, cookies' \subseteq Cookie,
           cookies' # {} => ring' # NoRing, overdue' \in BOOLEAN
    PROVE  KeyringTypes'
BY DEF KeyringTypes

\* A task idles, ends, or takes up work; the other task is as it was.
Settles(t) ==
    /\ task' \in [Tasks -> TaskRec]
    /\ task'[t].pc \in {"idle", "ended", "maintain"}
    /\ task'[t].pc = "maintain" =>
         task'[t].work \in Works /\ Fit(task'[t].work, now)
    /\ \A u \in Tasks \ {t} : task'[u] = task[u]

LEMMA SettlesTypes ==
    ASSUME KeyringTypes, NEW t \in Tasks, Settles(t), now' = now, overdue' = overdue,
           ring' \in Ring \cup {NoRing}, ring # NoRing => ring' # NoRing,
           cookies' \subseteq Cookie, cookies' # {} => ring' # NoRing
    PROVE  KeyringTypes'
<1>1. ASSUME NEW u \in Tasks PROVE InHand(u)'
  <2>1. CASE u = t
    <3>1. /\ task'[u].pc \in {"idle", "ended", "maintain"}
          /\ task'[u].pc = "maintain" => task'[u].work \in Works
      BY <2>1, Zenon DEF Settles
    <3> QED BY <3>1 DEF InHand, Holding, InHandPcs
  <2>2. CASE u # t
    <3>1. task'[u] = task[u]
      BY <2>2, Zenon DEF Settles
    <3>2. InHand(u)
      BY TypesOfTask
    <3> QED BY <3>1, <3>2, Zenon DEF InHand, Holding
  <2> QED
    BY <2>1, <2>2
<1>2. task' \in [Tasks -> TaskRec] /\ overdue' \in BOOLEAN
  BY DEF Settles, KeyringTypes
<1> QED
  BY <1>1, <1>2, TypesRest

LEMMA LeaveTypes ==
    ASSUME KeyringTypes, NEW t \in Tasks, Leave(t)
    PROVE  KeyringTypes'
<1>1. Becomes(t, "use", task[t].work, task[t].copy, now) /\ ring \in Ring
  BY LeaveEffect
<1>2. UNCHANGED <<now, ring, cookies, overdue>> /\ task[t].pc = "maintain"
  BY DEF Leave, Load
<1>3. task[t].work \in Works
  BY <1>2, TypesOfTask DEF InHandPcs, InHand
<1>4. ring # NoRing
  BY <1>1, RingFields
<1>5. task' \in [Tasks -> TaskRec] /\ \A u \in Tasks : InHand(u)'
  BY <1>1, <1>2, <1>3, <1>4, TypesKept
<1> QED
  BY <1>2, <1>5, TypesRest DEF KeyringTypes

LEMMA MaintainTypes ==
    ASSUME KeyringTypes, RingInv, NEW t \in Tasks, Maintain(t)
    PROVE  KeyringTypes'
<1> DEFINE keys == Rotate(ring, Draw(t))
           pc == Further(keys, now)
<1>1. ring \in Ring /\ keys \in Ring /\ Becomes(t, pc, task[t].work, keys, now)
  BY MaintainEffect
<1>2. UNCHANGED <<now, ring, cookies>> /\ task[t].pc = "maintain"
      /\ overdue' = (overdue \/ now >= ring.next.after - 1)
  BY DEF Maintain, Load
<1>3. task[t].work \in Works
  BY <1>2, TypesOfTask DEF InHandPcs, InHand
<1>4. ring # NoRing
  BY <1>1, RingFields
<1>5. task' \in [Tasks -> TaskRec] /\ \A u \in Tasks : InHand(u)'
  <2> HIDE DEF keys, pc
  <2> QED BY <1>1, <1>2, <1>3, <1>4, TypesKept
<1>6. overdue' \in BOOLEAN
  BY <1>2 DEF KeyringTypes
<1> QED
  BY <1>2, <1>5, <1>6, TypesRest DEF KeyringTypes

LEMMA RotateAgainTypes ==
    ASSUME KeyringTypes, CopyInv, NEW t \in Tasks, RotateAgain(t)
    PROVE  KeyringTypes'
<1> DEFINE keys == Rotate(task[t].copy, Draw(t))
           pc == Further(keys, task[t].read)
<1>1. keys \in Ring /\ Becomes(t, pc, task[t].work, keys, task[t].read)
  BY RotateAgainEffect
<1>2. UNCHANGED <<now, ring, cookies, overdue>> /\ task[t].pc = "rotate"
  BY DEF RotateAgain
<1>3. task[t].work \in Works /\ ring # NoRing
  BY <1>2, TypesOfTask DEF InHandPcs, InHand, Holding
<1>4. task' \in [Tasks -> TaskRec] /\ \A u \in Tasks : InHand(u)'
  <2> HIDE DEF keys, pc
  <2> QED BY <1>1, <1>2, <1>3, TypesKept
<1> QED
  BY <1>2, <1>4, TypesRest DEF KeyringTypes

LEMMA SaveTypes ==
    ASSUME KeyringTypes, NEW t \in Tasks, Save(t)
    PROVE  KeyringTypes'
<1>1. /\ Becomes(t, "use", task[t].work, NoRing, task[t].read)
      /\ task[t].copy \in Ring /\ ring' = task[t].copy
  BY SaveEffect
<1>2. UNCHANGED <<now, cookies, overdue>> /\ task[t].pc = "save"
  BY DEF Save
<1>3. task[t].work \in Works
  BY <1>2, TypesOfTask DEF InHandPcs, InHand
<1>4. ring' \in Ring /\ ring' # NoRing
  BY <1>1, RingFields
<1>5. task' \in [Tasks -> TaskRec] /\ \A u \in Tasks : InHand(u)'
  BY <1>1, <1>3, <1>4, TypesKept
<1> QED
  BY <1>2, <1>4, <1>5, TypesRest DEF KeyringTypes

-------------------------------------------------------------------------------
(* The actions that do not hold a key. *)

LEMMA FirstRingFacts ==
    ASSUME now \in 1 .. MaxTime
    PROVE  /\ FirstRing \in Ring /\ Chain(FirstRing)
           /\ FirstRing.active.before = now
<1> DEFINE key == Draw("nts_ke")
           active == NewSlot(1, now, key)
           next == NewSlot(2, active.after, key)
<1>1. key \in Keys /\ 1 \in Ids /\ 2 \in Ids /\ now \in Nat /\ NextId(1) = 2
  BY KeyringAssumption DEF Draw, Keys, Tasks, Ids, NextId
<1> HIDE DEF key
<1>2. /\ active \in Slot /\ active.id = 1 /\ active.before = now
      /\ active.after = now + Period /\ Whole(active)
  BY <1>1, NewSlotFields
<1> HIDE DEF active
<1>3. active.after \in Nat
  BY <1>2, SlotFields
<1>4. next \in Slot /\ next.id = 2 /\ next.before = active.after /\ Whole(next)
  BY <1>1, <1>3, NewSlotFields
<1> HIDE DEF next
<1>5. FirstRing = [stored |-> TRUE, previous |-> NoSlot, active |-> active,
                   next |-> next]
  BY DEF FirstRing, active, next, key
<1>6. /\ FirstRing \in Ring /\ FirstRing.active = active /\ FirstRing.next = next
      /\ FirstRing.previous = NoSlot
  BY <1>2, <1>4, <1>5 DEF Ring
<1>7. ~FirstRing.previous.valid
  BY <1>6 DEF NoSlot
<1>8. Chain(FirstRing)
  BY <1>1, <1>2, <1>4, <1>6, <1>7 DEF Chain, Follows
<1> QED
  BY <1>2, <1>6, <1>8

LEMMA WorkKinds ==
    ASSUME NEW work \in Works
    PROVE  /\ work.job = "seal" => work \in Seals
           /\ work.job = "unpack" => work \in Unpacks
           /\ work \in Seals => /\ work.issued \in 1 .. MaxTime
                                /\ work.expires \in Nat
           /\ work \in Unpacks => work.cookie \in Cookie
BY DEF Works, Generates, Unpacks, Seals

\* The work of a nts_cookie_create.
Sealing(issued, expires) ==
    [job |-> "seal", issued |-> issued, expires |-> expires]

LEMMA SealingFacts ==
    ASSUME NEW issued \in 1 .. MaxTime, NEW expires \in Nat
    PROVE  /\ Sealing(issued, expires) \in Works
           /\ Sealing(issued, expires).job = "seal"
           /\ Sealing(issued, expires).issued = issued
           /\ Sealing(issued, expires).expires = expires
BY DEF Sealing, Works, Seals

LEMMA SettlesIdle ==
    ASSUME KeyringTypes, NEW t \in Tasks, task' = [task EXCEPT ![t] = Idle]
    PROVE  Settles(t)
BY IdleEffect DEF Becomes, Settles

LEMMA SettlesWork ==
    ASSUME KeyringTypes, NEW t \in Tasks, NEW work \in Works, Fit(work, now),
           task' = [task EXCEPT ![t] = [Idle EXCEPT !.pc = "maintain", !.work = work]]
    PROVE  Settles(t)
BY WorkEffect DEF Becomes, Settles

LEMMA SealNextSettles ==
    ASSUME KeyringTypes, NEW t \in Tasks,
           NEW issued \in 1 .. MaxTime, NEW expires \in Nat,
           issued <= now, expires = issued + Lifetime,
           SealNext(t, issued, expires)
    PROVE  Settles(t)
<1> DEFINE work == Sealing(issued, expires)
<1>1. task' = [task EXCEPT ![t] = [Idle EXCEPT !.pc = "maintain", !.work = work]]
  BY DEF SealNext, Sealing
<1>2. work \in Works /\ work.job = "seal" /\ work.issued = issued
      /\ work.expires = expires
  BY SealingFacts
<1> HIDE DEF work
<1>3. Fit(work, now)
  BY <1>2 DEF Fit, Granted
<1> QED
  BY <1>1, <1>2, <1>3, SettlesWork

LEMMA EnsureSettles ==
    ASSUME KeyringTypes, NEW made \in BOOLEAN, Ensure(made)
    PROVE  Settles("nts_ke")
<1> DEFINE t == "nts_ke"
           pc == IF ring' = NoRing \/ ~RingValid(ring') THEN "ended" ELSE "idle"
           new == [task[t] EXCEPT !.pc = pc]
<1>1. task' = [task EXCEPT ![t] = new]
  BY TypesOfTask DEF Ensure, Tasks
<1>2. pc \in {"ended", "idle"} /\ pc \in Pcs
  BY DEF Pcs
<1> HIDE DEF pc
<1>3. t \in Tasks
  BY DEF Tasks
<1> HIDE DEF t
<1>4. new \in TaskRec /\ new.pc = pc
  BY <1>2, <1>3, TypesOfTask DEF TaskRec
<1> HIDE DEF new
<1>5. Becomes(t, new.pc, new.work, new.copy, new.read)
  BY <1>1, <1>3, <1>4, TypesOfTask, TaskSet
<1>6. Settles(t)
  BY <1>2, <1>4, <1>5 DEF Becomes, Settles
<1> QED
  BY <1>6 DEF t

LEMMA ConnectSettles ==
    ASSUME KeyringTypes, Connect
    PROVE  Settles("nts_ke")
<1> DEFINE work == [job |-> "generate"]
<1>1. /\ task' = [task EXCEPT !["nts_ke"] = [Idle EXCEPT !.pc = "maintain",
                                                         !.work = work]]
      /\ "nts_ke" \in Tasks
  BY DEF Connect, Begin, Tasks
<1>2. work \in Works /\ work.job = "generate"
  BY DEF Works, Generates
<1> HIDE DEF work
<1>3. Fit(work, now)
  BY <1>2 DEF Fit
<1> QED
  BY <1>1, <1>2, <1>3, SettlesWork

LEMMA RequestSettles ==
    ASSUME KeyringTypes, UnexpiredInv, NEW cookie \in cookies, Request(cookie)
    PROVE  Settles("ntp_server")
<1> DEFINE work == [job |-> "unpack", cookie |-> cookie]
<1>1. /\ task' = [task EXCEPT !["ntp_server"] = [Idle EXCEPT !.pc = "maintain",
                                                             !.work = work]]
      /\ "ntp_server" \in Tasks
  BY DEF Request, Begin, Tasks
<1>2. cookie \in Cookie /\ Granted(cookie, now)
  BY DEF KeyringTypes, UnexpiredInv
<1>3. work \in Works /\ work.job = "unpack" /\ work.cookie = cookie
  BY <1>2 DEF Works, Unpacks
<1> HIDE DEF work
<1>4. Fit(work, now)
  BY <1>2, <1>3 DEF Fit
<1> QED
  BY <1>1, <1>3, <1>4, SettlesWork

LEMMA WorkInHand ==
    ASSUME KeyringTypes, WorkInv, NEW t \in Tasks, task[t].pc = "use"
    PROVE  /\ task[t].work \in Works /\ Fit(task[t].work, now)
           /\ ring \in Ring /\ now \in 1 .. MaxTime
<1>1. task[t].work \in Works /\ ring # NoRing
  BY TypesOfTask DEF InHand, InHandPcs, Holding
<1>2. Fit(task[t].work, now)
  BY DEF WorkInv, InHandPcs
<1> QED
  BY <1>1, <1>2 DEF KeyringTypes

LEMMA GenerateSettles ==
    ASSUME KeyringTypes, NEW t \in Tasks, Generate(t)
    PROVE  Settles(t)
<1>1. SealNext(t, now, now + Lifetime)
  BY DEF Generate
<1>2. now \in 1 .. MaxTime /\ now <= now /\ now + Lifetime \in Nat
  BY KeyringAssumption DEF KeyringTypes
<1> QED
  BY <1>1, <1>2, SealNextSettles

LEMMA UnpackSettles ==
    ASSUME KeyringTypes, WorkInv, NEW t \in Tasks, Unpack(t)
    PROVE  Settles(t)
<1> DEFINE cookie == task[t].work.cookie
<1>1. /\ task[t].pc = "use" /\ task[t].work.job = "unpack"
      /\ SealNext(t, cookie.issued, cookie.expires)
  BY DEF Unpack
<1>2. task[t].work \in Works /\ Fit(task[t].work, now)
  BY <1>1, WorkInHand
<1>3. cookie \in Cookie
  BY <1>1, <1>2, WorkKinds
<1>4. Granted(cookie, now)
  BY <1>1, <1>2 DEF Fit
<1> HIDE DEF cookie
<1>5. /\ cookie.issued \in 1 .. MaxTime /\ cookie.expires \in Nat
      /\ cookie.issued <= now /\ cookie.expires = cookie.issued + Lifetime
  BY <1>3, <1>4 DEF Cookie, Granted
<1> QED
  BY <1>1, <1>5, SealNextSettles

\* The work of a task that seals.
LEMMA SealWork ==
    ASSUME KeyringTypes, WorkInv, NEW t \in Tasks, NEW again, Seal(t, again)
    PROVE  /\ task[t].work.issued \in 1 .. MaxTime
           /\ task[t].work.expires \in Nat
           /\ task[t].work.issued <= now
           /\ task[t].work.expires = task[t].work.issued + Lifetime
           /\ ring \in Ring
<1>1. task[t].pc = "use" /\ task[t].work.job = "seal"
  BY DEF Seal
<1>2. /\ task[t].work \in Works /\ Fit(task[t].work, now) /\ ring \in Ring
  BY <1>1, WorkInHand
<1>3. Granted(task[t].work, now)
  BY <1>1, <1>2 DEF Fit
<1> QED
  BY <1>1, <1>2, <1>3, WorkKinds DEF Granted

LEMMA SealSettles ==
    ASSUME KeyringTypes, WorkInv, NEW t \in Tasks, NEW again \in BOOLEAN,
           Seal(t, again)
    PROVE  Settles(t)
<1>1. CASE again
  <2>1. SealNext(t, task[t].work.issued, task[t].work.expires)
    BY <1>1 DEF Seal
  <2> QED BY <2>1, SealWork, SealNextSettles
<1>2. CASE ~again
  <2>1. task' = [task EXCEPT ![t] = Idle]
    BY <1>2 DEF Seal
  <2> QED BY <2>1, SettlesIdle
<1> QED
  BY <1>1, <1>2

\* The cookie a task seals.
Sealed(t) ==
    [id |-> ring.active.id, key |-> ring.active.key,
     issued |-> task[t].work.issued, expires |-> task[t].work.expires]

LEMMA SealCookies ==
    ASSUME KeyringTypes, RingInv, WorkInv, NEW t \in Tasks, NEW again, Seal(t, again)
    PROVE  /\ cookies' \subseteq cookies \cup {Sealed(t)}
           /\ \A cookie \in cookies' : now < cookie.expires
           /\ Sealed(t) \in Cookie
           /\ Sealed(t).id = ring.active.id /\ Sealed(t).key = ring.active.key
           /\ Sealed(t).issued = task[t].work.issued
           /\ Sealed(t).expires = task[t].work.expires
<1>1. /\ task[t].work.issued \in 1 .. MaxTime
      /\ task[t].work.expires \in Nat /\ ring \in Ring
  BY SealWork
<1>2. ring.active.id \in Ids /\ ring.active.key \in Keys
  BY <1>1, RingFields, SlotFields, ChainTimes DEF RingInv
<1>3. cookies' = Unexpired(cookies \cup {Sealed(t)}, now)
  BY DEF Seal, Sealed
<1>4. /\ cookies' \subseteq cookies \cup {Sealed(t)}
      /\ \A cookie \in cookies' : now < cookie.expires
  BY <1>3, Zenon DEF Unexpired
<1>5. /\ Sealed(t) \in Cookie
      /\ Sealed(t).id = ring.active.id /\ Sealed(t).key = ring.active.key
      /\ Sealed(t).issued = task[t].work.issued
      /\ Sealed(t).expires = task[t].work.expires
  BY <1>1, <1>2 DEF Sealed, Cookie
<1> QED
  BY <1>4, <1>5

-------------------------------------------------------------------------------
(* Timely. *)

LEMMA TimelySettles ==
    ASSUME KeyringTypes, Timely, NEW t \in Tasks, Settles(t),
           UNCHANGED <<now, ring>>
    PROVE  Timely'
<1>1. RingInv'
  BY Zenon DEF Timely, RingInv
<1>2. ASSUME NEW u \in Tasks, task'[u].pc \in {"rotate", "save", "use"}
      PROVE  task'[u] = task[u]
  BY <1>2 DEF Settles
<1>3. CopyInv'
  BY <1>2 DEF Timely, CopyInv
<1>4. ReadInv'
  BY <1>2 DEF Timely, ReadInv, Holding
<1>5. UseInv'
  BY <1>2 DEF Timely, UseInv
<1> QED
  BY <1>1, <1>3, <1>4, <1>5 DEF Timely

\* A task that holds a ring needs one.
LEMMA TimelyFree ==
    ASSUME RingInv', \A u \in Tasks : task'[u].pc \notin {"rotate", "save", "use"}
    PROVE  Timely'
BY DEF Timely, CopyInv, ReadInv, UseInv, Holding

LEMMA EnsureRing ==
    ASSUME KeyringTypes, RingInv, NEW made \in BOOLEAN, Ensure(made)
    PROVE  /\ ring' \in Ring \cup {NoRing}
           /\ ring # NoRing => ring' = ring
           /\ RingInv' /\ UNCHANGED <<now, cookies, overdue>>
<1>1. UNCHANGED <<now, cookies, overdue>>
  BY DEF Ensure
<1>2. CASE ring = NoRing /\ made
  <2>1. ring' = FirstRing
    BY <1>2 DEF Ensure
  <2>2. FirstRing \in Ring /\ Chain(FirstRing) /\ FirstRing.active.before <= now
    BY FirstRingFacts DEF KeyringTypes
  <2>3. RingInv'
    BY <1>1, <2>1, <2>2 DEF RingInv
  <2> QED
    BY <1>1, <1>2, <2>1, <2>2, <2>3
<1>3. CASE ~(ring = NoRing /\ made)
  <2>1. ring' = ring
    BY <1>3 DEF Ensure
  <2> QED BY <1>1, <2>1, Zenon DEF KeyringTypes, RingInv
<1> QED
  BY <1>2, <1>3

LEMMA EnsureTimely ==
    ASSUME KeyringTypes, Timely, NEW made \in BOOLEAN, Ensure(made)
    PROVE  Timely'
<1>1. /\ Settles("nts_ke") /\ "nts_ke" \in Tasks
      /\ RingInv' /\ now' = now
      /\ ring # NoRing => ring' = ring
  BY EnsureSettles, EnsureRing DEF Timely, Tasks
<1>2. CASE ring # NoRing
  BY <1>1, <1>2, TimelySettles
<1>3. CASE ring = NoRing
  <2>1. \A u \in Tasks : task[u].pc \notin {"rotate", "save", "use"}
    BY <1>3, TypesOfTask DEF InHand, Holding
  <2>2. \A u \in Tasks : task'[u].pc \notin {"rotate", "save", "use"}
    BY <1>1, <2>1 DEF Settles
  <2> QED
    BY <1>1, <2>2, TimelyFree
<1> QED
  BY <1>2, <1>3

LEMMA RestartFree ==
    ASSUME Restart
    PROVE  /\ task' \in [Tasks -> TaskRec]
           /\ \A u \in Tasks : task'[u].pc \notin InHandPcs
           /\ UNCHANGED <<now, ring, cookies, overdue>>
<1>1. task' = Booting /\ UNCHANGED <<now, ring, cookies, overdue>>
  BY DEF Restart
<1>2. "ensure" \in Pcs
  BY DEF Pcs
<1>3. /\ [Idle EXCEPT !.pc = "ensure"] \in TaskRec
      /\ [Idle EXCEPT !.pc = "ensure"].pc = "ensure"
  BY <1>2, IdleFields DEF TaskRec
<1>4. /\ Booting \in [Tasks -> TaskRec]
      /\ \A u \in Tasks : Booting[u].pc \in {"ensure", "idle"}
  BY <1>3, IdleFields DEF Booting
<1> QED
  BY <1>1, <1>4 DEF InHandPcs

LEMMA RestartTimely ==
    ASSUME Timely, Restart
    PROVE  Timely'
<1>1. RingInv'
  BY RestartFree, Zenon DEF Timely, RingInv
<1>2. \A u \in Tasks : task'[u].pc \notin {"rotate", "save", "use"}
  BY RestartFree DEF InHandPcs
<1> QED
  BY <1>1, <1>2, TimelyFree

LEMMA TickTimely ==
    ASSUME KeyringTypes, Timely, Tick
    PROVE  Timely'
<1>1. /\ now \in 1 .. MaxTime /\ now' = now + 1 /\ UNCHANGED <<ring, task>>
      /\ \A t \in Tasks : Holding(t) => task[t].read = now
  BY DEF Tick, KeyringTypes
<1>2. RingInv'
  <2>1. ASSUME ring # NoRing PROVE ring.active.before <= now + 1
    <3>1. ring.active.before \in Nat /\ ring.active.before <= now
      BY <2>1, RingFields, SlotFields DEF KeyringTypes, Timely, RingInv
    <3> QED BY <1>1, <3>1
  <2> QED
    BY <1>1, <2>1 DEF Timely, RingInv
<1>3. CopyInv'
  BY <1>1, Zenon DEF Timely, CopyInv
<1>4. ReadInv'
  <2> SUFFICES ASSUME NEW t \in Tasks, Holding(t)
               PROVE  task[t].read <= now + 1 /\ now + 1 <= task[t].read + 1
    BY <1>1 DEF ReadInv, Holding
  <2>1. task[t].read = now
    BY <1>1
  <2> QED BY <1>1, <2>1
<1>5. UseInv'
  BY <1>1, Zenon DEF Timely, UseInv
<1> QED
  BY <1>2, <1>3, <1>4, <1>5 DEF Timely

LEMMA LeaveTimely ==
    ASSUME KeyringTypes, Timely, NEW t \in Tasks, Leave(t)
    PROVE  Timely'
<1>1. Becomes(t, "use", task[t].work, task[t].copy, now) /\ ring \in Ring
  BY LeaveEffect
<1>2. UNCHANGED <<now, ring>> /\ ~Due(ring, now) /\ now \in 1 .. MaxTime
  BY DEF Leave, KeyringTypes
<1>3. /\ task'[t].pc = "use" /\ task'[t].read = now
      /\ \A u \in Tasks \ {t} : task'[u] = task[u]
  BY <1>1 DEF Becomes
<1>4. ring.active.after \in Nat /\ ~(now >= ring.active.after)
  BY <1>1, <1>2, RingFields, SlotFields, Zenon DEF Due
<1>5. now <= ring.active.after
  BY <1>2, <1>4
<1>6. RingInv'
  BY <1>2, Zenon DEF Timely, RingInv
<1>7. CopyInv'
  BY <1>3 DEF Timely, CopyInv
<1>8. ReadInv'
  <2> SUFFICES ASSUME NEW u \in Tasks, Holding(u)'
               PROVE  (task[u].read <= now /\ now <= task[u].read + 1)'
    BY DEF ReadInv
  <2>1. CASE u = t
    BY <1>2, <1>3, <2>1
  <2>2. CASE u # t
    BY <1>2, <1>3, <2>2 DEF Timely, ReadInv, Holding
  <2> QED
    BY <2>1, <2>2
<1>9. UseInv'
  BY <1>2, <1>3, <1>5 DEF Timely, UseInv
<1> QED
  BY <1>6, <1>7, <1>8, <1>9 DEF Timely

\* A round of the rotation leaves the task with a copy in order.
LEMMA RoundTimely ==
    ASSUME KeyringTypes, Timely, NEW t \in Tasks, UNCHANGED <<now, ring>>,
           NEW pc \in {"rotate", "save"}, NEW work, NEW keys, NEW read,
           Becomes(t, pc, work, keys, read),
           Chain(keys), keys.active.before <= read,
           pc = "rotate" <=> keys.active.after <= read,
           read <= now, now <= read + 1
    PROVE  Timely'
<1>1. /\ task'[t].pc = pc /\ task'[t].copy = keys /\ task'[t].read = read
      /\ \A u \in Tasks \ {t} : task'[u] = task[u]
  BY DEF Becomes
<1>2. RingInv'
  BY Zenon DEF Timely, RingInv
<1>3. CopyInv'
  <2> SUFFICES ASSUME NEW u \in Tasks, task'[u].pc \in {"rotate", "save"}
               PROVE  /\ Chain(task'[u].copy)
                      /\ task'[u].copy.active.before <= task'[u].read
                      /\ task'[u].pc = "rotate"
                           <=> task'[u].copy.active.after <= task'[u].read
    BY DEF CopyInv
  <2>1. CASE u = t
    BY <1>1, <2>1, Zenon
  <2>2. CASE u # t
    BY <1>1, <2>2, Zenon DEF Timely, CopyInv
  <2> QED
    BY <2>1, <2>2
<1>4. ReadInv'
  <2> SUFFICES ASSUME NEW u \in Tasks, Holding(u)'
               PROVE  (task[u].read <= now /\ now <= task[u].read + 1)'
    BY DEF ReadInv
  <2>1. CASE u = t
    BY <1>1, <2>1, Zenon
  <2>2. CASE u # t
    BY <1>1, <2>2, Zenon DEF Timely, ReadInv, Holding
  <2> QED
    BY <2>1, <2>2
<1>5. UseInv'
  BY <1>1 DEF Timely, UseInv
<1> QED
  BY <1>2, <1>3, <1>4, <1>5 DEF Timely

\* Where a round leaves the task.
LEMMA FurtherFact ==
    ASSUME NEW keys \in Ring, NEW read \in Nat
    PROVE  /\ Further(keys, read) \in {"rotate", "save"}
           /\ Further(keys, read) = "rotate" <=> keys.active.after <= read
<1>1. keys.active.after \in Nat
  BY RingFields, SlotFields
<1>2. Due(keys, read) <=> keys.active.after <= read
  BY <1>1 DEF Due
<1> QED
  BY <1>2 DEF Further

LEMMA DueFact ==
    ASSUME NEW keys \in Ring, NEW read \in Nat, Due(keys, read)
    PROVE  keys.active.after <= read
BY RingFields, SlotFields DEF Due

LEMMA MaintainTimely ==
    ASSUME KeyringTypes, Timely, NEW t \in Tasks, Maintain(t)
    PROVE  Timely'
<1> DEFINE keys == Rotate(ring, Draw(t))
           pc == Further(keys, now)
<1>1. /\ ring \in Ring /\ Chain(ring) /\ keys \in Ring
      /\ Becomes(t, pc, task[t].work, keys, now)
  BY MaintainEffect DEF Timely
<1>2. UNCHANGED <<now, ring>> /\ Due(ring, now) /\ now \in Nat
  BY DEF Maintain, KeyringTypes
<1>3. Chain(keys) /\ keys.active.before = ring.active.after
  BY <1>1, DrawFact, RotateFacts
<1>4. keys.active.before <= now
  BY <1>1, <1>2, <1>3, DueFact
<1>5. /\ pc \in {"rotate", "save"}
      /\ pc = "rotate" <=> keys.active.after <= now
  BY <1>1, <1>2, FurtherFact
<1> HIDE DEF keys, pc
<1>6. now <= now /\ now <= now + 1
  BY <1>2
<1> QED
  BY <1>1, <1>2, <1>3, <1>4, <1>5, <1>6, RoundTimely

LEMMA RotateAgainTimely ==
    ASSUME KeyringTypes, Timely, NEW t \in Tasks, RotateAgain(t)
    PROVE  Timely'
<1> DEFINE copy == task[t].copy
           read == task[t].read
           keys == Rotate(copy, Draw(t))
           pc == Further(keys, read)
<1>1. /\ copy \in Ring /\ Chain(copy) /\ keys \in Ring
      /\ Becomes(t, pc, task[t].work, keys, read)
  BY RotateAgainEffect DEF Timely
<1>2. UNCHANGED <<now, ring>> /\ task[t].pc = "rotate" /\ read \in Nat
  BY TypesOfTask DEF RotateAgain
<1>3. Chain(keys) /\ keys.active.before = copy.active.after
  BY <1>1, DrawFact, RotateFacts
<1>4. keys.active.before <= read
  BY <1>2, <1>3 DEF Timely, CopyInv
<1>5. /\ pc \in {"rotate", "save"}
      /\ pc = "rotate" <=> keys.active.after <= read
  BY <1>1, <1>2, FurtherFact
<1>6. read <= now /\ now <= read + 1
  BY <1>2 DEF Timely, ReadInv, Holding
<1> HIDE DEF keys, pc, copy, read
<1> QED
  BY <1>1, <1>2, <1>3, <1>4, <1>5, <1>6, RoundTimely

LEMMA SaveTimely ==
    ASSUME KeyringTypes, Timely, NEW t \in Tasks, Save(t)
    PROVE  Timely'
<1> DEFINE copy == task[t].copy
           read == task[t].read
<1>1. /\ Becomes(t, "use", task[t].work, NoRing, read)
      /\ copy \in Ring /\ ring' = copy
  BY SaveEffect
<1>2. now' = now /\ task[t].pc = "save" /\ now \in Nat /\ read \in Nat
  BY TypesOfTask DEF Save
<1>3. /\ Chain(copy) /\ copy.active.before <= read
      /\ ~(copy.active.after <= read)
      /\ read <= now /\ now <= read + 1
  BY <1>2 DEF Timely, CopyInv, ReadInv, Holding
<1>4. copy.active.before \in Nat /\ copy.active.after \in Nat
  BY <1>1, RingFields, SlotFields
<1>5. /\ task'[t].pc = "use" /\ task'[t].read = read
      /\ \A u \in Tasks \ {t} : task'[u] = task[u]
  BY <1>1 DEF Becomes
<1> HIDE DEF copy, read
<1>6. copy.active.before <= now /\ read <= copy.active.after
      /\ now <= copy.active.after
  BY <1>2, <1>3, <1>4
<1>7. RingInv'
  BY <1>1, <1>2, <1>3, <1>6, Zenon DEF RingInv
<1>8. CopyInv'
  BY <1>5 DEF Timely, CopyInv
<1>9. ReadInv'
  <2> SUFFICES ASSUME NEW u \in Tasks, Holding(u)'
               PROVE  (task[u].read <= now /\ now <= task[u].read + 1)'
    BY DEF ReadInv
  <2>1. CASE u = t
    BY <1>2, <1>3, <1>5, <2>1, Zenon
  <2>2. CASE u # t
    BY <1>2, <1>5, <2>2, Zenon DEF Timely, ReadInv, Holding
  <2> QED
    BY <2>1, <2>2
<1>10. UseInv'
  <2> SUFFICES ASSUME NEW u \in Tasks, task'[u].pc = "use"
               PROVE  task'[u].read <= copy.active.after
    BY <1>1 DEF UseInv
  <2>1. CASE u = t
    BY <1>5, <1>6, <2>1, Zenon
  <2>2. CASE u # t
    <3>1. task'[u] = task[u]
      BY <1>5, <2>2
    <3>2. task[u].read <= now /\ task[u].read \in Nat
      BY <3>1, TypesOfTask DEF Timely, ReadInv, Holding
    <3> QED BY <1>2, <1>4, <1>6, <3>1, <3>2
  <2> QED
    BY <2>1, <2>2
<1> QED
  BY <1>7, <1>8, <1>9, <1>10 DEF Timely

-------------------------------------------------------------------------------
(* Lived. *)

LEMMA WorkSettles ==
    ASSUME KeyringTypes, WorkInv, NEW t \in Tasks, Settles(t), now' = now
    PROVE  WorkInv'
<1> SUFFICES ASSUME NEW u \in Tasks
             PROVE  /\ task'[u].pc \in InHandPcs => Fit(task'[u].work, now)
                    /\ task'[u].pc \in {"rotate", "save", "use"}
                         /\ task'[u].work.job = "seal" =>
                         Granted(task'[u].work, task'[u].read)
  BY DEF WorkInv, Holding, Fit, Granted
<1>1. CASE u = t
  <2>1. /\ task'[u].pc \in {"idle", "ended", "maintain"}
        /\ task'[u].pc = "maintain" => Fit(task'[u].work, now)
    BY <1>1, Zenon DEF Settles
  <2> QED
    BY <2>1 DEF InHandPcs
<1>2. CASE u # t
  <2>1. task'[u] = task[u]
    BY <1>2, Zenon DEF Settles
  <2> QED
    BY <2>1, Zenon DEF WorkInv, Holding
<1> QED
  BY <1>1, <1>2

\* A step of the maintenance keeps the work.
LEMMA WorkRound ==
    ASSUME KeyringTypes, Timely, WorkInv, NEW t \in Tasks, now' = now,
           task[t].pc \in InHandPcs, NEW pc, NEW copy, NEW read,
           Becomes(t, pc, task[t].work, copy, read),
           read = now \/ (Holding(t) /\ read = task[t].read)
    PROVE  WorkInv'
<1> SUFFICES ASSUME NEW u \in Tasks
             PROVE  /\ task'[u].pc \in InHandPcs => Fit(task'[u].work, now)
                    /\ task'[u].pc \in {"rotate", "save", "use"}
                         /\ task'[u].work.job = "seal" =>
                         Granted(task'[u].work, task'[u].read)
  BY DEF WorkInv, Holding, Fit, Granted
<1>1. CASE u = t
  <2>1. task'[u].work = task[t].work /\ task'[u].read = read
    BY <1>1, Zenon DEF Becomes
  <2>2. Fit(task[t].work, now)
    BY Zenon DEF WorkInv
  <2>3. task[t].work.job = "seal" => Granted(task[t].work, read)
    BY <2>2, Zenon DEF WorkInv, Fit
  <2> QED
    BY <2>1, <2>2, <2>3, Zenon
<1>2. CASE u # t
  <2>1. task'[u] = task[u]
    BY <1>2, Zenon DEF Becomes
  <2> QED
    BY <2>1, Zenon DEF WorkInv, Holding
<1> QED
  BY <1>1, <1>2

LEMMA MaintenanceWork ==
    ASSUME KeyringTypes, Timely, WorkInv, NEW t \in Tasks,
           Leave(t) \/ Maintain(t) \/ RotateAgain(t) \/ Save(t)
    PROVE  WorkInv'
<1>1. CASE Leave(t)
  <2>1. now' = now /\ task[t].pc \in InHandPcs
    BY <1>1 DEF Leave, Load, InHandPcs
  <2> QED BY <1>1, <2>1, LeaveEffect, WorkRound
<1>2. CASE Maintain(t)
  <2> DEFINE keys == Rotate(ring, Draw(t))
             pc == Further(keys, now)
  <2>1. now' = now /\ task[t].pc \in InHandPcs
    BY <1>2 DEF Maintain, Load, InHandPcs
  <2>2. Becomes(t, pc, task[t].work, keys, now)
    BY <1>2, MaintainEffect DEF Timely
  <2> HIDE DEF keys, pc
  <2> QED BY <2>1, <2>2, WorkRound
<1>3. CASE RotateAgain(t)
  <2> DEFINE keys == Rotate(task[t].copy, Draw(t))
             pc == Further(keys, task[t].read)
  <2>1. now' = now /\ task[t].pc \in InHandPcs /\ Holding(t)
    BY <1>3 DEF RotateAgain, InHandPcs, Holding
  <2>2. Becomes(t, pc, task[t].work, keys, task[t].read)
    BY <1>3, RotateAgainEffect DEF Timely
  <2> HIDE DEF keys, pc
  <2> QED BY <2>1, <2>2, WorkRound
<1>4. CASE Save(t)
  <2>1. now' = now /\ task[t].pc \in InHandPcs /\ Holding(t)
    BY <1>4 DEF Save, InHandPcs, Holding
  <2>2. Becomes(t, "use", task[t].work, NoRing, task[t].read)
    BY <1>4, SaveEffect
  <2> QED BY <2>1, <2>2, WorkRound
<1> QED
  BY <1>1, <1>2, <1>3, <1>4

LEMMA RestartWork ==
    ASSUME Restart
    PROVE  WorkInv'
<1>1. \A u \in Tasks : task'[u].pc \notin InHandPcs
  BY RestartFree
<1>2. {"rotate", "save", "use"} \subseteq InHandPcs
  BY DEF InHandPcs
<1> QED
  BY <1>1, <1>2, Zenon DEF WorkInv, Holding

LEMMA GrantedLater ==
    ASSUME NEW some, NEW time \in Nat, some.issued \in Nat, Granted(some, time)
    PROVE  Granted(some, time + 1)
BY DEF Granted

LEMMA TickWork ==
    ASSUME KeyringTypes, WorkInv, Tick
    PROVE  WorkInv'
<1>1. now \in Nat /\ now' = now + 1 /\ task' = task
  BY DEF Tick, KeyringTypes
<1> SUFFICES ASSUME NEW t \in Tasks
             PROVE  task[t].pc \in InHandPcs => Fit(task[t].work, now + 1)
  BY <1>1, Zenon DEF WorkInv, Holding, Fit, Granted
<1> SUFFICES ASSUME task[t].pc \in InHandPcs PROVE Fit(task[t].work, now + 1)
  OBVIOUS
<1>2. task[t].work \in Works /\ Fit(task[t].work, now)
  BY TypesOfTask DEF InHand, WorkInv
<1>3. /\ task[t].work.job = "seal" => task[t].work.issued \in Nat
      /\ task[t].work.job = "unpack" => task[t].work.cookie.issued \in Nat
  BY <1>2, WorkKinds DEF Cookie
<1> QED
  BY <1>1, <1>2, <1>3, GrantedLater, Zenon DEF Fit

LEMMA TickUnexpired ==
    ASSUME KeyringTypes, UnexpiredInv, Tick
    PROVE  UnexpiredInv' /\ cookies' \subseteq cookies
<1>1. now \in Nat /\ now' = now + 1 /\ cookies' = Unexpired(cookies, now')
  BY DEF Tick, KeyringTypes
<1>2. cookies' \subseteq cookies /\ \A cookie \in cookies' : now' < cookie.expires
  BY <1>1, Zenon DEF Unexpired
<1>3. ASSUME NEW cookie \in cookies' PROVE Granted(cookie, now')
  <2>1. cookie \in Cookie /\ Granted(cookie, now)
    BY <1>2 DEF KeyringTypes, UnexpiredInv
  <2>2. cookie.issued \in Nat
    BY <2>1 DEF Cookie
  <2> QED BY <1>1, <2>1, <2>2, GrantedLater, Zenon
<1> QED
  BY <1>2, <1>3, Zenon DEF UnexpiredInv, Granted

LEMMA SealUnexpired ==
    ASSUME KeyringTypes, RingInv, Lived, NEW t \in Tasks, NEW again, Seal(t, again)
    PROVE  UnexpiredInv'
<1>1. now' = now
  BY DEF Seal
<1>2. Granted(Sealed(t), now)
  BY SealWork, SealCookies DEF Lived, Granted
<1>3. ASSUME NEW cookie \in cookies' PROVE Granted(cookie, now) /\ now < cookie.expires
  <2>1. cookie \in cookies \/ cookie = Sealed(t)
    BY SealCookies, Zenon DEF Lived
  <2>2. now < cookie.expires
    BY SealCookies, Zenon DEF Lived
  <2> QED BY <1>2, <2>1, <2>2, Zenon DEF Lived, UnexpiredInv
<1> QED
  BY <1>1, <1>3, Zenon DEF UnexpiredInv, Granted

LEMMA UnexpiredSame ==
    ASSUME UnexpiredInv, UNCHANGED <<now, cookies>>
    PROVE  UnexpiredInv'
BY Zenon DEF UnexpiredInv, Granted

-------------------------------------------------------------------------------
(* Covered. *)

\* The ring stays, and a task that is about to save was so already.
LEMMA CrossingSame ==
    ASSUME CrossingInv, ring' = ring,
           \A u \in Tasks : task'[u].pc \in {"rotate", "save"} => task'[u] = task[u]
    PROVE  CrossingInv'
BY Zenon DEF CrossingInv, Crosses

LEMMA CookiesSame ==
    ASSUME CookieInv, ring' = ring, cookies' \subseteq cookies
    PROVE  CookieInv'
BY Zenon DEF CookieInv, Under

LEMMA CrossingSettles ==
    ASSUME CrossingInv, NEW t \in Tasks, Settles(t), ring' = ring
    PROVE  CrossingInv'
<1>1. \A u \in Tasks : task'[u].pc \in {"rotate", "save"} => task'[u] = task[u]
  BY DEF Settles
<1> QED
  BY <1>1, CrossingSame

LEMMA SettlesCovered ==
    ASSUME Covered, NEW t \in Tasks, Settles(t), UNCHANGED <<ring, overdue>>,
           cookies' \subseteq cookies
    PROVE  Covered'
BY CrossingSettles, CookiesSame DEF Covered

LEMMA EnsureCovered ==
    ASSUME KeyringTypes, RingInv, Covered, NEW made \in BOOLEAN, Ensure(made)
    PROVE  Covered'
<1>1. /\ Settles("nts_ke") /\ "nts_ke" \in Tasks
      /\ UNCHANGED <<cookies, overdue>>
      /\ ring # NoRing => ring' = ring
  BY EnsureSettles, EnsureRing DEF Tasks
<1>2. CASE ring # NoRing
  <2>1. ring' = ring /\ cookies' \subseteq cookies
    BY <1>1, <1>2
  <2> QED BY <1>1, <2>1, SettlesCovered
<1>3. CASE ring = NoRing
  <2>1. \A u \in Tasks : task[u].pc \notin {"rotate", "save", "use"}
    BY <1>3, TypesOfTask DEF InHand, Holding
  <2>2. \A u \in Tasks : task'[u].pc \notin {"rotate", "save"}
    BY <1>1, <2>1 DEF Settles
  <2>3. cookies' = {}
    BY <1>1, <1>3 DEF KeyringTypes
  <2>4. CrossingInv'
    BY <2>2 DEF CrossingInv
  <2>5. CookieInv'
    BY <2>3, Zenon DEF CookieInv
  <2> QED
    BY <2>4, <2>5 DEF Covered
<1> QED
  BY <1>2, <1>3

LEMMA RestartCovered ==
    ASSUME Covered, Restart
    PROVE  Covered'
<1>1. /\ UNCHANGED <<ring, overdue>> /\ cookies' \subseteq cookies
      /\ \A u \in Tasks : task'[u].pc \notin InHandPcs
  BY RestartFree
<1>2. CrossingInv'
  BY <1>1 DEF CrossingInv, InHandPcs
<1> QED
  BY <1>1, <1>2, CookiesSame DEF Covered

LEMMA TickCovered ==
    ASSUME KeyringTypes, Lived, Covered, Tick
    PROVE  Covered'
<1>1. UNCHANGED <<ring, task, overdue>> /\ cookies' \subseteq cookies
  BY TickUnexpired DEF Tick, Lived
<1> QED
  BY <1>1, CrossingSame, CookiesSame, Zenon DEF Covered

LEMMA LeaveCovered ==
    ASSUME KeyringTypes, Covered, NEW t \in Tasks, Leave(t)
    PROVE  Covered'
<1>1. Becomes(t, "use", task[t].work, task[t].copy, now)
  BY LeaveEffect
<1>2. UNCHANGED <<ring, overdue>> /\ cookies' \subseteq cookies
  BY DEF Leave
<1>3. \A u \in Tasks : task'[u].pc \in {"rotate", "save"} => task'[u] = task[u]
  BY <1>1 DEF Becomes
<1> QED
  BY <1>2, <1>3, CrossingSame, CookiesSame DEF Covered

LEMMA MaintainCovered ==
    ASSUME KeyringTypes, Timely, Covered, NEW t \in Tasks, Maintain(t)
    PROVE  Covered'
<1> DEFINE keys == Rotate(ring, Draw(t))
           pc == Further(keys, now)
<1>1. /\ ring \in Ring /\ Chain(ring) /\ keys \in Ring
      /\ Becomes(t, pc, task[t].work, keys, now)
  BY MaintainEffect DEF Timely
<1>2. /\ UNCHANGED <<now, ring>> /\ cookies' \subseteq cookies
      /\ overdue' = (overdue \/ now >= ring.next.after - 1) /\ now \in Nat
  BY DEF Maintain, KeyringTypes
<1>3. /\ keys.previous = ring.active /\ keys.active = ring.next
      /\ keys.previous.valid
  BY <1>1, DrawFact, RotateFacts
<1> HIDE DEF keys, pc
<1> SUFFICES ASSUME ~overdue' PROVE CrossingInv' /\ CookieInv'
  BY DEF Covered
<1>4. ~overdue /\ ~(now >= ring.next.after - 1)
  BY <1>2
<1>5. CookieInv'
  BY <1>2, <1>4, CookiesSame DEF Covered
<1>6. now + 1 < keys.active.after
  <2>1. ring.next.after \in Nat
    BY <1>1, RingFields, SlotFields
  <2> QED BY <1>2, <1>3, <1>4, <2>1
<1>7. /\ task'[t].copy = keys /\ task'[t].read = now
      /\ \A u \in Tasks \ {t} : task'[u] = task[u]
  BY <1>1 DEF Becomes
<1>8. CrossingInv'
  <2> SUFFICES ASSUME NEW u \in Tasks, task'[u].pc \in {"rotate", "save"}
               PROVE  /\ task'[u].read + 1 < task'[u].copy.active.after
                      /\ task'[u].copy.previous.valid
                      /\ Crosses(task'[u].copy)
    BY <1>2, Zenon DEF CrossingInv, Crosses
  <2>1. CASE u = t
    BY <1>3, <1>6, <1>7, <2>1, Zenon DEF Crosses
  <2>2. CASE u # t
    <3>1. task'[u] = task[u]
      BY <1>7, <2>2
    <3> QED BY <1>4, <3>1, Zenon DEF Covered, CrossingInv
  <2> QED
    BY <2>1, <2>2
<1> QED
  BY <1>5, <1>8

\* Without a rotation that came late there is no second round.
LEMMA RotateAgainCovered ==
    ASSUME KeyringTypes, Timely, Covered, NEW t \in Tasks, RotateAgain(t)
    PROVE  Covered'
<1> SUFFICES ASSUME ~overdue' PROVE FALSE
  BY DEF Covered
<1>1. ~overdue /\ task[t].pc = "rotate"
  BY DEF RotateAgain
<1>2. /\ task[t].read + 1 < task[t].copy.active.after
      /\ task[t].copy.active.after <= task[t].read
  BY <1>1 DEF Covered, CrossingInv, Timely, CopyInv
<1>3. task[t].copy \in Ring /\ task[t].read \in Nat
  BY <1>1, TypesOfTask DEF InHand
<1>4. task[t].copy.active.after \in Nat
  BY <1>3, RingFields, SlotFields
<1> QED
  BY <1>2, <1>3, <1>4

LEMMA SealCovered ==
    ASSUME KeyringTypes, Timely, Lived, Covered, NEW t \in Tasks,
           NEW again \in BOOLEAN, Seal(t, again)
    PROVE  Covered'
<1>1. Settles(t) /\ UNCHANGED <<ring, overdue>>
  BY SealSettles DEF Lived, Seal
<1> SUFFICES ASSUME ~overdue' PROVE CookieInv'
  BY <1>1, CrossingSettles DEF Covered
<1>2. CookieInv
  BY <1>1 DEF Covered
<1>3. task[t].pc = "use" /\ task[t].work.job = "seal"
  BY DEF Seal
<1>4. /\ task[t].work.issued \in Nat
      /\ task[t].work.expires = task[t].work.issued + Lifetime
      /\ ring \in Ring
  <2>1. WorkInv
    BY DEF Lived
  <2> QED BY <2>1, SealWork
<1>5. /\ task[t].work.issued <= task[t].read
      /\ task[t].read <= ring.active.after
  BY <1>3 DEF Lived, WorkInv, Granted, Holding, Timely, UseInv
<1>6. task[t].read \in Nat /\ ring.active.after \in Nat
  <2>1. task[t].read \in Nat
    BY TypesOfTask
  <2>2. ring.active.after \in Nat
    BY <1>4, RingFields, SlotFields
  <2> QED BY <2>1, <2>2
<1>7. task[t].work.expires <= ring.active.after + Lifetime
  BY <1>4, <1>5, <1>6, KeyringAssumption
<1>8. Under(Sealed(t), ring.active)
  BY <1>4, <1>7, SealCookies, RingFields DEF Under, Timely, Lived
<1>9. cookies' \subseteq cookies \cup {Sealed(t)}
  BY SealCookies DEF Timely, Lived
<1> SUFFICES ASSUME NEW cookie \in cookies'
             PROVE  Under(cookie, ring.active) \/ Under(cookie, ring.previous)
  BY <1>1, Zenon DEF CookieInv, Under
<1> QED
  BY <1>2, <1>8, <1>9, Zenon DEF CookieInv

\* A task that is about to save has an ACTIVE key that is in its interval.
LEMMA AboutToSave ==
    ASSUME KeyringTypes, Timely, Covered, ~overdue, NEW t \in Tasks,
           task[t].pc \in {"rotate", "save"}
    PROVE  /\ task[t].copy \in Ring /\ ring \in Ring /\ Chain(ring)
           /\ task[t].copy.active.before <= now
           /\ now < task[t].copy.active.after
           /\ task[t].copy.previous.valid
           /\ Crosses(task[t].copy)
<1> DEFINE copy == task[t].copy
           read == task[t].read
<1>1. /\ copy \in Ring /\ ring # NoRing /\ read \in Nat /\ now \in Nat
  BY TypesOfTask DEF InHand, Holding
<1>2. ring \in Ring /\ Chain(ring)
  BY <1>1 DEF KeyringTypes, Timely, RingInv
<1>3. /\ copy.active.before <= read /\ read <= now /\ now <= read + 1
  BY DEF Timely, CopyInv, ReadInv, Holding
<1>4. /\ read + 1 < copy.active.after /\ copy.previous.valid /\ Crosses(copy)
  BY DEF Covered, CrossingInv
<1>5. copy.active.before \in Nat /\ copy.active.after \in Nat
  BY <1>1, RingFields, SlotFields
<1> HIDE DEF copy, read
<1>6. copy.active.before <= now /\ now < copy.active.after
  BY <1>1, <1>3, <1>4, <1>5
<1> QED
  BY <1>1, <1>2, <1>4, <1>6 DEF copy

\* When a rotation is due, what was sealed under PREVIOUS has expired.
LEMMA PreviousGone ==
    ASSUME NEW time \in Nat, NEW keys \in Ring, Chain(keys), Due(keys, time),
           NEW cookie, cookie.expires \in Nat, Under(cookie, keys.previous)
    PROVE  cookie.expires <= time
<1>1. /\ keys.previous.valid /\ cookie.expires <= keys.previous.after + Lifetime
  BY DEF Under
<1>2. /\ keys.previous.after = keys.active.before
      /\ keys.active.after = keys.active.before + Period
  BY <1>1, ChainTimes
<1>3. keys.active.before \in Nat /\ keys.active.after \in Nat
  BY RingFields, SlotFields
<1>4. keys.active.after <= time
  BY DueFact
<1> QED
  BY <1>1, <1>2, <1>3, <1>4, KeyringAssumption

LEMMA SaveCrossing ==
    ASSUME KeyringTypes, Timely, Covered, ~overdue, NEW t \in Tasks, Save(t)
    PROVE  CrossingInv'
<1> DEFINE copy == task[t].copy
<1>1. task[t].pc = "save" /\ ring' = copy
  BY DEF Save
<1>2. Becomes(t, "use", task[t].work, NoRing, task[t].read)
  BY SaveEffect
<1>3. /\ copy \in Ring /\ ring \in Ring /\ Chain(ring)
      /\ copy.active.before <= now /\ now < copy.active.after /\ Crosses(copy)
  BY <1>1, AboutToSave
<1> SUFFICES ASSUME NEW u \in Tasks, task'[u].pc \in {"rotate", "save"}
             PROVE  /\ task'[u].read + 1 < task'[u].copy.active.after
                    /\ task'[u].copy.previous.valid
                    /\ \/ task'[u].copy.previous = copy.active
                            /\ task'[u].copy.active = copy.next
                       \/ task'[u].copy.previous = copy.previous
                            /\ task'[u].copy.active = copy.active
  BY <1>1, Zenon DEF CrossingInv, Crosses
<1>4. task'[u] = task[u] /\ task[u].pc \in {"rotate", "save"}
  BY <1>2 DEF Becomes
<1> DEFINE other == task[u].copy
<1>5. /\ task[u].read + 1 < other.active.after /\ other.previous.valid
  BY <1>4 DEF Covered, CrossingInv
<1>6. /\ other \in Ring /\ other.active.before <= now
      /\ now < other.active.after /\ Crosses(other)
  BY <1>4, AboutToSave
<1> SUFFICES other.previous = copy.previous /\ other.active = copy.active
  BY <1>4, <1>5, Zenon
<1> HIDE DEF copy, other
<1>7. ring.next.before = ring.active.after /\ now \in Nat /\ ring.active.after \in Nat
  <2>1. ring.next.before = ring.active.after
    BY <1>3, ChainTimes
  <2>2. ring.active.after \in Nat
    BY <1>3, RingFields, SlotFields
  <2> QED BY <2>1, <2>2 DEF KeyringTypes
\* The ring is due for the one task and not for the other.
<1>8. ASSUME NEW one \in {copy, other}, NEW two \in {copy, other},
             one.active = ring.next, two.active = ring.active
      PROVE  FALSE
  <2>1. one.active.before <= now /\ now < two.active.after
    BY <1>3, <1>6
  <2>2. ring.active.after <= now /\ now < ring.active.after
    BY <1>7, <1>8, <2>1
  <2> QED
    BY <1>7, <2>2
<1> QED
  BY <1>3, <1>6, <1>8, Zenon DEF Crosses

LEMMA SaveCookies ==
    ASSUME KeyringTypes, Timely, Lived, Covered, ~overdue, NEW t \in Tasks, Save(t)
    PROVE  CookieInv'
<1> DEFINE copy == task[t].copy
<1>1. task[t].pc = "save" /\ ring' = copy /\ cookies' = cookies
  BY DEF Save
<1>2. /\ copy \in Ring /\ ring \in Ring /\ Chain(ring)
      /\ copy.active.before <= now /\ Crosses(copy)
  BY <1>1, AboutToSave
<1> SUFFICES ASSUME NEW cookie \in cookies
             PROVE  Under(cookie, copy.active) \/ Under(cookie, copy.previous)
  BY <1>1, Zenon DEF CookieInv, Under
<1>3. Under(cookie, ring.active) \/ Under(cookie, ring.previous)
  BY DEF Covered, CookieInv
<1>4. cookie.expires \in Nat /\ now < cookie.expires /\ now \in Nat
  BY DEF KeyringTypes, Cookie, Lived, UnexpiredInv
<1> HIDE DEF copy
<1>5. CASE copy.previous = ring.active /\ copy.active = ring.next
  <2>1. ring.active.after <= now
    BY <1>2, <1>5, ChainTimes
  <2>2. Due(ring, now)
    <3>1. ring.active.after \in Nat
      BY <1>2, RingFields, SlotFields
    <3> QED BY <1>4, <2>1, <3>1 DEF Due
  <2>3. ~Under(cookie, ring.previous)
    <3>1. ASSUME Under(cookie, ring.previous) PROVE FALSE
      <4>1. cookie.expires <= now
        BY <1>2, <1>4, <2>2, <3>1, PreviousGone
      <4> QED BY <1>4, <4>1
    <3> QED BY <3>1
  <2> QED
    BY <1>3, <1>5, <2>3
<1>6. CASE copy.previous = ring.previous /\ copy.active = ring.active
  BY <1>3, <1>6
<1> QED
  BY <1>2, <1>5, <1>6 DEF Crosses

LEMMA SaveCovered ==
    ASSUME KeyringTypes, Timely, Lived, Covered, NEW t \in Tasks, Save(t)
    PROVE  Covered'
<1>1. overdue' = overdue
  BY DEF Save
<1> QED
  BY <1>1, SaveCrossing, SaveCookies DEF Covered

-------------------------------------------------------------------------------
(* The invariant. *)

LEMMA InitInvariant ==
    ASSUME Init
    PROVE  IInv
<1>1. /\ now = 1 /\ ring = NoRing /\ task = Booting /\ cookies = {}
      /\ overdue = FALSE
  BY DEF Init
<1>2. [Idle EXCEPT !.pc = "ensure"] \in TaskRec
      /\ [Idle EXCEPT !.pc = "ensure"].pc = "ensure"
  BY IdleFields DEF TaskRec, Pcs
<1>3. /\ task \in [Tasks -> TaskRec]
      /\ \A u \in Tasks : task[u].pc \in {"ensure", "idle"}
  BY <1>1, <1>2, IdleFields DEF Booting
<1>4. KeyringTypes
  <2>1. now \in 1 .. MaxTime
    BY <1>1, KeyringAssumption
  <2>2. \A u \in Tasks : InHand(u)
    BY <1>3 DEF InHand, InHandPcs, Holding
  <2> QED
    BY <1>1, <1>3, <2>1, <2>2 DEF KeyringTypes
<1>5. Timely
  <2>1. RingInv
    BY <1>1 DEF RingInv
  <2>2. CopyInv /\ ReadInv /\ UseInv
    BY <1>3 DEF CopyInv, ReadInv, UseInv, Holding
  <2> QED BY <2>1, <2>2 DEF Timely
<1>6. Lived
  BY <1>1, <1>3 DEF Lived, WorkInv, InHandPcs, Holding, UnexpiredInv
<1>7. Covered
  BY <1>1, <1>3 DEF Covered, CrossingInv, CookieInv
<1> QED
  BY <1>4, <1>5, <1>6, <1>7 DEF IInv

LEMMA TickTypes ==
    ASSUME KeyringTypes, Lived, Tick
    PROVE  KeyringTypes'
<1>1. /\ now \in 1 .. MaxTime /\ now < MaxTime /\ now' = now + 1
      /\ UNCHANGED <<ring, task, overdue>> /\ cookies' \subseteq cookies
  BY TickUnexpired DEF Tick, KeyringTypes, Lived
<1>2. now' \in 1 .. MaxTime
  BY <1>1, KeyringAssumption
<1>3. \A t \in Tasks : InHand(t)'
  BY <1>1, Zenon DEF KeyringTypes, InHand, Holding
<1>4. cookies' \subseteq Cookie /\ (cookies' # {} => ring' # NoRing)
  BY <1>1 DEF KeyringTypes
<1> QED
  BY <1>1, <1>2, <1>3, <1>4 DEF KeyringTypes

LEMMA RestartTypes ==
    ASSUME KeyringTypes, Restart
    PROVE  KeyringTypes'
<1>1. \A t \in Tasks : InHand(t)'
  BY RestartFree DEF InHand, InHandPcs, Holding
<1> QED
  BY <1>1, RestartFree, TypesRest DEF KeyringTypes

\* An action that only settles a task.
LEMMA SettlesInvariant ==
    ASSUME IInv, NEW t \in Tasks, Settles(t), UNCHANGED <<now, ring, cookies, overdue>>
    PROVE  IInv'
<1> USE DEF IInv
<1>1. KeyringTypes'
  BY SettlesTypes DEF KeyringTypes
<1>2. Timely'
  BY TimelySettles
<1>3. WorkInv' /\ UnexpiredInv'
  BY WorkSettles, UnexpiredSame DEF Lived
<1>4. Covered'
  BY SettlesCovered
<1> QED
  BY <1>1, <1>2, <1>3, <1>4 DEF Lived

LEMMA MaintenanceInvariant ==
    ASSUME IInv, NEW t \in Tasks, Leave(t) \/ Maintain(t) \/ RotateAgain(t) \/ Save(t)
    PROVE  IInv'
<1> USE DEF IInv
<1>1. KeyringTypes'
  BY LeaveTypes, MaintainTypes, RotateAgainTypes, SaveTypes DEF Timely
<1>2. Timely'
  BY LeaveTimely, MaintainTimely, RotateAgainTimely, SaveTimely
<1>3. UNCHANGED <<now, cookies>>
  BY DEF Leave, Maintain, RotateAgain, Save
<1>4. WorkInv' /\ UnexpiredInv'
  BY <1>3, MaintenanceWork, UnexpiredSame DEF Lived
<1>5. Covered'
  BY LeaveCovered, MaintainCovered, RotateAgainCovered, SaveCovered
<1> QED
  BY <1>1, <1>2, <1>4, <1>5 DEF Lived

LEMMA SealInvariant ==
    ASSUME IInv, NEW t \in Tasks, NEW again \in BOOLEAN, Seal(t, again)
    PROVE  IInv'
<1> USE DEF IInv
<1>1. WorkInv /\ RingInv /\ UNCHANGED <<now, ring, overdue>>
  BY DEF Lived, Timely, Seal
<1>2. Settles(t) /\ ring \in Ring
  BY <1>1, SealSettles, SealWork
<1>3. cookies' \subseteq Cookie
  BY <1>1, SealCookies DEF KeyringTypes
<1>4. KeyringTypes'
  <2>1. ring \in Ring \cup {NoRing} /\ ring # NoRing
    BY <1>2, RingFields
  <2> QED BY <1>1, <1>2, <1>3, <2>1, SettlesTypes
<1>5. Timely'
  BY <1>1, <1>2, TimelySettles
<1>6. WorkInv' /\ UnexpiredInv'
  BY <1>1, <1>2, WorkSettles, SealUnexpired
<1>7. Covered'
  BY SealCovered
<1> QED
  BY <1>4, <1>5, <1>6, <1>7 DEF Lived

\* Every step keeps the invariant.
LEMMA StepInvariant ==
    ASSUME IInv, [Next]_vars
    PROVE  IInv'
<1> USE DEF IInv
<1>1. CASE UNCHANGED vars
  <2>1. KeyringTypes'
    BY <1>1, Zenon DEF vars, KeyringTypes, InHand, Holding
  <2>2. Timely'
    BY <1>1, Zenon DEF vars, Timely, RingInv, CopyInv, ReadInv, UseInv, Holding
  <2>3. Lived'
    BY <1>1, Zenon DEF vars, Lived, WorkInv, Fit, Granted, Holding, UnexpiredInv
  <2>4. Covered'
    BY <1>1, Zenon DEF vars, Covered, CrossingInv, CookieInv, Crosses, Under
  <2> QED BY <2>1, <2>2, <2>3, <2>4
<1>2. CASE Tick
  <2>1. WorkInv' /\ UnexpiredInv'
    BY <1>2, TickWork, TickUnexpired DEF Lived
  <2> QED BY <1>2, <2>1, TickTypes, TickTimely, TickCovered DEF Lived
<1>3. CASE Restart
  <2>1. WorkInv' /\ UnexpiredInv'
    BY <1>3, RestartWork, RestartFree, UnexpiredSame DEF Lived
  <2> QED BY <1>3, <2>1, RestartTypes, RestartTimely, RestartCovered DEF Lived
<1>4. CASE \E made \in BOOLEAN : Ensure(made)
  <2> PICK made \in BOOLEAN : Ensure(made)
    BY <1>4
  <2>1. /\ ring' \in Ring \cup {NoRing} /\ UNCHANGED <<now, cookies, overdue>>
        /\ ring # NoRing => ring' = ring
    BY EnsureRing DEF Timely
  <2>2. Settles("nts_ke") /\ "nts_ke" \in Tasks
    BY EnsureSettles DEF Tasks
  <2>3. KeyringTypes'
    <3>1. cookies' \subseteq Cookie /\ (cookies' # {} => ring' # NoRing)
      BY <2>1 DEF KeyringTypes
    <3> QED BY <2>1, <2>2, <3>1, SettlesTypes
  <2>4. WorkInv' /\ UnexpiredInv'
    BY <2>1, <2>2, WorkSettles, UnexpiredSame DEF Lived
  <2>5. Timely' /\ Covered'
    BY EnsureTimely, EnsureCovered DEF Timely
  <2> QED BY <2>3, <2>4, <2>5 DEF Lived
<1>5. CASE Connect
  BY <1>5, ConnectSettles, SettlesInvariant DEF Connect, Begin, Tasks
<1>6. CASE \E cookie \in cookies : Request(cookie)
  BY <1>6, RequestSettles, SettlesInvariant DEF Request, Begin, Tasks, Lived
<1>7. CASE \E t \in Tasks : Leave(t) \/ Maintain(t) \/ RotateAgain(t) \/ Save(t)
  BY <1>7, MaintenanceInvariant, Zenon
<1>8. CASE \E t \in Tasks : Fail(t) \/ Generate(t) \/ Unpack(t)
  <2> PICK t \in Tasks : Fail(t) \/ Generate(t) \/ Unpack(t)
    BY <1>8
  <2>1. UNCHANGED <<now, ring, cookies, overdue>>
    BY DEF Fail, Generate, Unpack
  <2>2. Settles(t)
    BY SettlesIdle, GenerateSettles, UnpackSettles DEF Fail, Lived
  <2> QED BY <2>1, <2>2, SettlesInvariant
<1>9. CASE \E t \in Tasks : \E again \in BOOLEAN : Seal(t, again)
  BY <1>9, SealInvariant, Zenon
<1> QED
  BY <1>1, <1>2, <1>3, <1>4, <1>5, <1>6, <1>7, <1>8, <1>9, Zenon DEF Next

LEMMA SpecInvariant == Spec => []IInv
<1>1. Init => IInv
  BY InitInvariant
<1>2. IInv /\ [Next]_vars => IInv'
  BY StepInvariant
<1> QED
  BY <1>1, <1>2, PTL DEF Spec

-------------------------------------------------------------------------------
(* Theorems. *)

\* Storage, tasks and cookies keep their types: in particular no identifier
\* leaves its width, though it grows with every rotation (next_key_id).
THEOREM KeyringTypeCorrect == Spec => []TypeOK
<1>1. IInv => TypeOK
  <2> SUFFICES ASSUME IInv PROVE TypeOK
    OBVIOUS
  <2>1. ASSUME NEW t \in Tasks
        PROVE  /\ task[t].pc \in Pcs
               /\ task[t].copy \in Ring \cup {NoRing}
               /\ task[t].read \in 0 .. MaxTime
    BY TypesOfTask DEF IInv, Copies
  <2> QED
    BY <2>1 DEF IInv, KeyringTypes, TypeOK, Cookie, Ids, Pcs
<1> QED
  BY <1>1, SpecInvariant, PTL

\* The ring in NVS is one that validate_cookie_keyring accepts, so that the
\* first load of the next maintenance does not end NTS.
THEOREM KeyringStaysValid == Spec => []StoredRingValid
<1>1. IInv => StoredRingValid
  BY ChainValid DEF IInv, KeyringTypes, Timely, RingInv, StoredRingValid
<1> QED
  BY <1>1, SpecInvariant, PTL

\* An operation past its maintenance works with an active key in its interval,
\* but for a tick (the loop of nts_storage_maintain_cookie_keyring), even when
\* the other task saved a ring in between.
THEOREM KeyringStaysCurrent == Spec => []ActiveKeyCurrent
<1>1. IInv => ActiveKeyCurrent
  <2> SUFFICES ASSUME IInv, NEW t \in Tasks, task[t].pc = "use"
               PROVE  /\ ring.active.before <= now
                      /\ now <= ring.active.after + 1
    BY DEF ActiveKeyCurrent
  <2>1. ring \in Ring /\ task[t].read \in Nat /\ now \in Nat
    BY TypesOfTask DEF IInv, InHand, Holding, KeyringTypes
  <2>2. ring.active.before <= now
    BY <2>1, RingFields DEF IInv, Timely, RingInv
  <2>3. now <= task[t].read + 1 /\ task[t].read <= ring.active.after
    BY DEF IInv, Timely, ReadInv, UseInv, Holding
  <2>4. ring.active.after \in Nat
    BY <2>1, RingFields, SlotFields
  <2>5. now <= ring.active.after + 1
    BY <2>1, <2>3, <2>4
  <2> QED
    BY <2>2, <2>5
<1> QED
  BY <1>1, SpecInvariant, PTL

\* The key of a cookie under ACTIVE or PREVIOUS is found.
LEMMA UnderOpens ==
    ASSUME NEW cookie, NEW keys, NEW slot \in {keys.previous, keys.active},
           Under(cookie, slot)
    PROVE  Opens(cookie, keys)
BY DEF Under, Opens

\* As long as no rotation comes a period late, a client's unexpired cookie opens
\* under the stored ring, and still does after the rotation that may be due now:
\* whichever of two tasks that rotate at once saves last, and wherever power is
\* lost (nts_storage_maintain_cookie_keyring, nts_cookie_unpack).
THEOREM CookiesStayOpen == Spec => []CookiesOpen
<1>1. IInv => CookiesOpen
  <2> SUFFICES ASSUME IInv, ~overdue, NEW cookie \in cookies
               PROVE  /\ Opens(cookie, ring)
                      /\ Due(ring, now) =>
                           LET keys == Rotate(ring, Draw("ntp_server"))
                           IN  Opens(cookie, keys) /\ ~Due(keys, now)
    BY DEF CookiesOpen
  <2>1. ring \in Ring /\ Chain(ring) /\ now \in Nat
    BY DEF IInv, KeyringTypes, Timely, RingInv
  <2>2. cookie.expires \in Nat /\ now < cookie.expires
    BY DEF IInv, KeyringTypes, Cookie, Lived, UnexpiredInv
  <2>3. Under(cookie, ring.active) \/ Under(cookie, ring.previous)
    BY DEF IInv, Covered, CookieInv
  <2>4. Opens(cookie, ring)
    BY <2>3, UnderOpens
  <2> DEFINE keys == Rotate(ring, Draw("ntp_server"))
  <2>5. ASSUME Due(ring, now) PROVE Opens(cookie, keys) /\ ~Due(keys, now)
    <3>1. ~Under(cookie, ring.previous)
      <4>1. ASSUME Under(cookie, ring.previous) PROVE FALSE
        <5>1. cookie.expires <= now
          BY <2>1, <2>2, <2>5, <4>1, PreviousGone
        <5> QED BY <2>1, <2>2, <5>1
      <4> QED BY <4>1
    <3>2. Under(cookie, ring.active)
      BY <2>3, <3>1
    <3>3. Draw("ntp_server") \in Keys
      BY DrawFact DEF IInv, Tasks
    <3>4. /\ keys.previous = ring.active /\ keys \in Ring
          /\ keys.active.after = ring.next.after
      BY <2>1, <3>3, RotateFacts
    <3> HIDE DEF keys
    <3>5. Opens(cookie, keys)
      BY <3>2, <3>4, UnderOpens
    <3>6. ring.next.after = ring.active.after + Period
      BY <2>1, ChainTimes
    <3>7. cookie.expires <= ring.active.after + Lifetime
      BY <3>2 DEF Under
    <3>8. ring.active.after \in Nat
      BY <2>1, RingFields, SlotFields
    <3>9. now < keys.active.after
      BY <2>1, <2>2, <3>4, <3>6, <3>7, <3>8, KeyringAssumption
    <3>10. ~Due(keys, now)
      <4>1. ASSUME Due(keys, now) PROVE FALSE
        <5>1. keys.active.after <= now
          BY <2>1, <3>4, <4>1, DueFact
        <5>2. keys.active.after \in Nat
          BY <3>4, RingFields, SlotFields
        <5> QED BY <2>1, <3>9, <5>1, <5>2
      <4> QED BY <4>1
    <3> QED
      BY <3>5, <3>10
  <2> QED
    BY <2>4, <2>5
<1> QED
  BY <1>1, SpecInvariant, PTL

\* The ring in NVS does not go back.
RingForward ==
    ~overdue /\ ring # NoRing =>
        ring' # NoRing /\ ring.active.before <= ring'.active.before

\* A task that saves what it rotated before the other saved does not take the
\* ring back to an earlier active key (nts_storage_save_cookie_keyring writes
\* whatever the copy holds, without looking at what is stored).
THEOREM RingNeverBack == Spec => [][RingForward]_vars
<1>1. IInv /\ [Next]_vars => [RingForward]_vars
  <2> SUFFICES ASSUME IInv, Next, ~overdue, ring # NoRing
               PROVE  /\ ring' # NoRing
                      /\ ring.active.before <= ring'.active.before
    BY DEF RingForward
  <2>1. ring \in Ring /\ Chain(ring)
    BY DEF IInv, KeyringTypes, Timely, RingInv
  <2>2. ring.active.before \in Nat /\ ring.active.after \in Nat
    BY <2>1, RingFields, SlotFields
  <2>3. CASE ring' = ring
    BY <2>2, <2>3
  <2>4. CASE \E t \in Tasks : Save(t)
    <3> PICK t \in Tasks : Save(t)
      BY <2>4
    <3> DEFINE copy == task[t].copy
    <3>1. ring' = copy /\ task[t].pc = "save"
      BY DEF Save
    <3>2. copy \in Ring /\ Crosses(copy)
      BY <3>1, AboutToSave DEF IInv
    <3>3. CASE copy.active = ring.active
      BY <2>2, <3>1, <3>2, <3>3, RingFields
    <3>4. CASE copy.active = ring.next
      <4>1. /\ ring.next.before = ring.active.after
            /\ ring.active.after = ring.active.before + Period
        BY <2>1, ChainTimes
      <4>2. ring.active.before <= ring.next.before
        BY <2>2, <4>1, KeyringAssumption
      <4> QED
        BY <3>1, <3>2, <3>4, <4>2, RingFields
    <3> QED
      BY <3>2, <3>3, <3>4 DEF Crosses
  <2>5. ring' = ring \/ \E t \in Tasks : Save(t)
    BY DEF Next, Tick, Restart, Ensure, Connect, Request, Begin, Leave, Maintain,
           RotateAgain, Fail, Generate, Unpack, Seal
  <2> QED
    BY <2>3, <2>4, <2>5
<1> QED
  BY <1>1, SpecInvariant, PTL DEF Spec
================================================================================
