--------------------------- MODULE NtpRateLimitProofs ---------------------------
(***************************************************************************)
(* Theorems about NtpRateLimit, for any number of clients, slots and       *)
(* tokens and any period.                                                  *)
(*                                                                         *)
(* WithinRate compares two requests of the past; what carries it from one  *)
(* request to the next is an account (Account): the tokens in the bucket   *)
(* and those spent since any earlier request were paid for by the burst    *)
(* and by the time up to the last refill, whose remainder is dropped.      *)
(***************************************************************************)
EXTENDS NtpRateLimit, SequenceTheorems, WellFoundedInduction, TLAPS

\* Tokens of a slot's client, and those spent since its i-th request, against
\* the time they came from.
Paid(slot, i) ==
    LET times == grants[table[slot].client]
    IN  TokenPeriod * (table[slot].tokens + (Len(times) - i + 1))
          <= TokenPeriod * Burst + (table[slot].last_refill - times[i])
             + (TokenPeriod - 1)

-------------------------------------------------------------------------------
(* The inductive invariant. *)

Account ==
    \A slot \in Slots : table[slot].in_use =>
        \A i \in 1 .. Len(grants[table[slot].client]) : Paid(slot, i)

\* A bucket's times: it was refilled when last seen, but for a part of a token.
Stamped ==
    \A slot \in Slots : table[slot].in_use =>
        /\ table[slot].last_seen = asked[table[slot].client]
        /\ table[slot].last_refill <= table[slot].last_seen
        /\ table[slot].last_seen - table[slot].last_refill < TokenPeriod

\* A client that has no slot has no requests on record.
Unheld == \A address \in Addresses : HeldBy(address) = {} => grants[address] = <<>>

IInv ==
    /\ TypeOK
    /\ Unheld
    /\ Account
    /\ Stamped
    /\ now >= 1
    /\ WithinRate
    /\ PatientClientAllowed

-------------------------------------------------------------------------------
(* Slots. *)

LEMMA LeastNumber ==
  ASSUME NEW S \in SUBSET Nat, S # {}
  PROVE  \E n \in S : \A m \in S : n <= m
<1>1. PICK n \in S : \A m \in S : <<m, n>> \notin OpToRel(<, Nat)
  BY WFMin, NatLessThanWellFounded, Zenon
<1>2. \A m \in S : ~(m < n)
  BY <1>1, Zenon DEF OpToRel
<1> QED
  BY <1>2

LEMMA FirstOf ==
  ASSUME NEW slots \in SUBSET Slots, slots # {}
  PROVE  First(slots) \in slots
<1>1. slots \in SUBSET Nat
  BY RateAssumption DEF Slots
<1> QED
  BY <1>1, LeastNumber DEF First

\* A bucket as the table holds it.
Buckets == [in_use : {TRUE}, client : Addresses, tokens : 0 .. Burst,
            last_refill : 1 .. now, last_seen : 1 .. now]

LEMMA TableOf ==
  ASSUME TypeOK
  PROVE  /\ now \in Nat /\ Burst \in Nat \ {0} /\ TokenPeriod \in Nat \ {0}
         /\ Free.in_use = FALSE
         /\ \A slot \in Slots : /\ table[slot].in_use \in BOOLEAN
                               /\ table[slot].in_use => table[slot] \in Buckets
<1>1. Free.in_use = FALSE /\ now \in Nat
  BY DEF TypeOK, Free
<1>2. \A slot \in Slots : table[slot] = Free \/ table[slot] \in Buckets
  BY DEF TypeOK, Buckets
<1>3. \A bucket \in Buckets : bucket.in_use = TRUE
  BY DEF Buckets
<1> QED
  BY <1>1, <1>2, <1>3, RateAssumption

LEMMA LeastSeen ==
  ASSUME TypeOK, FreeSlots = {}
  PROVE  /\ LeastRecentlySeen \in Slots
         /\ \A other \in Slots :
              table[LeastRecentlySeen].last_seen <= table[other].last_seen
<1> DEFINE Seen == {table[slot].last_seen : slot \in Slots}
           Least == {slot \in Slots :
               \A other \in Slots : table[slot].last_seen <= table[other].last_seen}
<1>1. \A slot \in Slots : table[slot].last_seen \in Nat
  <2>1. \A slot \in Slots : table[slot] \in Buckets
    BY TableOf DEF FreeSlots
  <2>2. \A bucket \in Buckets : bucket.last_seen \in Nat
    BY TableOf DEF Buckets
  <2> QED
    BY <2>1, <2>2
<1>2. 1 \in Slots
  BY RateAssumption DEF Slots
<1>3. Seen \in SUBSET Nat /\ Seen # {}
  BY <1>1, <1>2
<1>4. PICK n \in Seen : \A m \in Seen : n <= m
  BY <1>3, LeastNumber
<1>5. Least # {}
  BY <1>4
<1>6. First(Least) \in Least
  BY <1>5, FirstOf
<1> QED
  BY <1>6 DEF LeastRecentlySeen

LEMMA SlotOf ==
  ASSUME TypeOK, NEW address \in Addresses
  PROVE  /\ SlotFor(address) \in Slots
         /\ HeldBy(address) # {} => SlotFor(address) \in HeldBy(address)
         /\ HeldBy(address) = {} /\ table[SlotFor(address)].in_use =>
              \A other \in Slots :
                 /\ table[other].in_use
                 /\ table[SlotFor(address)].last_seen <= table[other].last_seen
<1>1. HeldBy(address) \in SUBSET Slots /\ FreeSlots \in SUBSET Slots
  BY DEF HeldBy, FreeSlots
<1>2. CASE HeldBy(address) # {}
  BY <1>1, <1>2, FirstOf DEF SlotFor
<1>3. CASE HeldBy(address) = {} /\ FreeSlots # {}
  <2>1. SlotFor(address) \in FreeSlots
    BY <1>1, <1>3, FirstOf DEF SlotFor
  <2> QED
    BY <1>1, <1>3, <2>1 DEF FreeSlots
<1>4. CASE HeldBy(address) = {} /\ FreeSlots = {}
  <2>1. SlotFor(address) = LeastRecentlySeen
    BY <1>4 DEF SlotFor
  <2>2. \A other \in Slots : table[other].in_use
    BY <1>4, TableOf DEF FreeSlots
  <2> QED
    BY <1>4, <2>1, <2>2, LeastSeen
<1> QED
  BY <1>2, <1>3, <1>4

-------------------------------------------------------------------------------
(* Buckets. *)

LEMMA BucketOf ==
  ASSUME TypeOK, now >= 1, NEW address \in Addresses
  PROVE  /\ Bucket(address) \in Buckets
         /\ Bucket(address).client = address
         /\ HeldBy(address) # {} => Bucket(address) = table[SlotFor(address)]
         /\ HeldBy(address) = {} => /\ Bucket(address).tokens = Burst
                                    /\ Bucket(address).last_refill = now
<1>1. CASE HeldBy(address) # {}
  <2>1. /\ SlotFor(address) \in Slots /\ table[SlotFor(address)].in_use
        /\ table[SlotFor(address)].client = address
    BY <1>1, SlotOf DEF HeldBy
  <2> QED
    BY <1>1, <2>1, TableOf DEF Bucket
<1>2. CASE HeldBy(address) = {}
  <2>1. Burst \in 0 .. Burst /\ now \in 1 .. now
    BY TableOf
  <2> QED
    BY <1>2, <2>1 DEF Bucket, NewBucket, Buckets
<1> QED
  BY <1>1, <1>2

\* A refill is paid for by time, and leaves less than a token period of it.
LEMMA RefillOf ==
  ASSUME TypeOK, NEW bucket \in Buckets
  PROVE  /\ Refill(bucket) \in Buckets
         /\ Refill(bucket).client = bucket.client
         /\ Refill(bucket).last_refill >= bucket.last_refill
         /\ TokenPeriod * Refill(bucket).tokens
              <= TokenPeriod * bucket.tokens
                 + (Refill(bucket).last_refill - bucket.last_refill)
         /\ now - Refill(bucket).last_refill < TokenPeriod
         /\ Refill(bucket).tokens >= bucket.tokens
         /\ now - bucket.last_refill >= TokenPeriod => Refill(bucket).tokens > 0
<1> DEFINE due == (now - bucket.last_refill) \div TokenPeriod
<1>1. /\ bucket.tokens \in 0 .. Burst /\ bucket.last_refill \in 1 .. now
      /\ now \in Nat /\ Burst \in Nat \ {0} /\ TokenPeriod \in Nat \ {0}
  BY TableOf DEF Buckets
<1>2. /\ due \in Nat
      /\ TokenPeriod * due <= now - bucket.last_refill
      /\ now - bucket.last_refill < TokenPeriod * due + TokenPeriod
  BY <1>1
<1>3. CASE due = 0
  <2>1. Refill(bucket) = bucket
    BY <1>3 DEF Refill
  <2>2. now - bucket.last_refill < TokenPeriod
    <3> HIDE DEF due
    <3> QED
      BY <1>1, <1>2, <1>3
  <2>3. /\ TokenPeriod * bucket.tokens \in Int
        /\ bucket.last_refill \in Int /\ bucket.tokens \in Int
    BY <1>1
  <2> QED
    BY <1>1, <2>1, <2>2, <2>3
<1>4. CASE due # 0
  <2>1. Refill(bucket) =
          [bucket EXCEPT !.tokens = Capped(bucket.tokens + due), !.last_refill = now]
    BY <1>4 DEF Refill
  <2> HIDE DEF due
  <2>2. /\ Capped(bucket.tokens + due) \in 1 .. Burst
        /\ Capped(bucket.tokens + due) <= bucket.tokens + due
        /\ Capped(bucket.tokens + due) >= bucket.tokens
    BY <1>1, <1>2, <1>4 DEF Capped
  <2>3. /\ Refill(bucket) \in Buckets
        /\ Refill(bucket).client = bucket.client
        /\ Refill(bucket).tokens = Capped(bucket.tokens + due)
        /\ Refill(bucket).last_refill = now
    <3> DEFINE capped == Capped(bucket.tokens + due)
               refilled == [bucket EXCEPT !.tokens = capped, !.last_refill = now]
    <3>1. capped \in 0 .. Burst /\ now \in 1 .. now
      BY <1>1, <2>2
    <3>2. bucket = [in_use |-> TRUE, client |-> bucket.client,
                    tokens |-> bucket.tokens, last_refill |-> bucket.last_refill,
                    last_seen |-> bucket.last_seen]
          /\ bucket.client \in Addresses /\ bucket.last_seen \in 1 .. now
      BY DEF Buckets
    <3> HIDE DEF capped
    <3>3. /\ refilled \in Buckets /\ refilled.client = bucket.client
          /\ refilled.tokens = capped /\ refilled.last_refill = now
      BY <3>1, <3>2 DEF Buckets
    <3> QED
      BY <2>1, <3>3 DEF capped
  <2>4. TokenPeriod * Capped(bucket.tokens + due)
          <= TokenPeriod * bucket.tokens + (now - bucket.last_refill)
    <3> DEFINE capped == Capped(bucket.tokens + due)
    <3>1. capped \in Nat /\ capped <= bucket.tokens + due
      BY <2>2
    <3> HIDE DEF capped
    <3>2. TokenPeriod * capped <= TokenPeriod * (bucket.tokens + due)
      BY <1>1, <1>2, <3>1
    <3>3. TokenPeriod * (bucket.tokens + due)
            = TokenPeriod * bucket.tokens + TokenPeriod * due
      BY <1>1, <1>2
    <3>4. TokenPeriod * capped \in Int /\ TokenPeriod * bucket.tokens \in Int
          /\ TokenPeriod * due \in Int
      BY <1>1, <1>2, <3>1
    <3> QED
      BY <1>1, <1>2, <3>2, <3>3, <3>4 DEF capped
  <2> QED
    BY <1>1, <2>2, <2>3, <2>4
<1> QED
  BY <1>3, <1>4

-------------------------------------------------------------------------------
(* ntp_rate_limit_allow. *)

\* What a request of `address' leaves in its slot.
Left(address) == Refill(Bucket(address))

Allowed(address) == Left(address).tokens > 0

LEMMA LeftOf ==
  ASSUME IInv, NEW address \in Addresses
  PROVE  /\ Left(address) \in Buckets /\ Left(address).client = address
         /\ Left(address).tokens \in 0 .. Burst
         /\ Left(address).last_refill \in 1 .. now
         /\ now - Left(address).last_refill < TokenPeriod
         /\ HeldBy(address) = {} => Allowed(address)
         /\ now - asked[address] >= TokenPeriod => Allowed(address)
<1> USE DEF IInv
<1>1. /\ Bucket(address) \in Buckets /\ Bucket(address).client = address
      /\ HeldBy(address) # {} => Bucket(address) = table[SlotFor(address)]
      /\ HeldBy(address) = {} => Bucket(address).tokens = Burst
  BY BucketOf
<1>2. \A bucket \in Buckets : bucket.tokens \in 0 .. Burst
                           /\ bucket.last_refill \in 1 .. now
  BY DEF Buckets
<1>3. /\ Left(address) \in Buckets
      /\ Left(address).client = Bucket(address).client
      /\ now - Left(address).last_refill < TokenPeriod
      /\ Left(address).tokens >= Bucket(address).tokens
      /\ now - Bucket(address).last_refill >= TokenPeriod
           => Left(address).tokens > 0
  BY <1>1, RefillOf DEF Left
<1>4. HeldBy(address) = {} => Allowed(address)
  BY <1>1, <1>2, <1>3, TableOf DEF Allowed
<1>5. HeldBy(address) # {} =>
        Bucket(address).last_refill <= asked[address] /\ asked[address] \in Nat
  <2>1. HeldBy(address) # {} => SlotFor(address) \in HeldBy(address)
    BY SlotOf
  <2>2. asked[address] \in 0 .. now /\ now \in Nat
    BY TableOf DEF TypeOK
  <2> QED
    BY <1>1, <2>1, <2>2 DEF HeldBy, Stamped
<1>6. now - asked[address] >= TokenPeriod => Allowed(address)
  BY <1>1, <1>2, <1>3, <1>4, <1>5, TableOf DEF Allowed
<1> QED
  BY <1>1, <1>2, <1>3, <1>4, <1>6

\* The next state, slot by slot and client by client.
LEMMA RequestMoves ==
  ASSUME IInv, NEW address \in Addresses, Request(address)
  PROVE  /\ now' = now
         /\ SlotFor(address) \in Slots
         /\ table'[SlotFor(address)] =
              [Left(address) EXCEPT !.tokens = @ - (IF Allowed(address) THEN 1 ELSE 0),
                                    !.last_seen = now]
         /\ \A slot \in Slots \ {SlotFor(address)} :
              table'[slot] = table[slot]
              /\ (table[slot].in_use =>
                    /\ table[slot].client # address
                    /\ grants'[table[slot].client] = grants[table[slot].client]
                    /\ asked'[table[slot].client] = asked[table[slot].client])
         /\ grants'[address] = grants[address]
                                \o (IF Allowed(address) THEN <<now>> ELSE <<>>)
         /\ \A other \in Addresses \ {address} :
              grants'[other] = IF /\ table[SlotFor(address)].in_use
                                  /\ table[SlotFor(address)].client = other
                               THEN <<>> ELSE grants[other]
         /\ DOMAIN grants' = Addresses /\ grants' = [a \in Addresses |-> grants'[a]]
         /\ DOMAIN table' = Slots /\ table' = [s \in Slots |-> table'[s]]
         /\ asked' = [asked EXCEPT ![address] = now]
         /\ answer' = [allowed |-> Allowed(address),
                       gap |-> IF now - asked[address] > TokenPeriod
                               THEN TokenPeriod ELSE now - asked[address]]
<1> USE DEF IInv
<1> DEFINE own == SlotFor(address)
           evicted == IF table[own].in_use THEN {table[own].client} \ {address} ELSE {}
<1>1. /\ table' = [table EXCEPT ![own] =
                     [Left(address) EXCEPT
                        !.tokens = @ - (IF Allowed(address) THEN 1 ELSE 0),
                        !.last_seen = now]]
      /\ grants' = [other \in Addresses |->
                      (IF other \in evicted THEN <<>> ELSE grants[other])
                        \o (IF other = address /\ Allowed(address)
                            THEN <<now>> ELSE <<>>)]
      /\ asked' = [asked EXCEPT ![address] = now]
      /\ answer' = [allowed |-> Allowed(address),
                    gap |-> IF now - asked[address] > TokenPeriod
                            THEN TokenPeriod ELSE now - asked[address]]
      /\ now' = now
  BY DEF Request, Left, Allowed
<1>2. /\ own \in Slots
      /\ HeldBy(address) # {} => own \in HeldBy(address)
  BY SlotOf
<1>3. address \notin evicted
  OBVIOUS
<1>4. ASSUME NEW slot \in Slots \ {own}, table[slot].in_use
      PROVE  /\ table[slot].client \in Addresses /\ table[slot].client # address
             /\ table[slot].client \notin evicted
  <2>1. table[slot].client \in Addresses
    BY <1>4, TableOf DEF Buckets
  <2>2. \A other \in Slots :
          table[other].in_use /\ table[other].client = table[slot].client
            => other = slot
    BY <1>4 DEF TypeOK
  <2>3. table[slot].client # address
    BY <1>2, <1>4, <2>2 DEF HeldBy
  <2> QED
    BY <1>2, <1>4, <2>1, <2>2, <2>3
<1>5. \A other \in Addresses : grants[other] \in Seq(1 .. now)
  BY DEF TypeOK
<1> HIDE DEF own, evicted
<1>6. ASSUME NEW slot \in Slots \ {own}, table[slot].in_use
      PROVE  /\ grants'[table[slot].client] = grants[table[slot].client]
             /\ asked'[table[slot].client] = asked[table[slot].client]
  <2> DEFINE other == table[slot].client
  <2>1. other \in Addresses /\ other # address /\ other \notin evicted
    BY <1>4, <1>6
  <2> HIDE DEF other
  <2>2. grants'[other] = grants[other] \o <<>>
    BY <1>1, <2>1
  <2>3. grants[other] \o <<>> = grants[other]
    BY <1>5, <2>1
  <2>4. asked'[other] = asked[other]
    BY <1>1, <2>1 DEF TypeOK
  <2> QED
    BY <2>2, <2>3, <2>4 DEF other
<1>7. /\ table'[own] = [Left(address) EXCEPT
                          !.tokens = @ - (IF Allowed(address) THEN 1 ELSE 0),
                          !.last_seen = now]
      /\ \A slot \in Slots \ {own} : table'[slot] = table[slot]
      /\ DOMAIN table' = Slots /\ table' = [s \in Slots |-> table'[s]]
  <2>1. table \in [Slots -> {Free} \cup Buckets]
    BY DEF TypeOK, Buckets
  <2> QED
    BY <1>1, <1>2, <2>1
<1>8. grants'[address] = grants[address]
                         \o (IF Allowed(address) THEN <<now>> ELSE <<>>)
  BY <1>1, <1>3
<1>9. \A other \in Addresses \ {address} :
        grants'[other] = IF table[own].in_use /\ table[own].client = other
                         THEN <<>> ELSE grants[other]
  <2> TAKE other \in Addresses \ {address}
  <2>1. grants'[other] = (IF other \in evicted THEN <<>> ELSE grants[other]) \o <<>>
    BY <1>1
  <2>2. <<>> \o <<>> = <<>> /\ grants[other] \o <<>> = grants[other]
    BY <1>5
  <2>3. other \in evicted <=> table[own].in_use /\ table[own].client = other
    BY DEF evicted
  <2> QED
    BY <2>1, <2>2, <2>3
<1>10. DOMAIN grants' = Addresses /\ grants' = [a \in Addresses |-> grants'[a]]
  BY <1>1
<1> QED
  BY <1>1, <1>2, <1>4, <1>6, <1>7, <1>8, <1>9, <1>10 DEF own

\* The books of a bucket, in plain numbers: a refill of time r0 to r1 turns x0
\* tokens into x1, and c were spent before.
LEMMA Refilled ==
  ASSUME NEW p \in Int, NEW x0 \in Int, NEW x1 \in Int, NEW c \in Int, NEW b \in Int,
         NEW r0 \in Int, NEW r1 \in Int, NEW t \in Int,
         p * (x0 + c) <= p * b + (r0 - t) + (p - 1),
         p * x1 <= p * x0 + (r1 - r0)
  PROVE  p * (x1 + c) <= p * b + (r1 - t) + (p - 1)
<1>1. p * (x0 + c) = p * x0 + p * c /\ p * (x1 + c) = p * x1 + p * c
  OBVIOUS
<1>2. /\ p * x0 \in Int /\ p * x1 \in Int /\ p * c \in Int /\ p * b \in Int
  OBVIOUS
<1> QED
  BY <1>1, <1>2

\* What is left in it may be disregarded, and so may the time since.
LEMMA Earlier ==
  ASSUME NEW p \in Nat, NEW x \in Nat, NEW c \in Int, NEW b \in Int,
         NEW r \in Int, NEW n \in Int, NEW t \in Int, r <= n,
         p * (x + c) <= p * b + (r - t) + (p - 1)
  PROVE  p * c <= p * b + (n - t + p - 1)
<1>1. p * (x + c) = p * x + p * c
  OBVIOUS
<1>2. p * x \in Nat /\ p * c \in Int /\ p * b \in Int
  OBVIOUS
<1> QED
  BY <1>1, <1>2

\* A bound on products is one on quotients.
LEMMA Quotient ==
  ASSUME NEW p \in Nat \ {0}, NEW a \in Int, NEW b \in Int, NEW n \in Nat,
         p * a <= p * b + n
  PROVE  a <= b + n \div p
<1> DEFINE q == n \div p
<1>1. q \in Nat /\ n < p * q + p
  OBVIOUS
<1> HIDE DEF q
<1>2. p * a < p * b + (p * q + p)
  <2>1. p * a \in Int /\ p * b \in Int /\ p * q \in Int
    BY <1>1
  <2> QED
    BY <1>1, <2>1
<1>3. p * b + (p * q + p) = p * (b + q + 1)
  BY <1>1
<1>4. a < b + q + 1
  <2> SUFFICES ASSUME a >= b + q + 1 PROVE FALSE
    BY <1>1
  <2>1. p * a >= p * (b + q + 1)
    BY <1>1
  <2>2. p * a \in Int /\ p * (b + q + 1) \in Int
    BY <1>1
  <2> QED
    BY <1>2, <1>3, <2>1, <2>2
<1> QED
  BY <1>1, <1>4 DEF q

\* What the slot of `address' holds after its request.
LEMMA OwnSlot ==
  ASSUME IInv, NEW address \in Addresses, Request(address)
  PROVE  /\ table'[SlotFor(address)] \in Buckets
         /\ table'[SlotFor(address)].in_use
         /\ table'[SlotFor(address)].client = address
         /\ table'[SlotFor(address)].tokens =
              Left(address).tokens - (IF Allowed(address) THEN 1 ELSE 0)
         /\ table'[SlotFor(address)].tokens \in 0 .. Burst
         /\ table'[SlotFor(address)].last_refill = Left(address).last_refill
         /\ table'[SlotFor(address)].last_seen = now
<1> DEFINE left == Left(address)
           tokens == left.tokens - (IF Allowed(address) THEN 1 ELSE 0)
<1>1. left \in Buckets /\ left.client = address /\ left.tokens \in 0 .. Burst
  BY LeftOf
<1>2. tokens \in 0 .. Burst /\ now \in 1 .. now
  BY <1>1, TableOf DEF Allowed, IInv
<1>3. table'[SlotFor(address)] = [left EXCEPT !.tokens = tokens, !.last_seen = now]
  BY RequestMoves
<1> HIDE DEF left, tokens
<1>4. left = [in_use |-> TRUE, client |-> left.client, tokens |-> left.tokens,
              last_refill |-> left.last_refill, last_seen |-> left.last_seen]
      /\ left.last_refill \in 1 .. now
  BY <1>1 DEF Buckets
<1>5. /\ table'[SlotFor(address)] \in Buckets
      /\ table'[SlotFor(address)].in_use
      /\ table'[SlotFor(address)].client = address
      /\ table'[SlotFor(address)].tokens = tokens
      /\ table'[SlotFor(address)].last_refill = left.last_refill
      /\ table'[SlotFor(address)].last_seen = now
  BY <1>1, <1>2, <1>3, <1>4 DEF Buckets
<1> QED
  BY <1>2, <1>5 DEF left, tokens

\* Its record of requests: the ones before, and this one when it is allowed.
LEMMA OwnGrants ==
  ASSUME IInv, NEW address \in Addresses, Request(address)
  PROVE  /\ grants[address] \in Seq(1 .. now) /\ grants'[address] \in Seq(1 .. now)
         /\ Len(grants'[address])
              = Len(grants[address]) + (IF Allowed(address) THEN 1 ELSE 0)
         /\ \A i \in 1 .. Len(grants[address]) : grants'[address][i] = grants[address][i]
         /\ Allowed(address) => grants'[address][Len(grants[address]) + 1] = now
<1>1. grants[address] \in Seq(1 .. now) /\ now \in 1 .. now
  BY TableOf DEF IInv, TypeOK
<1>2. <<now>> \in Seq(1 .. now) /\ Len(<<now>>) = 1 /\ <<now>>[1] = now
  BY <1>1
<1>3. CASE Allowed(address)
  <2>1. grants'[address] = grants[address] \o <<now>>
    BY <1>3, RequestMoves
  <2> QED
    BY <1>1, <1>2, <1>3, <2>1, ConcatProperties
<1>4. CASE ~Allowed(address)
  <2>1. grants'[address] = grants[address] \o <<>>
    BY <1>4, RequestMoves
  <2>2. grants[address] \o <<>> = grants[address]
    BY <1>1
  <2> QED
    BY <1>1, <1>4, <2>1, <2>2
<1> QED
  BY <1>3, <1>4

\* The same, part by part.
LEMMA Elsewhere ==
  ASSUME IInv, NEW address \in Addresses, Request(address),
         NEW slot \in Slots, slot # SlotFor(address)
  PROVE  /\ table'[slot] = table[slot]
         /\ table[slot].in_use =>
              /\ table[slot].client # address
              /\ grants'[table[slot].client] = grants[table[slot].client]
              /\ asked'[table[slot].client] = asked[table[slot].client]
<1>1. slot \in Slots \ {SlotFor(address)}
  OBVIOUS
<1> QED
  BY <1>1, RequestMoves, Zenon

LEMMA OtherGrants ==
  ASSUME IInv, NEW address \in Addresses, Request(address),
         NEW other \in Addresses, other # address
  PROVE  grants'[other] = IF /\ table[SlotFor(address)].in_use
                             /\ table[SlotFor(address)].client = other
                          THEN <<>> ELSE grants[other]
<1>1. \A a \in Addresses \ {address} :
        grants'[a] = IF /\ table[SlotFor(address)].in_use
                        /\ table[SlotFor(address)].client = a
                     THEN <<>> ELSE grants[a]
  BY RequestMoves, Zenon
<1>2. other \in Addresses \ {address}
  OBVIOUS
<1> QED
  BY <1>1, <1>2

LEMMA Shape ==
  ASSUME IInv, NEW address \in Addresses, Request(address)
  PROVE  /\ now' = now /\ now \in Nat /\ SlotFor(address) \in Slots
         /\ table' = [s \in Slots |-> table'[s]]
         /\ grants' = [a \in Addresses |-> grants'[a]]
<1>1. TypeOK
  BY DEF IInv
<1> QED
  BY <1>1, RequestMoves, TableOf

LEMMA Recorded ==
  ASSUME IInv, NEW address \in Addresses, Request(address)
  PROVE  /\ asked' = [asked EXCEPT ![address] = now]
         /\ asked'[address] = now
         /\ answer' = [allowed |-> Allowed(address),
                       gap |-> IF now - asked[address] > TokenPeriod
                               THEN TokenPeriod ELSE now - asked[address]]
<1>1. asked \in [Addresses -> 0 .. now]
  BY DEF IInv, TypeOK
<1>2. /\ asked' = [asked EXCEPT ![address] = now]
      /\ answer' = [allowed |-> Allowed(address),
                    gap |-> IF now - asked[address] > TokenPeriod
                            THEN TokenPeriod ELSE now - asked[address]]
  BY RequestMoves
<1>3. asked'[address] = now
  BY <1>1, <1>2
<1> QED
  BY <1>2, <1>3

LEMMA Element ==
  ASSUME NEW S, NEW times \in Seq(S), NEW i \in 1 .. Len(times)
  PROVE  times[i] \in S /\ Len(times) \in Nat
  OBVIOUS

\* The account of the slot asked for, before the token of this request is spent.
LEMMA OwnAccount ==
  ASSUME IInv, NEW address \in Addresses,
         NEW i \in 1 .. Len(grants[address])
  PROVE  TokenPeriod * (Left(address).tokens + (Len(grants[address]) - i + 1))
           <= TokenPeriod * Burst + (Left(address).last_refill - grants[address][i])
              + (TokenPeriod - 1)
<1>0. TypeOK /\ Unheld /\ Account /\ Stamped /\ now >= 1 /\ WithinRate
       /\ PatientClientAllowed
  BY DEF IInv
<1> USE <1>0
<1> DEFINE times == grants[address]
           bucket == Bucket(address)
           left == Left(address)
           count == Len(times) - i + 1
<1>1. times \in Seq(1 .. now) /\ times # <<>>
  BY TableOf DEF TypeOK
<1>2. SlotFor(address) \in HeldBy(address)
  BY <1>1, SlotOf DEF Unheld
<1>3. bucket = table[SlotFor(address)] /\ bucket \in Buckets /\ bucket.client = address
  BY <1>2, BucketOf
<1>4. TokenPeriod * (bucket.tokens + count)
        <= TokenPeriod * Burst + (bucket.last_refill - times[i]) + (TokenPeriod - 1)
  <2>1. Paid(SlotFor(address), i)
    BY <1>2 DEF Account, HeldBy
  <2> QED
    BY <1>3, <2>1 DEF Paid
<1>5. TokenPeriod * left.tokens
        <= TokenPeriod * bucket.tokens + (left.last_refill - bucket.last_refill)
  BY <1>3, RefillOf DEF Left
<1>6. /\ times[i] \in Int /\ count \in Int /\ TokenPeriod \in Nat /\ Burst \in Nat
      /\ bucket.tokens \in Int /\ bucket.last_refill \in Int
      /\ left.tokens \in Int /\ left.last_refill \in Int
  <2>1. bucket.tokens \in 0 .. Burst /\ bucket.last_refill \in 1 .. now
    BY <1>3 DEF Buckets
  <2>2. times[i] \in 1 .. now /\ now \in Nat
    BY <1>1, Element, TableOf
  <2>3. Len(times) \in Nat
    BY <1>1
  <2> HIDE DEF times, bucket, left
  <2> QED
    BY <2>1, <2>2, <2>3, LeftOf, TableOf DEF left
<1> HIDE DEF times, bucket, left, count
<1>7. TokenPeriod \in Int /\ Burst \in Int
  BY <1>6
<1>8. TokenPeriod * (left.tokens + count)
        <= TokenPeriod * Burst + (left.last_refill - times[i]) + (TokenPeriod - 1)
  BY <1>4, <1>5, <1>6, <1>7, Refilled, Zenon
<1> QED
  BY <1>8 DEF times, left, count

-------------------------------------------------------------------------------
(* A request preserves the invariant. *)

LEMMA RequestTypes ==
  ASSUME IInv, NEW address \in Addresses, Request(address)
  PROVE  TypeOK'
<1>0. TypeOK /\ Unheld /\ Account /\ Stamped /\ now >= 1 /\ WithinRate
       /\ PatientClientAllowed
  BY DEF IInv
<1> USE <1>0
<1> DEFINE own == SlotFor(address)
<1>1. now' = now /\ now \in Nat
  BY Shape
<1>2. Buckets' = Buckets
  BY <1>1 DEF Buckets
<1>3. table' \in [Slots -> {Free} \cup Buckets]
  <2>1. \A slot \in Slots : table'[slot] \in {Free} \cup Buckets
    <3> TAKE slot \in Slots
    <3>1. CASE slot = own
      BY <3>1, OwnSlot
    <3>2. CASE slot # own
      BY <3>2, Elsewhere DEF TypeOK, Buckets
    <3> QED
      BY <3>1, <3>2
  <2> QED
    BY <2>1, Shape
<1>4. ASSUME NEW slot \in Slots, NEW other \in Slots,
             table'[slot].in_use, table'[other].in_use,
             table'[slot].client = table'[other].client
      PROVE  slot = other
  <2>1. CASE slot = own /\ other # own
    BY <1>4, <2>1, OwnSlot, Elsewhere
  <2>2. CASE slot # own /\ other = own
    BY <1>4, <2>2, OwnSlot, Elsewhere
  <2>3. CASE slot # own /\ other # own
    BY <1>4, <2>3, Elsewhere DEF TypeOK
  <2> QED
    BY <2>1, <2>2, <2>3
<1>5. asked' \in [Addresses -> 0 .. now]
  <2>1. asked \in [Addresses -> 0 .. now] /\ now \in 0 .. now
    BY <1>1 DEF TypeOK
  <2> QED
    BY <1>1, <2>1, Recorded
<1>6. grants' \in [Addresses -> Seq(1 .. now)]
  <2>1. \A other \in Addresses : grants'[other] \in Seq(1 .. now)
    <3> TAKE other \in Addresses
    <3>1. CASE other = address
      BY <3>1, OwnGrants
    <3>2. CASE other # address
      <4>1. grants[other] \in Seq(1 .. now) /\ <<>> \in Seq(1 .. now)
        BY DEF TypeOK
      <4>2. grants'[other] \in {<<>>, grants[other]}
        BY <3>2, OtherGrants
      <4> QED
        BY <4>1, <4>2
    <3> QED
      BY <3>1, <3>2
  <2> QED
    BY <2>1, Shape
<1>7. answer' \in [allowed : BOOLEAN, gap : 0 .. TokenPeriod]
  <2>1. Allowed(address) \in BOOLEAN
    BY DEF Allowed
  <2>2. asked[address] \in 0 .. now
    BY DEF TypeOK
  <2>3. (IF now - asked[address] > TokenPeriod
         THEN TokenPeriod ELSE now - asked[address]) \in 0 .. TokenPeriod
    BY <1>1, <2>2, TableOf
  <2> QED
    BY <2>1, <2>3, Recorded
<1> QED
  BY <1>1, <1>3, <1>4, <1>5, <1>6, <1>7 DEF TypeOK, Buckets

LEMMA RequestUnheld ==
  ASSUME IInv, NEW address \in Addresses, Request(address)
  PROVE  Unheld'
<1>0. TypeOK /\ Unheld /\ Account /\ Stamped /\ now >= 1 /\ WithinRate
       /\ PatientClientAllowed
  BY DEF IInv
<1> USE <1>0
<1> DEFINE own == SlotFor(address)
<1>1. SUFFICES ASSUME NEW other \in Addresses,
                      \A slot \in Slots :
                        ~(table'[slot].in_use /\ table'[slot].client = other)
               PROVE  grants'[other] = <<>>
  BY DEF Unheld, HeldBy
<1>2. other # address
  BY <1>1, OwnSlot, Shape
<1>3. CASE table[own].in_use /\ table[own].client = other
  BY <1>2, <1>3, OtherGrants
<1>4. CASE ~(table[own].in_use /\ table[own].client = other)
  <2>1. HeldBy(other) = {}
    BY <1>1, <1>4, Elsewhere DEF HeldBy
  <2> QED
    BY <1>2, <1>4, <2>1, OtherGrants DEF Unheld
<1> QED
  BY <1>3, <1>4

LEMMA RequestAccount ==
  ASSUME IInv, NEW address \in Addresses, Request(address)
  PROVE  Account'
<1>0. TypeOK /\ Unheld /\ Account /\ Stamped /\ now >= 1 /\ WithinRate
       /\ PatientClientAllowed
  BY DEF IInv
<1> USE <1>0
<1> DEFINE own == SlotFor(address)
<1>1. SUFFICES ASSUME NEW slot \in Slots, table'[slot].in_use,
                      NEW i \in 1 .. Len(grants'[table'[slot].client])
               PROVE  Paid(slot, i)'
  BY DEF Account
<1>2. CASE slot # own
  <2>1. /\ table'[slot] = table[slot] /\ table[slot].in_use
        /\ grants'[table[slot].client] = grants[table[slot].client]
    BY <1>1, <1>2, Elsewhere
  <2>2. i \in 1 .. Len(grants[table[slot].client])
    BY <1>1, <2>1
  <2>3. Paid(slot, i)
    BY <2>1, <2>2 DEF Account
  <2> QED
    BY <2>1, <2>3 DEF Paid
<1>3. CASE slot = own
  <2> DEFINE before == grants[address]
             after == grants'[address]
             left == Left(address)
             one == IF Allowed(address) THEN 1 ELSE 0
  <2>1. /\ table'[own].client = address
        /\ table'[own].tokens = left.tokens - one
        /\ table'[own].last_refill = left.last_refill
    BY OwnSlot
  <2>2. /\ Len(after) = Len(before) + one /\ Len(before) \in Nat
        /\ after \in Seq(1 .. now)
        /\ \A k \in 1 .. Len(before) : after[k] = before[k]
        /\ one = 1 => after[Len(before) + 1] = now
    <3>1. before \in Seq(1 .. now)
      BY OwnGrants
    <3>2. Len(before) \in Nat
      BY <3>1
    <3>3. one = 1 => Allowed(address)
      OBVIOUS
    <3>4. Len(after) = Len(before) + one
      BY OwnGrants
    <3> QED
      BY <3>2, <3>3, <3>4, OwnGrants, Zenon
  <2>3. i \in 1 .. Len(after)
    BY <1>1, <1>3, <2>1
  <2>4. /\ left.tokens \in 0 .. Burst /\ left.last_refill \in 1 .. now
        /\ now - left.last_refill < TokenPeriod
        /\ now \in Nat /\ TokenPeriod \in Nat \ {0} /\ Burst \in Nat \ {0}
    BY LeftOf, TableOf
  <2>5. CASE i \in 1 .. Len(before)
    <3>1. TokenPeriod * (left.tokens + (Len(before) - i + 1))
            <= TokenPeriod * Burst + (left.last_refill - before[i])
               + (TokenPeriod - 1)
      BY <2>5, OwnAccount
    <3>2. one \in {0, 1}
      OBVIOUS
    <3> HIDE DEF one, left, before, after
    <3>3. left.tokens - one + (Len(after) - i + 1) = left.tokens + (Len(before) - i + 1)
      <4>1. /\ Len(after) = Len(before) + one /\ Len(before) \in Int
            /\ left.tokens \in Int /\ one \in Int /\ i \in Int
        BY <2>2, <2>4, <2>5, <3>2
      <4> QED
        BY <4>1
    <3> QED
      BY <1>3, <2>1, <2>2, <2>5, <3>1, <3>3 DEF Paid, after
  <2>6. CASE i \notin 1 .. Len(before)
    <3>1. one \in {0, 1}
      OBVIOUS
    <3> HIDE DEF one, left, before, after
    <3>2. i = Len(before) + 1 /\ one = 1
      BY <2>2, <2>3, <2>6, <3>1
    <3>3. left.tokens - one + (Len(after) - i + 1) = left.tokens /\ after[i] = now
      BY <2>2, <2>4, <3>2
    <3>4. TokenPeriod * left.tokens <= TokenPeriod * Burst
      BY <2>4
    <3>5. TokenPeriod * left.tokens
            <= TokenPeriod * Burst + (left.last_refill - now) + (TokenPeriod - 1)
      <4>1. TokenPeriod * left.tokens \in Int /\ TokenPeriod * Burst \in Int
        BY <2>4
      <4> QED
        BY <2>4, <3>4, <4>1
    <3> QED
      BY <1>3, <2>1, <3>3, <3>5 DEF Paid, after
  <2> QED
    BY <2>5, <2>6
<1> QED
  BY <1>2, <1>3

LEMMA RequestStamped ==
  ASSUME IInv, NEW address \in Addresses, Request(address)
  PROVE  Stamped'
<1>0. TypeOK /\ Unheld /\ Account /\ Stamped /\ now >= 1 /\ WithinRate
       /\ PatientClientAllowed
  BY DEF IInv
<1> USE <1>0
<1> DEFINE own == SlotFor(address)
<1>1. SUFFICES ASSUME NEW slot \in Slots, table'[slot].in_use
               PROVE  /\ table'[slot].last_seen = asked'[table'[slot].client]
                      /\ table'[slot].last_refill <= table'[slot].last_seen
                      /\ table'[slot].last_seen - table'[slot].last_refill
                           < TokenPeriod
  BY DEF Stamped
<1>2. CASE slot # own
  BY <1>1, <1>2, Elsewhere DEF Stamped
<1>3. CASE slot = own
  <2>1. asked'[address] = now
    BY Recorded
  <2>2. Left(address).last_refill <= now
    BY LeftOf, TableOf
  <2> QED
    BY <1>3, <2>1, <2>2, OwnSlot, LeftOf
<1> QED
  BY <1>2, <1>3

LEMMA RequestRate ==
  ASSUME IInv, NEW address \in Addresses, Request(address)
  PROVE  WithinRate'
<1>0. TypeOK /\ Unheld /\ Account /\ Stamped /\ now >= 1 /\ WithinRate
       /\ PatientClientAllowed
  BY DEF IInv
<1> USE <1>0
<1> DEFINE own == SlotFor(address)
<1>1. SUFFICES ASSUME NEW slot \in Slots, table'[slot].in_use,
                      NEW i \in 1 .. Len(grants'[table'[slot].client]),
                      NEW j \in i .. Len(grants'[table'[slot].client])
               PROVE  LET times == grants'[table'[slot].client]
                      IN  j - i + 1 <= Burst + (times[j] - times[i] + TokenPeriod - 1)
                                                 \div TokenPeriod
  BY DEF WithinRate
<1>2. CASE slot # own
  <2>1. /\ table'[slot] = table[slot] /\ table[slot].in_use
        /\ grants'[table[slot].client] = grants[table[slot].client]
    BY <1>1, <1>2, Elsewhere
  <2> QED
    BY <1>1, <2>1 DEF WithinRate
<1>3. CASE slot = own
  <2> DEFINE before == grants[address]
             after == grants'[address]
  <2>1. /\ table'[own] \in Buckets /\ table'[own].client = address
        /\ table'[own].in_use
        /\ table'[own].tokens \in 0 .. Burst
        /\ table'[own].last_refill \in 1 .. now
    BY OwnSlot, LeftOf
  <2>2. /\ before \in Seq(1 .. now) /\ after \in Seq(1 .. now)
        /\ Len(before) \in Nat
        /\ \A k \in 1 .. Len(before) : after[k] = before[k]
        /\ Len(after) > Len(before) =>
             Len(after) = Len(before) + 1 /\ after[Len(after)] = now
    <3>1. before \in Seq(1 .. now) /\ after \in Seq(1 .. now)
      BY OwnGrants
    <3>2. Len(before) \in Nat
      BY <3>1
    <3>3. Len(after) = Len(before) + (IF Allowed(address) THEN 1 ELSE 0)
      BY OwnGrants
    <3>4. /\ Allowed(address) => Len(after) = Len(before) + 1
          /\ ~Allowed(address) => Len(after) = Len(before)
      <4> DEFINE n == Len(before)
                 m == Len(after)
                 ok == Allowed(address)
      <4>1. n \in Nat /\ m = n + (IF ok THEN 1 ELSE 0)
        BY <3>2, <3>3
      <4>2. ok \in BOOLEAN
        BY DEF Allowed
      <4> HIDE DEF n, m, ok
      <4>3. (ok => m = n + 1) /\ (~ok => m = n)
        BY <4>1, <4>2
      <4> QED
        BY <4>3 DEF n, m, ok
    <3>5. Len(after) > Len(before) => Allowed(address)
      BY <3>2, <3>4
    <3>6. Len(after) > Len(before) =>
            Len(after) = Len(before) + 1 /\ after[Len(after)] = now
      BY <3>4, <3>5, OwnGrants
    <3>7. \A k \in 1 .. Len(before) : after[k] = before[k]
      BY OwnGrants
    <3> QED
      BY <3>1, <3>2, <3>6, <3>7
  <2>3. Len(after) \in Nat /\ i \in 1 .. Len(after) /\ j \in i .. Len(after)
    BY <1>1, <1>3, <2>1, <2>2
  <2>4. CASE j \in 1 .. Len(before)
    <3>1. before # <<>> /\ i \in 1 .. Len(before) /\ j \in i .. Len(before)
      BY <2>2, <2>3, <2>4
    <3>2. own \in HeldBy(address)
      BY <3>1, SlotOf DEF Unheld
    <3>3. before[j] - before[i] + TokenPeriod - 1
            = after[j] - after[i] + TokenPeriod - 1
      BY <2>2, <2>4, <3>1
    <3>4. j - i + 1 <= Burst + (before[j] - before[i] + TokenPeriod - 1)
                                 \div TokenPeriod
      BY <3>1, <3>2 DEF WithinRate, HeldBy
    <3> QED
      BY <1>3, <2>1, <3>3, <3>4
  <2>5. CASE j \notin 1 .. Len(before)
    <3>1. j = Len(after) /\ after[j] = now
      BY <2>2, <2>3, <2>5
    <3>2. Paid(slot, i)'
      BY <1>1, RequestAccount DEF Account
    <3>3. TokenPeriod * (table'[own].tokens + (j - i + 1))
            <= TokenPeriod * Burst + (table'[own].last_refill - after[i])
               + (TokenPeriod - 1)
      <4>1. TokenPeriod * (table'[own].tokens + (Len(after) - i + 1))
              <= TokenPeriod * Burst + (table'[own].last_refill - after[i])
                 + (TokenPeriod - 1)
        BY <1>3, <2>1, <3>2 DEF Paid
      <4> QED
        BY <3>1, <4>1
    <3>4. after[i] \in 1 .. now /\ now \in Nat /\ TokenPeriod \in Nat \ {0}
          /\ Burst \in Nat \ {0}
      BY <2>2, <2>3, Element, TableOf
    <3> DEFINE tokens == table'[own].tokens
               refill == table'[own].last_refill
               span == now - after[i] + TokenPeriod - 1
               count == j - i + 1
    <3>5. span \in Nat /\ count \in Int
      BY <2>3, <3>4
    <3>6. TokenPeriod * count <= TokenPeriod * Burst + span
      <4>1. /\ tokens \in Nat /\ refill \in Int /\ refill <= now
            /\ TokenPeriod * (tokens + count)
                 <= TokenPeriod * Burst + (refill - after[i]) + (TokenPeriod - 1)
        BY <2>1, <3>3, <3>4
      <4> HIDE DEF tokens, refill, count
      <4>2. /\ TokenPeriod \in Nat /\ Burst \in Int /\ now \in Int
            /\ after[i] \in Int /\ count \in Int
        BY <3>4, <3>5
      <4> QED
        BY <3>4, <3>5, <4>1, <4>2, Earlier, Zenon DEF span
    <3>7. count <= Burst + span \div TokenPeriod
      <4> HIDE DEF count, span
      <4> QED
        BY <3>4, <3>5, <3>6, Quotient
    <3> QED
      BY <1>3, <2>1, <3>1, <3>7
  <2> QED
    BY <2>4, <2>5
<1> QED
  BY <1>2, <1>3

-------------------------------------------------------------------------------
LEMMA Initial == Init => IInv
<1> SUFFICES ASSUME Init PROVE IInv
  OBVIOUS
<1> USE RateAssumption DEF Init
<1>1. Free.in_use = FALSE
  BY DEF Free
<1>2. \A slot \in Slots : table[slot] = Free
  OBVIOUS
<1>3. TypeOK
  <2>1. table \in [Slots -> {Free} \cup Buckets]
    OBVIOUS
  <2>2. asked \in [Addresses -> 0 .. now] /\ now \in Nat
    OBVIOUS
  <2>3. grants \in [Addresses -> Seq(1 .. now)]
    OBVIOUS
  <2>4. answer \in [allowed : BOOLEAN, gap : 0 .. TokenPeriod]
    OBVIOUS
  <2> QED
    BY <1>1, <1>2, <2>1, <2>2, <2>3, <2>4 DEF TypeOK, Buckets
<1>4. Unheld /\ Account /\ Stamped /\ WithinRate /\ PatientClientAllowed
  BY <1>1, <1>2 DEF Unheld, Account, Stamped, WithinRate, PatientClientAllowed
<1> QED
  BY <1>3, <1>4 DEF IInv

LEMMA Invariance == IInv /\ [Next]_vars => IInv'
<1> SUFFICES ASSUME IInv, [Next]_vars PROVE IInv'
  OBVIOUS
<1>0. TypeOK /\ Unheld /\ Account /\ Stamped /\ now >= 1 /\ WithinRate
       /\ PatientClientAllowed
  BY DEF IInv
<1> USE <1>0
<1>1. CASE Tick
  <2>1. now' = now + 1 /\ now \in Nat
        /\ UNCHANGED <<table, asked, grants, answer>>
    BY <1>1, TableOf DEF Tick
  <2>2. 1 .. now \subseteq 1 .. now' /\ 0 .. now \subseteq 0 .. now'
    BY <2>1
  <2>3. TypeOK'
    <3>1. Buckets \subseteq Buckets'
      BY <2>2 DEF Buckets
    <3>2. table' \in [Slots -> {Free} \cup Buckets']
      BY <2>1, <3>1 DEF TypeOK, Buckets
    <3>3. asked' \in [Addresses -> 0 .. now']
      BY <2>1, <2>2 DEF TypeOK
    <3>4. grants' \in [Addresses -> Seq(1 .. now')]
      <4>1. \A times \in Seq(1 .. now) : times \in Seq(1 .. now')
        BY <2>2, SeqMonotonic
      <4> QED
        BY <2>1, <4>1 DEF TypeOK
    <3>5. /\ now' \in Nat
          /\ \A slot, other \in Slots :
               table'[slot].in_use /\ table'[other].in_use
               /\ table'[slot].client = table'[other].client => slot = other
          /\ answer' \in [allowed : BOOLEAN, gap : 0 .. TokenPeriod]
      BY <2>1 DEF TypeOK
    <3> QED
      BY <3>2, <3>3, <3>4, <3>5 DEF TypeOK, Buckets
  <2>4. Unheld'
    BY <2>1 DEF Unheld, HeldBy
  <2>5. Account'
    BY <2>1 DEF Account, Paid
  <2>6. Stamped'
    BY <2>1 DEF Stamped
  <2>7. WithinRate'
    BY <2>1 DEF WithinRate
  <2>8. PatientClientAllowed' /\ (now >= 1)'
    BY <2>1 DEF PatientClientAllowed
  <2> QED
    BY <2>3, <2>4, <2>5, <2>6, <2>7, <2>8 DEF IInv
<1>2. ASSUME NEW address \in Addresses, Request(address)
      PROVE  IInv'
  <2>1. TypeOK' /\ Unheld' /\ Account' /\ Stamped' /\ WithinRate'
    BY <1>2, RequestTypes, RequestUnheld, RequestAccount, RequestStamped, RequestRate
  <2>2. PatientClientAllowed' /\ (now >= 1)'
    <3>1. asked[address] \in 0 .. now
      BY DEF TypeOK
    <3> QED
      BY <1>2, <3>1, Recorded, Shape, LeftOf, TableOf DEF PatientClientAllowed
  <2> QED
    BY <2>1, <2>2 DEF IInv
<1>3. CASE UNCHANGED vars
  <2> USE <1>3 DEF vars
  <2>1. TypeOK'
    BY DEF TypeOK
  <2>2. Unheld'
    BY DEF Unheld, HeldBy
  <2>3. Account'
    BY DEF Account, Paid
  <2>4. Stamped'
    BY DEF Stamped
  <2>5. WithinRate'
    BY DEF WithinRate
  <2>6. PatientClientAllowed' /\ (now >= 1)'
    BY DEF PatientClientAllowed
  <2> QED
    BY <2>1, <2>2, <2>3, <2>4, <2>5, <2>6 DEF IInv
<1> QED
  BY <1>1, <1>2, <1>3 DEF Next

-------------------------------------------------------------------------------
(* The theorems. *)

LEMMA Invariant == Spec => []IInv
<1> QED
  BY Initial, Invariance, PTL DEF Spec

\* The table keeps its types, and no client ever holds two slots.
THEOREM TypeCorrect == Spec => []TypeOK
<1>1. IInv => TypeOK
  BY DEF IInv
<1> QED
  BY <1>1, Invariant, PTL

\* Between any two of its requests a client that keeps its slot is granted at
\* most a burst and the tokens of that time, whatever the size of the table,
\* the burst and the period.
THEOREM RateProof == Spec => []WithinRate
<1>1. IInv => WithinRate
  BY DEF IInv
<1> QED
  BY <1>1, Invariant, PTL

\* A client that asks at most once a token period is always answered.
THEOREM PatienceProof == Spec => []PatientClientAllowed
<1>1. IInv => PatientClientAllowed
  BY DEF IInv
<1> QED
  BY <1>1, Invariant, PTL

\* A slot is only taken from a client that asked no later than any other in
\* the table.
THEOREM SlotProof == Spec => RecentClientKeepsSlot
<1> DEFINE Kept ==
      \A slot \in Slots :
         table[slot].in_use /\ table'[slot].client # table[slot].client =>
             \A other \in Slots :
                 asked[table[slot].client] <= asked[table[other].client]
<1>1. IInv /\ [Next]_vars => [Kept]_vars
  <2> SUFFICES ASSUME IInv, [Next]_vars PROVE [Kept]_vars
    OBVIOUS
  <2>1. CASE UNCHANGED vars
    BY <2>1
  <2>2. CASE Tick
    BY <2>2 DEF Tick
  <2>3. ASSUME NEW address \in Addresses, Request(address)
        PROVE  Kept
    <3> SUFFICES ASSUME NEW slot \in Slots, table[slot].in_use,
                        table'[slot].client # table[slot].client,
                        NEW other \in Slots
                 PROVE  asked[table[slot].client] <= asked[table[other].client]
      OBVIOUS
    <3>1. slot = SlotFor(address) /\ table'[slot].client = address
      BY <2>3, Elsewhere, OwnSlot
    <3>2. HeldBy(address) = {}
      <4>1. HeldBy(address) # {} => SlotFor(address) \in HeldBy(address)
        BY SlotOf DEF IInv
      <4> QED
        BY <3>1, <4>1 DEF HeldBy
    <3>3. table[other].in_use /\ table[slot].last_seen <= table[other].last_seen
      BY <3>1, <3>2, SlotOf DEF IInv
    <3> QED
      BY <3>3 DEF IInv, Stamped
  <2> QED
    BY <2>1, <2>2, <2>3 DEF Next
<1> QED
  BY <1>1, Invariant, PTL DEF Spec, RecentClientKeepsSlot
===============================================================================
