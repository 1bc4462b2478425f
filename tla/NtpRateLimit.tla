------------------------------ MODULE NtpRateLimit ------------------------------
(***************************************************************************)
(* The token buckets of src/main/ntp_rate_limit.c.  The server task calls  *)
(* ntp_rate_limit_allow once per valid request; a client has a slot in a   *)
(* table of fixed size, refilled from the time of its last refill, and the *)
(* slot seen least recently is taken over when the table is full.  Only    *)
(* the server task uses it, so a call is one step.                         *)
(***************************************************************************)
EXTENDS Integers, Sequences

CONSTANTS
    Addresses,    \* client IPv4 addresses
    TableSize,    \* APP_NTP_MAX_CLIENTS
    Burst,        \* APP_NTP_RATE_BURST
    TokenPeriod,  \* 60 s / APP_NTP_RATE_PER_MINUTE, in ticks
    MaxTime       \* bound of the model: the last tick considered

ASSUME RateAssumption ==
    /\ {TableSize, Burst, TokenPeriod} \subseteq Nat \ {0}
    /\ MaxTime \in Nat

VARIABLES
    now,     \* esp_timer_get_time
    table,   \* s_clients
    asked,   \* history: tick of the last request of each address
    grants,  \* history: ticks of the requests allowed since the address got its slot
    answer   \* history: the last verdict, and the time since that client's
             \* request before, at most TokenPeriod

vars == <<now, table, asked, grants, answer>>

Slots == 1 .. TableSize

Free == [in_use |-> FALSE]

Init ==
    /\ now = TokenPeriod
    /\ table = [slot \in Slots |-> Free]
    /\ asked = [address \in Addresses |-> 0]
    /\ grants = [address \in Addresses |-> <<>>]
    /\ answer = [allowed |-> TRUE, gap |-> TokenPeriod]

Tick ==
    /\ now < MaxTime
    /\ now' = now + 1
    /\ UNCHANGED <<table, asked, grants, answer>>

-------------------------------------------------------------------------------
HeldBy(address) ==
    {slot \in Slots : table[slot].in_use /\ table[slot].client = address}

FreeSlots == {slot \in Slots : ~table[slot].in_use}

First(slots) == CHOOSE slot \in slots : \A other \in slots : slot <= other

\* Faulty variant: the slot refilled, not the one seen, longest ago is taken.
LeastRecentlyRefilled ==
    First({slot \in Slots :
        \A other \in Slots : table[slot].last_refill <= table[other].last_refill})

LeastRecentlySeen ==
    First({slot \in Slots :
        \A other \in Slots : table[slot].last_seen <= table[other].last_seen})

\* find_or_allocate_client
SlotFor(address) ==
    IF HeldBy(address) # {} THEN First(HeldBy(address))
    ELSE IF FreeSlots # {} THEN First(FreeSlots)
    ELSE LeastRecentlySeen

\* Faulty variant: the tokens of a new client are left at zero.
NewBucketEmpty(address) ==
    [in_use |-> TRUE, client |-> address, tokens |-> 0,
     last_refill |-> now, last_seen |-> now]

NewBucket(address) ==
    [in_use |-> TRUE, client |-> address, tokens |-> Burst,
     last_refill |-> now, last_seen |-> now]

Bucket(address) ==
    IF HeldBy(address) # {} THEN table[SlotFor(address)] ELSE NewBucket(address)

\* Faulty variant: tokens accumulate without limit.
Uncapped(tokens) == tokens

Capped(tokens) == IF tokens > Burst THEN Burst ELSE tokens

\* Faulty variant: the tokens of the elapsed time are added at every request.
RefillAgain(bucket) ==
    [bucket EXCEPT
        !.tokens = Capped(@ + (now - bucket.last_refill) \div TokenPeriod)]

\* refill_client: whole tokens only, and then the time restarts from now.
Refill(bucket) ==
    LET due == (now - bucket.last_refill) \div TokenPeriod
    IN  IF due = 0 THEN bucket
        ELSE [bucket EXCEPT !.tokens = Capped(@ + due), !.last_refill = now]

\* ntp_rate_limit_allow
Request(address) ==
    LET slot    == SlotFor(address)
        evicted == IF table[slot].in_use THEN {table[slot].client} \ {address}
                   ELSE {}
        bucket  == Refill(Bucket(address))
        allowed == bucket.tokens > 0
        spent   == IF allowed THEN 1 ELSE 0
        gap     == now - asked[address]
    IN  /\ table' = [table EXCEPT ![slot] =
                        [bucket EXCEPT !.tokens = @ - spent, !.last_seen = now]]
        /\ grants' = [other \in Addresses |->
                        (IF other \in evicted THEN <<>> ELSE grants[other])
                          \o (IF other = address /\ allowed THEN <<now>> ELSE <<>>)]
        /\ asked' = [asked EXCEPT ![address] = now]
        /\ answer' = [allowed |-> allowed,
                      gap |-> IF gap > TokenPeriod THEN TokenPeriod ELSE gap]
        /\ UNCHANGED now

Next ==
    \/ Tick
    \/ \E address \in Addresses : Request(address)

Spec == Init /\ [][Next]_vars

-------------------------------------------------------------------------------
(* Properties. *)

\* Type correctness of the table; no address holds two slots.
TypeOK ==
    /\ now \in Nat
    /\ table \in [Slots -> {Free} \cup
                     [in_use : {TRUE}, client : Addresses, tokens : 0 .. Burst,
                      last_refill : 1 .. now, last_seen : 1 .. now]]
    /\ \A slot, other \in Slots :
         table[slot].in_use /\ table[other].in_use
         /\ table[slot].client = table[other].client => slot = other
    /\ asked \in [Addresses -> 0 .. now]
    /\ grants \in [Addresses -> Seq(1 .. now)]
    /\ answer \in [allowed : BOOLEAN, gap : 0 .. TokenPeriod]

\* From any request allowed to any later one, a client that keeps its slot gets
\* no more than one burst and the tokens of the time between, counting the one
\* under way: remainders, idle times and repeated calls never add up to more.
WithinRate ==
    \A slot \in Slots : table[slot].in_use =>
        LET times == grants[table[slot].client]
        IN  \A i \in 1 .. Len(times) : \A j \in i .. Len(times) :
              j - i + 1 <= Burst + (times[j] - times[i] + TokenPeriod - 1)
                                     \div TokenPeriod

\* A client that leaves the token period between its requests is never refused,
\* although a refill drops the fraction of a token already earned and a crowd
\* of others may take its slot.
PatientClientAllowed == answer.gap = TokenPeriod => answer.allowed

\* Taking over a slot costs its client nothing it had: a client seen more
\* recently than another one in the table keeps its slot.
RecentClientKeepsSlot ==
    [][\A slot \in Slots :
         table[slot].in_use /\ table'[slot].client # table[slot].client =>
             \A other \in Slots :
                 asked[table[slot].client] <= asked[table[other].client]]_vars
===============================================================================
