------------------------------ MODULE Credential ------------------------------
(***************************************************************************)
(* What the certificate storage promises to whoever uses the production    *)
(* credential (acme_client.h: "Successful finalization stores the new      *)
(* credential atomically"; README: "dual-slot atomic certificate           *)
(* storage").  There is one current credential.  A replacement takes       *)
(* effect in one step, and only towards a newer credential; nothing - no   *)
(* failed write, no loss of power - ever leaves the device without one.    *)
(* The only steps back are taken while replacements contend: one of those  *)
(* in progress has met another.                                            *)
(***************************************************************************)
EXTENDS Naturals

CONSTANT MaxCerts       \* bound of the model: credentials are 1 .. MaxCerts

VARIABLES
    current,    \* the credential users see, 0 if there is none
    phase       \* of the replacements

Phases == {"quiet", "replacing", "contended"}

Init ==
    /\ current \in 0 .. 1
    /\ phase = "quiet"

\* Replacements start, fail, end, or are lost with the power.
Progress ==
    /\ phase' \in Phases
    /\ UNCHANGED current

\* The one visible step of a replacement; it may be its last.
Install ==
    /\ phase # "quiet"
    /\ phase' \in Phases
    /\ current' \in (current + 1) .. MaxCerts

\* A later replacement overwrites what the one it met installed.
Withdraw ==
    /\ phase = "contended"
    /\ phase' \in Phases
    /\ current' \in 1 .. (current - 1)

Next == Progress \/ Install \/ Withdraw

vars == <<current, phase>>

Spec == Init /\ [][Next]_vars

===============================================================================
