---------------------------- MODULE RetryLedger ----------------------------
(***************************************************************************)
(* What the audit table promises an operator about automatic retries: it   *)
(* is a write-ahead ledger.  A retry is claimed before it is sent, a claim *)
(* is never withdrawn, and retries are claimed in order without gaps.      *)
(***************************************************************************)
EXTENDS Integers

CONSTANT MaxRetries

VARIABLES claims,    \* the numbers of the retries claimed so far
          sends      \* sends[n]: how often retry n was handed to the broker

ledger == <<claims, sends>>

Retries == 1 .. MaxRetries

\* A claim closes no gap and opens none: every smaller number is claimed.
Claim(n) ==
    /\ \A m \in Retries : m < n => m \in claims
    /\ claims' = claims \cup {n}
    /\ UNCHANGED sends

Send(n) ==
    /\ n \in claims
    /\ sends' = [sends EXCEPT ![n] = @ + 1]
    /\ UNCHANGED claims

Init == claims = {} /\ sends = [n \in Retries |-> 0]

Next == \E n \in Retries : Claim(n) \/ Send(n)

Spec == Init /\ [][Next]_ledger
=============================================================================
