----------------------------- MODULE TrustLedger -----------------------------
(***************************************************************************)
(* What the trust store promises its callers: one ledger of the key that   *)
(* is pinned to each node and of the nodes that are trusted.  A change     *)
(* takes effect at one moment between its call and its return, and a query *)
(* answers from the ledger of one moment between its own; until a change   *)
(* that has taken effect returns, other operations fail, and a crash or an *)
(* error of its own then can lose the ledger for ever.                     *)
(***************************************************************************)
CONSTANTS
    Node, Fingerprint,
    Op,         \* the operations
    NoKey       \* the key of a node that has none

VARIABLES
    key,        \* the fingerprint pinned to each node
    trusted,    \* the nodes that are trusted
    lost,       \* the ledger is lost
    stage,      \* how far each operation is
    call,       \* its request
    answer      \* what a query has answered

vars == <<key, trusted, lost, stage, call, answer>>

Applied == {j \in Op : stage[j] = "applied"}

\* The operations that see the ledger see it whole.
Legible == ~lost /\ Applied = {}

Init ==
    /\ key = [n \in Node |-> NoKey]
    /\ trusted = {}
    /\ lost = FALSE
    /\ stage = [j \in Op |-> "idle"]
    /\ call = [j \in Op |-> NoKey]
    /\ answer = [j \in Op |-> FALSE]

Request(j, kind, n, fingerprint) ==
    /\ stage[j] = "idle"
    /\ stage' = [stage EXCEPT ![j] = "called"]
    /\ call' = [call EXCEPT ![j] =
                  [kind |-> kind, node |-> n, fingerprint |-> fingerprint]]
    /\ UNCHANGED <<key, trusted, lost, answer>>

IsCalled(j, kind) == stage[j] = "called" /\ call[j].kind = kind

End(j, result) == stage' = [stage EXCEPT ![j] = result]

(***************************************************************************)
(* Trust on first use: the first key is pinned, another one is refused.    *)
(***************************************************************************)
Approve(j) ==
    LET n == call[j].node IN
    /\ IsCalled(j, "trust") /\ Legible
    /\ key[n] \in {NoKey, call[j].fingerprint}
    /\ key' = [key EXCEPT ![n] = call[j].fingerprint]
    /\ trusted' = trusted \cup {n}
    /\ End(j, "applied")
    /\ UNCHANGED <<lost, call, answer>>

RefuseKey(j) ==
    /\ IsCalled(j, "trust") /\ Legible
    /\ key[call[j].node] \notin {NoKey, call[j].fingerprint}
    /\ End(j, "mitm")
    /\ UNCHANGED <<key, trusted, lost, call, answer>>

Revoke(j) ==
    LET n == call[j].node IN
    /\ IsCalled(j, "revoke") /\ Legible
    /\ key[n] # NoKey
    /\ trusted' = trusted \ {n}
    /\ End(j, "applied")
    /\ UNCHANGED <<key, lost, call, answer>>

FindNothing(j) ==
    /\ IsCalled(j, "revoke") /\ Legible
    /\ key[call[j].node] = NoKey
    /\ End(j, "notFound")
    /\ UNCHANGED <<key, trusted, lost, call, answer>>

Answer(j) ==
    /\ IsCalled(j, "query") /\ Legible
    /\ answer' = [answer EXCEPT ![j] = call[j].node \in trusted]
    /\ End(j, "ok")
    /\ UNCHANGED <<key, trusted, lost, call>>

Fail(j) ==
    /\ stage[j] = "called"
    /\ ~Legible
    /\ End(j, "parseError")
    /\ UNCHANGED <<key, trusted, lost, call, answer>>

Return(j) ==
    /\ stage[j] = "applied"
    /\ End(j, "ok")
    /\ UNCHANGED <<key, trusted, lost, call, answer>>

(***************************************************************************)
(* An error before the change has taken effect: nothing is changed.        *)
(***************************************************************************)
Break(j) ==
    /\ stage[j] = "called"
    /\ End(j, "ioError")
    /\ UNCHANGED <<key, trusted, lost, call, answer>>

Lose ==
    /\ key' = [n \in Node |-> NoKey]
    /\ trusted' = {}
    /\ lost' = TRUE

(***************************************************************************)
(* An error after it has: the change stands, although the call is          *)
(* rejected, or everything is lost.  What was before does not come back.   *)
(***************************************************************************)
Abort(j) ==
    /\ stage[j] = "applied"
    /\ End(j, "ioError")
    /\ UNCHANGED <<key, trusted, lost>> \/ Lose
    /\ UNCHANGED <<call, answer>>

(***************************************************************************)
(* A crash between two operations loses nothing.                           *)
(***************************************************************************)
Crash ==
    /\ stage' = [j \in Op |-> IF stage[j] \in {"called", "applied"}
                              THEN "crashed" ELSE stage[j]]
    /\ IF Applied = {} THEN UNCHANGED <<key, trusted, lost>> ELSE Lose
    /\ UNCHANGED <<call, answer>>

Step(j) ==
    \/ Approve(j) \/ RefuseKey(j)
    \/ Revoke(j) \/ FindNothing(j)
    \/ Answer(j) \/ Fail(j) \/ Return(j)
    \/ Break(j) \/ Abort(j)

Next ==
    \/ \E j \in Op : Step(j)
    \/ \E j \in Op, n \in Node, fp \in Fingerprint : Request(j, "trust", n, fp)
    \/ \E j \in Op, n \in Node, kind \in {"revoke", "query"} : Request(j, kind, n, NoKey)
    \/ Crash

Spec == Init /\ [][Next]_vars
=============================================================================
