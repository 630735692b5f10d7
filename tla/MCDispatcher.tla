---------------------------- MODULE MCDispatcher ----------------------------
\* Small instances of Dispatcher: which run calls which, in which repository
\* each works, and which are attempts of one task.
EXTENDS Dispatcher, TLC

CONSTANTS A, B, C, X, t1, t2, t3, t4, r1, r2

OnHolds(f) == [h \in Hold |-> f[h]]

\* Four tasks; two attempts (A and B) of one task.
FourTasks == OnHolds((A :> t1) @@ (B :> t2) @@ (C :> t3) @@ (X :> t4))
TwoAttempts == OnHolds((A :> t1) @@ (B :> t1) @@ (C :> t3) @@ (X :> t4))

\* X works in its own repository, or C does.
XElsewhere == OnHolds((A :> r1) @@ (B :> r1) @@ (C :> r1) @@ (X :> r2))
CElsewhere == OnHolds((A :> r1) @@ (B :> r1) @@ (C :> r2) @@ (X :> r1))

\* A calls X; A calls X and C, one after the other.
ACallsX == OnHolds((A :> NoHold) @@ (B :> NoHold) @@ (C :> NoHold) @@ (X :> A))
ACallsXAndC == OnHolds((A :> NoHold) @@ (B :> NoHold) @@ (C :> A) @@ (X :> A))
=============================================================================
