---------------------------- MODULE StorePromise ----------------------------
(***************************************************************************)
(* What the shared cache promises the runs that use it, whatever the files *)
(* and locks it is made of: one writer to a repository at a time, nothing  *)
(* added but by that writer, a checkout only where its mirror is, nothing  *)
(* ever taken away, and no run reading what is not there for good.         *)
(***************************************************************************)
CONSTANTS Runs, Nobody, Repos, Commits

VARIABLES
    writer,      \* who may write to each repository
    mirrored,    \* the repositories there is a mirror of
    published,   \* the checkouts any run may read
    reading      \* the checkouts each run goes by

pvars == <<writer, mirrored, published, reading>>

Init ==
    /\ writer = [k \in Repos |-> Nobody]
    /\ mirrored = {}
    /\ published = {}
    /\ reading = [r \in Runs |-> {}]

Enter(r, k) ==
    /\ writer[k] = Nobody
    /\ writer' = [writer EXCEPT ![k] = r]
    /\ UNCHANGED <<mirrored, published, reading>>

Mirror(r, k) ==
    /\ writer[k] = r
    /\ mirrored' = mirrored \union {k}
    /\ UNCHANGED <<writer, published, reading>>

Publish(r, k, c) ==
    /\ writer[k] = r
    /\ k \in mirrored
    /\ published' = published \union {<<k, c>>}
    /\ UNCHANGED <<writer, mirrored, reading>>

\* The writer leaves with the checkout in hand.
Take(r, k, c) ==
    /\ writer[k] = r
    /\ <<k, c>> \in published
    /\ writer' = [writer EXCEPT ![k] = Nobody]
    /\ reading' = [reading EXCEPT ![r] = @ \union {<<k, c>>}]
    /\ UNCHANGED <<mirrored, published>>

\* A run lets go some or all of what it writes to.
Leave(r, K) ==
    /\ writer' = [k \in Repos |-> IF k \in K /\ writer[k] = r THEN Nobody ELSE writer[k]]
    /\ UNCHANGED <<mirrored, published, reading>>

\* A run dies.
Die(r) ==
    /\ writer' = [k \in Repos |-> IF writer[k] = r THEN Nobody ELSE writer[k]]
    /\ reading' = [reading EXCEPT ![r] = {}]
    /\ UNCHANGED <<mirrored, published>>

Next ==
    \E r \in Runs :
        \/ \E k \in Repos :
            \/ Enter(r, k)
            \/ Mirror(r, k)
            \/ \E c \in Commits : Publish(r, k, c) \/ Take(r, k, c)
        \/ \E K \in SUBSET Repos : Leave(r, K)
        \/ Die(r)

Spec == Init /\ [][Next]_pvars
=============================================================================
