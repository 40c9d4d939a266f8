----------------------------- MODULE ConnLedger -----------------------------
(***************************************************************************)
(* What the pools promise about connections, without mutexes, counters,    *)
(* requests or goroutines: every open connection belongs to one pool and   *)
(* is idle there, lent to one client that works for that pool, or being    *)
(* closed.  A client has at most one connection, returns it before its     *)
(* operation ends, and a connection is never closed while it is lent.      *)
(***************************************************************************)
CONSTANTS Clients, Pools, Conns, None

VARIABLES
    asks,     \* the pool each client works for, or None
    home,     \* the pool each connection belongs to, or None
    holder    \* the client it is lent to, "idle", "closing", or None

ledger == <<asks, home, holder>>

Init ==
    /\ asks = [c \in Clients |-> None]
    /\ home = [d \in Conns |-> None]
    /\ holder = [d \in Conns |-> None]

Lent(d)  == holder[d] \in Clients
Holds(c) == \E d \in Conns : holder[d] = c

\* The client may be lent a connection of pool p.
Eligible(c, p) == asks[c] = p /\ ~Holds(c)

Move(d, h) == holder' = [holder EXCEPT ![d] = h]

Begin(c, p) ==
    /\ asks[c] = None /\ asks' = [asks EXCEPT ![c] = p]
    /\ UNCHANGED <<home, holder>>

End(c) ==
    /\ asks[c] # None /\ ~Holds(c) /\ asks' = [asks EXCEPT ![c] = None]
    /\ UNCHANGED <<home, holder>>

Open(d, p) ==
    /\ home[d] = None /\ home' = [home EXCEPT ![d] = p]
    /\ Move(d, "idle") \/ \E c \in Clients : Eligible(c, p) /\ Move(d, c)
    /\ UNCHANGED asks

\* A connection is lent from the shelf, or passed on by the client that
\* returns it.
Lend(d, c) ==
    /\ holder[d] = "idle" \/ Lent(d)
    /\ Eligible(c, home[d]) /\ Move(d, c)
    /\ UNCHANGED <<asks, home>>

Return(d) == Lent(d) /\ Move(d, "idle") /\ UNCHANGED <<asks, home>>

Retire(d) ==
    /\ holder[d] = "idle" \/ Lent(d)
    /\ Move(d, "closing")
    /\ UNCHANGED <<asks, home>>

\* The cleaner retires several idle connections at once.
Expire(p) ==
    /\ \E D \in SUBSET {d \in Conns : home[d] = p /\ holder[d] = "idle"} :
          holder' = [d \in Conns |-> IF d \in D THEN "closing" ELSE holder[d]]
    /\ UNCHANGED <<asks, home>>

Close(d) ==
    /\ holder[d] = "closing" /\ Move(d, None)
    /\ home' = [home EXCEPT ![d] = None]
    /\ UNCHANGED asks

Next ==
    \/ \E c \in Clients : End(c) \/ \E p \in Pools : Begin(c, p)
    \/ \E d \in Conns : Return(d) \/ Retire(d) \/ Close(d)
    \/ \E d \in Conns, p \in Pools : Open(d, p)
    \/ \E d \in Conns, c \in Clients : Lend(d, c)
    \/ \E p \in Pools : Expire(p)

Spec == Init /\ [][Next]_ledger
=============================================================================
