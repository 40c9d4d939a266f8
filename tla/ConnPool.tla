------------------------------ MODULE ConnPool ------------------------------
(***************************************************************************)
(* The connection pools of package cpool under one global limit: a         *)
(* ConnPoolFacade with its counters, its LRU list of idle connections and  *)
(* its opener goroutine; one ConnPool per credentials with its idle        *)
(* connections, its pending requests and its cleaner goroutine; and the    *)
(* client goroutines that borrow and return connections.                   *)
(*                                                                         *)
(* Grain.  A critical section under one mutex that takes no other mutex is *)
(* one action, guarded by that mutex being free.  A section that takes a   *)
(* second mutex is split at every acquisition, and the first mutex stays   *)
(* held between the steps: facadeLock is connPoolFacade.mu and poolLock[p] *)
(* is connPool.mu.  Code that runs outside every mutex is split wherever   *)
(* another goroutine can observe the difference.                           *)
(*                                                                         *)
(* A panic, and a fatal error of the runtime, end the process: they set    *)
(* crash and no action is enabled afterwards.                              *)
(***************************************************************************)
EXTENDS Integers, Sequences, FiniteSets, SequencesExt

CONSTANTS
    Clients,     \* client goroutines
    Pools,       \* pools of the facade; a pool's name also names its cleaner
    Conns,       \* identities for driverConn objects, reused once closed
    Opener,      \* the facade's opener goroutine
    None,        \* no connection, no pool, no answer, an unlocked mutex
    Refused,     \* the answer that carries an error instead of a connection
    Limit,       \* connPoolFacade.totalMax
    OpenerCap,   \* capacity of openerChannel (1000 in the code)
    MaxWaits,    \* bound: no new operation starts once waitCount reaches it
    Faults       \* which of AllFaults the environment may produce

AllFaults == {"refuse",  \* Connect returns an error
              "break",   \* a connection dies while a client uses it
              "expire",  \* idle connections outlive maxIdleTime
              "close"}   \* ConnPoolFacade.Close is called

ASSUME ProcsAssumption ==
    /\ Opener \notin Clients \cup Pools
    /\ Clients \cap Pools = {}
    /\ None \notin Clients \cup Pools \cup Conns \cup {Opener, Refused}
    /\ Refused \notin Conns
\* The words of ConnLedger for where a connection is are not names of clients.
ASSUME LedgerAssumption == {"idle", "closing"} \cap Clients = {}
ASSUME FiniteAssumption == IsFiniteSet(Clients) /\ IsFiniteSet(Pools)
ASSUME BoundAssumption ==
    /\ Limit \in Nat \ {0}
    /\ OpenerCap \in Nat \ {0}
    /\ MaxWaits \in Nat
    /\ Faults \subseteq AllFaults

Procs == Clients \cup Pools \cup {Opener}

\* Attempts that may use an idle connection; after as many ErrBadConn the last
\* attempt uses the strategy alwaysNewConn.
maxBadConnRetries == 2

VARIABLES
    pc,            \* where each goroutine is
    pool,          \* the pool it works for
    hand,          \* the driverConn it holds
    attempt,       \* clients: attempts ended by ErrBadConn, 3 once it is over
    cancellable,   \* clients: the operation runs under the facade's context
    closing,       \* cleaners: expired connections still to close
    route,         \* pools still to visit by an iteration over the pool map
    tally,         \* locals of the running maybeOpenNewConnections
    facadeLock,    \* holder of connPoolFacade.mu, or None
    poolLock,      \* holder of each connPool.mu, or None
    numOpened, waitCount, closed, cancelled, openerChannel, lruCache,
    connRequests,  \* clients with a pending request, per pool
    response,      \* content of each client's responseChan
    freeConn,      \* idle connections, per pool
    inUse,         \* driverConn.inUse
    owner,         \* driverConn.connPool, None for an unused identity
    broken,        \* the mysql connection under the driverConn is closed
    crash          \* "none", or the panic that ended the process

control == <<pc, pool, hand>>
request == <<attempt, cancellable>>
sweep   == <<closing, route, tally>>
locks   == <<facadeLock, poolLock>>
facade  == <<numOpened, waitCount, openerChannel>>
context == <<closed, cancelled>>
waiters == <<connRequests, response>>
idle    == <<freeConn, lruCache>>
conns   == <<inUse, owner, broken>>
vars    == <<control, request, sweep, locks, facade, context, waiters, idle,
             conns, crash>>

NoTally == [quota |-> 0, commands |-> << >>, victim |-> None]

Init ==
    /\ pc = [x \in Procs |-> CASE x \in Clients -> "idle"
                               [] x \in Pools   -> "sleep"
                               [] x = Opener    -> "listen"]
    /\ pool = [x \in Procs |-> IF x \in Pools THEN x ELSE None]
    /\ hand = [x \in Procs |-> None]
    /\ attempt = [c \in Clients |-> 0]
    /\ cancellable = [c \in Clients |-> FALSE]
    /\ closing = [p \in Pools |-> {}]
    /\ route = [x \in Procs |-> << >>]
    /\ tally = NoTally
    /\ facadeLock = None /\ poolLock = [p \in Pools |-> None]
    /\ numOpened = 0 /\ waitCount = 0 /\ openerChannel = << >>
    /\ closed = FALSE /\ cancelled = FALSE
    /\ connRequests = [p \in Pools |-> {}]
    /\ response = [c \in Clients |-> None]
    /\ freeConn = [p \in Pools |-> {}] /\ lruCache = << >>
    /\ inUse = [d \in Conns |-> FALSE]
    /\ owner = [d \in Conns |-> None]
    /\ broken = [d \in Conns |-> FALSE]
    /\ crash = "none"

At(x, label)   == crash = "none" /\ pc[x] = label
Goto(x, label) == pc' = [pc EXCEPT ![x] = label]

\* The list s without d, which occurs in it at most once.
Without(s, d) ==
    IF Contains(s, d) THEN RemoveAt(s, CHOOSE i \in 1..Len(s) : s[i] = d) ELSE s

FacadeFree  == facadeLock = None
PoolFree(p) == poolLock[p] = None

\* The operation's context is done: the facade's context for Exec, Query and
\* QueryRow, context.Background() for BeginTx.
Done(c) == cancelled /\ cancellable[c]

\* driver.ErrBadConn ends the attempt; any other error, and success, ends the
\* operation.
BadConn(c) == attempt' = [attempt EXCEPT ![c] = @ + 1]
LastTry(c) == attempt' = [attempt EXCEPT ![c] = maxBadConnRetries + 1]

\* Mutation: the last attempt is repeated.
NextAttemptOffByOne(n) == IF n > maxBadConnRetries + 1 THEN "return" ELSE "conn"

\* Where the operation goes on, given the number of attempts that ended.
NextAttempt(n) == IF n > maxBadConnRetries THEN "return" ELSE "conn"

-----------------------------------------------------------------------------
(* conn(): borrowing a connection. *)

\* Exec, Query, QueryRow (cancellable) and BeginTx up to the call of conn().
StartOperation(c) ==
    /\ At(c, "idle") /\ ~closed /\ waitCount < MaxWaits
    /\ \E p \in Pools, b \in BOOLEAN :
          /\ pool' = [pool EXCEPT ![c] = p]
          /\ cancellable' = [cancellable EXCEPT ![c] = b]
    /\ Goto(c, "conn")
    /\ UNCHANGED <<attempt, hand, sweep, locks, facade, context, waiters, idle,
                   conns, crash>>

\* The operation returns to its caller.
EndOperation(c) ==
    /\ At(c, "return")
    /\ pool' = [pool EXCEPT ![c] = None]
    /\ cancellable' = [cancellable EXCEPT ![c] = FALSE]
    /\ attempt' = [attempt EXCEPT ![c] = 0]
    /\ Goto(c, "idle")
    /\ UNCHANGED <<hand, sweep, locks, facade, context, waiters, idle, conns,
                   crash>>

\* The context was done before anything happened.
ConnExpiredContext(c) ==
    /\ At(c, "conn") /\ PoolFree(pool[c]) /\ Done(c)
    /\ Goto(c, "return")
    /\ UNCHANGED <<pool, hand, request, sweep, locks, facade, context,
                   waiters, idle, conns, crash>>

\* A client that has d in hand runs resetSession, which fails on a dead
\* connection: conn() then closes d and returns ErrBadConn.
ResetSession(c, d) ==
    IF broken[d] THEN Goto(c, "close") /\ BadConn(c)
                 ELSE Goto(c, "using") /\ UNCHANGED attempt

\* The strategy is cachedOrNewConn and some connection is idle.  The
\* connection leaves freeConn; it stays in the LRU list.
TakeFreeConn(c) ==
    /\ At(c, "conn") /\ PoolFree(pool[c]) /\ ~Done(c)
    /\ attempt[c] < maxBadConnRetries
    /\ \E d \in freeConn[pool[c]] :
          /\ freeConn' = [freeConn EXCEPT ![pool[c]] = @ \ {d}]
          /\ inUse' = [inUse EXCEPT ![d] = TRUE]
          /\ hand' = [hand EXCEPT ![c] = d]
          /\ ResetSession(c, d)
    /\ UNCHANGED <<pool, cancellable, sweep, locks, facade, context, waiters,
                   lruCache, owner, broken, crash>>

NoFreeConn(c) ==
    /\ At(c, "conn") /\ PoolFree(pool[c]) /\ ~Done(c)
    /\ attempt[c] = maxBadConnRetries \/ freeConn[pool[c]] = {}
    /\ Goto(c, "check")
    /\ UNCHANGED <<pool, hand, request, sweep, locks, facade, context,
                   waiters, idle, conns, crash>>

\* Mutations: the comparison is off by one, either way.
CheckLimitInclusive(c) ==
    /\ At(c, "check") /\ FacadeFree
    /\ Goto(c, IF numOpened <= Limit THEN "claim" ELSE "register")
    /\ UNCHANGED <<pool, hand, request, sweep, locks, facade, context,
                   waiters, idle, conns, crash>>
CheckLimitBelow(c) ==
    /\ At(c, "check") /\ FacadeFree
    /\ Goto(c, IF numOpened < Limit - 1 THEN "claim" ELSE "register")
    /\ UNCHANGED <<pool, hand, request, sweep, locks, facade, context,
                   waiters, idle, conns, crash>>

\* canAddNewConn reads the counter in a section of its own.
CheckLimit(c) ==
    /\ At(c, "check") /\ FacadeFree
    /\ Goto(c, IF numOpened < Limit THEN "claim" ELSE "register")
    /\ UNCHANGED <<pool, hand, request, sweep, locks, facade, context,
                   waiters, idle, conns, crash>>

\* Mutation: the slot is counted twice.
ClaimSlotTwice(c) ==
    /\ At(c, "claim") /\ FacadeFree
    /\ numOpened' = numOpened + 2
    /\ Goto(c, "connect")
    /\ UNCHANGED <<pool, hand, request, sweep, locks, waitCount,
                   openerChannel, context, waiters, idle, conns, crash>>

\* incrementNumOpened, in the next section.
ClaimSlot(c) ==
    /\ At(c, "claim") /\ FacadeFree
    /\ numOpened' = numOpened + 1
    /\ Goto(c, "connect")
    /\ UNCHANGED <<pool, hand, request, sweep, locks, waitCount,
                   openerChannel, context, waiters, idle, conns, crash>>

\* connector.Connect succeeds and a driverConn is made, in use from the start.
Connect(c) ==
    /\ At(c, "connect") /\ PoolFree(pool[c])
    /\ \E d \in Conns :
          /\ owner[d] = None
          /\ owner' = [owner EXCEPT ![d] = pool[c]]
          /\ inUse' = [inUse EXCEPT ![d] = TRUE]
          /\ hand' = [hand EXCEPT ![c] = d]
    /\ Goto(c, "using")
    /\ UNCHANGED <<pool, request, sweep, locks, facade, context, waiters,
                   idle, broken, crash>>

\* Connect fails; its error may be ErrBadConn (a failed handshake).
ConnectFails(c) ==
    /\ At(c, "connect") /\ ("refuse" \in Faults \/ Done(c))
    /\ BadConn(c) \/ LastTry(c)
    /\ Goto(c, "unclaim")
    /\ UNCHANGED <<pool, hand, cancellable, sweep, locks, facade, context,
                   waiters, idle, conns, crash>>

\* Mutation: the slot of a failed Connect stays taken.
UnclaimSlotForgotten(c) ==
    /\ At(c, "unclaim") /\ FacadeFree
    /\ Goto(c, "maybeOpen")
    /\ UNCHANGED <<pool, hand, request, sweep, locks, facade, context,
                   waiters, idle, conns, crash>>

\* decrementNumOpened; maybeOpenNewConnections comes next.
UnclaimSlot(c) ==
    /\ At(c, "unclaim") /\ FacadeFree
    /\ numOpened' = numOpened - 1
    /\ Goto(c, "maybeOpen")
    /\ UNCHANGED <<pool, hand, request, sweep, locks, waitCount,
                   openerChannel, context, waiters, idle, conns, crash>>

RegisterRequest(c) ==
    /\ At(c, "register") /\ PoolFree(pool[c])
    /\ connRequests' = [connRequests EXCEPT ![pool[c]] = @ \cup {c}]
    /\ Goto(c, "count")
    /\ UNCHANGED <<pool, hand, request, sweep, locks, facade, context,
                   response, idle, conns, crash>>

\* Mutation: the request is not counted.
CountRequestForgotten(c) ==
    /\ At(c, "count") /\ FacadeFree
    /\ Goto(c, "wait")
    /\ UNCHANGED <<pool, hand, request, sweep, locks, facade, context,
                   waiters, idle, conns, crash>>

\* waitCount++; no code ever decrements it.
CountRequest(c) ==
    /\ At(c, "count") /\ FacadeFree
    /\ waitCount' = waitCount + 1
    /\ Goto(c, "wait")
    /\ UNCHANGED <<pool, hand, request, sweep, locks, numOpened,
                   openerChannel, context, waiters, idle, conns, crash>>

ReceiveConn(c) ==
    /\ At(c, "wait") /\ response[c] \in Conns
    /\ hand' = [hand EXCEPT ![c] = response[c]]
    /\ response' = [response EXCEPT ![c] = None]
    /\ ResetSession(c, response[c])
    /\ UNCHANGED <<pool, cancellable, sweep, locks, facade, context,
                   connRequests, idle, conns, crash>>

\* The opener's Connect failed; the error may be ErrBadConn.
ReceiveError(c) ==
    /\ At(c, "wait") /\ response[c] = Refused
    /\ response' = [response EXCEPT ![c] = None]
    /\ BadConn(c) \/ LastTry(c)
    /\ Goto(c, NextAttempt(attempt'[c]))
    /\ UNCHANGED <<pool, hand, cancellable, sweep, locks, facade, context,
                   connRequests, idle, conns, crash>>


\* select takes the ctx.Done() branch.
GiveUp(c) ==
    /\ At(c, "wait") /\ Done(c)
    /\ Goto(c, "withdraw")
    /\ UNCHANGED <<pool, hand, request, sweep, locks, facade, context,
                   waiters, idle, conns, crash>>

\* The request is removed; an answer that won the race is drained, and the
\* connection in it goes back through putConn.
Withdraw(c) ==
    /\ At(c, "withdraw") /\ PoolFree(pool[c])
    /\ connRequests' = [connRequests EXCEPT ![pool[c]] = @ \ {c}]
    /\ response' = [response EXCEPT ![c] = None]
    /\ IF response[c] \in Conns
       THEN hand' = [hand EXCEPT ![c] = response[c]] /\ Goto(c, "giveBack")
       ELSE Goto(c, "return") /\ UNCHANGED hand
    /\ UNCHANGED <<pool, request, sweep, locks, facade, context, idle,
                   conns, crash>>

-----------------------------------------------------------------------------
(* putConn(): giving a connection back, with p's mutex held. *)

\* Mutations: the answered request stays registered; a request of any pool is
\* answered.
AnswerRequestTwice(p, answer) ==
    \E c \in connRequests[p] :
       /\ response' = [response EXCEPT ![c] = answer]
       /\ UNCHANGED connRequests
AnswerAnyPool(p, answer) ==
    \E q \in Pools : \E c \in connRequests[q] :
       /\ connRequests' = [connRequests EXCEPT ![q] = @ \ {c}]
       /\ response' = [response EXCEPT ![c] = answer]

\* returnConnectionOnRequestLocked: some pending request, in the arbitrary
\* order of a map, is answered.
AnswerRequest(p, answer) ==
    \E c \in connRequests[p] :
       /\ connRequests' = [connRequests EXCEPT ![p] = @ \ {c}]
       /\ response' = [response EXCEPT ![c] = answer]

\* Mutation: the connection is not added.
PutConnToLruForgotten(d) == UNCHANGED <<lruCache, crash>>

\* lruCache.Add moves d to the newest end; when a new element exceeds the
\* capacity the oldest is evicted, which putConnToLru answers with a panic.
PutConnToLru(d) ==
    LET added == Append(Without(lruCache, d), d)
    IN  IF Len(added) > Limit
        THEN lruCache' = Tail(added) /\ crash' = "lru evicted"
        ELSE lruCache' = added /\ UNCHANGED crash

\* Mutation: the connection passed on is not marked as in use.
HandOverUnmarked(p, d) ==
    /\ AnswerRequest(p, d)
    /\ inUse' = [inUse EXCEPT ![d] = FALSE]
    /\ UNCHANGED <<idle, crash>>

HandOver(p, d) ==
    /\ AnswerRequest(p, d)
    /\ inUse' = [inUse EXCEPT ![d] = TRUE]
    /\ UNCHANGED <<idle, crash>>

\* tryToSaveConnectionAsIdleLocked.
SaveAsIdle(p, d) ==
    /\ inUse' = [inUse EXCEPT ![d] = FALSE]
    /\ freeConn' = [freeConn EXCEPT ![p] = @ \cup {d}]
    /\ PutConnToLru(d)
    /\ UNCHANGED waiters


\* putConnectionConnPoolLocked for a good connection: to a pending request if
\* there is one, else to the idle connections.
PutConnection(p, d) ==
    IF connRequests[p] # {} THEN HandOver(p, d) ELSE SaveAsIdle(p, d)

\* releaseConn with an error other than ErrBadConn, or none.  The connection
\* may have died under the client (ErrInvalidConn), or the driver's watcher
\* closed it when the context was done: it goes back all the same.
\* A drained answer goes back the same way.
PutConn(c) ==
    /\ pc[c] \in {"using", "giveBack"} /\ crash = "none" /\ PoolFree(pool[c])
    /\ IF pc[c] = "using" /\ ("break" \in Faults \/ Done(c))
       THEN \E b \in BOOLEAN : broken' = [broken EXCEPT ![hand[c]] = b]
       ELSE UNCHANGED broken
    /\ PutConnection(pool[c], hand[c])
    /\ hand' = [hand EXCEPT ![c] = None]
    /\ Goto(c, "return")
    /\ UNCHANGED <<pool, request, sweep, locks, facade, context, owner>>

\* releaseConn(ErrBadConn).  While Exec, Query or BeginTx runs the error leads
\* to another attempt; at the end of a transaction or of rows it does not.
\* maybeOpenNewConnections is called with the pool's mutex held.
PutBadConn(c) ==
    /\ At(c, "using") /\ PoolFree(pool[c]) /\ "break" \in Faults
    /\ broken' = [broken EXCEPT ![hand[c]] = TRUE]
    /\ inUse' = [inUse EXCEPT ![hand[c]] = FALSE]
    /\ poolLock' = [poolLock EXCEPT ![pool[c]] = c]
    /\ BadConn(c) \/ LastTry(c)
    /\ Goto(c, "maybeOpen")
    /\ UNCHANGED <<pool, hand, cancellable, sweep, facadeLock, facade, context,
                   waiters, idle, owner, crash>>

\* Back in putConn, which unlocks the pool and closes the connection.
UnlockAndClose(c) ==
    /\ At(c, "discard")
    /\ poolLock' = [poolLock EXCEPT ![pool[c]] = None]
    /\ crash' = IF PoolFree(pool[c]) THEN "unlock of unlocked mutex" ELSE crash
    /\ Goto(c, "close")
    /\ UNCHANGED <<pool, hand, request, sweep, facadeLock, facade,
                   context, waiters, idle, conns>>

-----------------------------------------------------------------------------
(* driverConn.Close(), called by a client or by a cleaner. *)

\* removeConnFromLru comes first, and panics unless the LRU list has hand[x].
CloseConn(x) ==
    /\ At(x, "close")
    /\ IF Contains(lruCache, hand[x])
       THEN lruCache' = Without(lruCache, hand[x]) /\ UNCHANGED crash
       ELSE crash' = "lru does not contain connection" /\ UNCHANGED lruCache
    /\ Goto(x, "removeDep")
    /\ UNCHANGED <<pool, hand, request, sweep, locks, facade, context,
                   waiters, freeConn, conns>>

\* removeDepLocked under the pool's mutex; finalClose comes next.
RemoveDep(x) ==
    /\ At(x, "removeDep") /\ PoolFree(pool[x])
    /\ Goto(x, "finalClose")
    /\ UNCHANGED <<pool, hand, request, sweep, locks, facade, context,
                   waiters, idle, conns, crash>>

\* finalClose closes the driver's connection and decrements numOpened;
\* maybeOpenNewConnections comes next.  The identity is free for reuse.
FinalClose(x) ==
    /\ At(x, "finalClose") /\ FacadeFree
    /\ numOpened' = numOpened - 1
    /\ owner' = [owner EXCEPT ![hand[x]] = None]
    /\ inUse' = [inUse EXCEPT ![hand[x]] = FALSE]
    /\ broken' = [broken EXCEPT ![hand[x]] = FALSE]
    /\ hand' = [hand EXCEPT ![x] = None]
    /\ Goto(x, "maybeOpen")
    /\ UNCHANGED <<pool, request, sweep, locks, waitCount,
                   openerChannel, context, waiters, idle, crash>>

-----------------------------------------------------------------------------
(* maybeOpenNewConnections(), with connPoolFacade.mu held to its end. *)

\* Where the caller resumes: putConn still has its connection to discard.
Resume(x) ==
    CASE x \in Clients -> IF hand[x] # None THEN "discard"
                                            ELSE NextAttempt(attempt[x])
      [] x \in Pools   -> "sweep"
      [] x = Opener    -> "unlock"

\* Mutation: the greater of the two.
Greater(a, b) == IF a < b THEN b ELSE a

Lesser(a, b) == IF a < b THEN a ELSE b

\* More connections are asked for than the limit leaves.
MustCloseIdle == Limit - numOpened < waitCount

\* maybeCloseIdleConnLocked finds something in the LRU list.
FindIdle(x) ==
    /\ At(x, "maybeOpen") /\ FacadeFree /\ MustCloseIdle /\ lruCache # << >>
    /\ facadeLock' = x
    /\ Goto(x, "oldest")
    /\ UNCHANGED <<pool, hand, request, sweep, poolLock, facade, context,
                   waiters, idle, conns, crash>>

\* closeLruIdleConnectionsLocked takes the oldest entry out of the LRU list,
\* which others may have emptied since, and goes for its pool's mutex.
RemoveOldest(x) ==
    /\ At(x, "oldest")
    /\ IF lruCache = << >>
       THEN crash' = "no oldest connection" /\ UNCHANGED <<pc, tally, lruCache>>
       ELSE /\ tally' = [NoTally EXCEPT !.victim = Head(lruCache)]
            /\ lruCache' = Tail(lruCache)
            /\ Goto(x, "evict") /\ UNCHANGED crash
    /\ UNCHANGED <<pool, hand, request, closing, route, locks, facade,
                   context, waiters, freeConn, conns>>

\* removeConnFromFree, a panic if the victim is not idle, and the victim's
\* Close, which panics because the LRU list no longer has it.
CloseOldest(x) ==
    LET d == tally.victim
        p == owner[d]
    IN  /\ At(x, "evict") /\ PoolFree(p)
        /\ freeConn' = [freeConn EXCEPT ![p] = @ \ {d}]
        /\ crash' = IF d \in freeConn[p] THEN "lru does not contain connection"
                                         ELSE "evicted connection is not free"
        /\ UNCHANGED <<control, request, sweep, locks, facade, context,
                       waiters, lruCache, conns>>


\* The smaller of what is asked for and what the limit leaves; it is negative
\* when numOpened exceeds the limit.
CountNewConnections(x) ==
    LET quota == Lesser(waitCount, Limit - numOpened)
    IN  /\ At(x, "maybeOpen") /\ FacadeFree
        /\ ~MustCloseIdle \/ lruCache = << >>
        /\ IF quota = 0
           THEN /\ Goto(x, Resume(x))
                /\ UNCHANGED <<facadeLock, tally, route>>
           ELSE /\ facadeLock' = x
                /\ tally' = [NoTally EXCEPT !.quota = quota]
                /\ \E order \in SetToSeqs(Pools) :
                      route' = [route EXCEPT ![x] = order]
                /\ Goto(x, "visit")
        /\ UNCHANGED <<pool, hand, request, closing, poolLock, facade,
                       context, waiters, idle, conns, crash>>

\* One pool of getConnPoolsThatHaveRequestedNewConnections: one command per
\* pending request, as far as the quota goes.  The code reads the number of
\* requests twice; what follows is what one of the readings leads to.
VisitPool(x) ==
    LET p     == Head(route[x])
        asked == Cardinality(connRequests[p])
        n     == IF asked = 0 THEN 0 ELSE Lesser(asked, tally.quota)
    IN  /\ At(x, "visit") /\ route[x] # << >> /\ PoolFree(p)
        /\ tally' = [tally EXCEPT !.quota = @ - n,
                                  !.commands = @ \o [i \in 1..n |-> p]]
        /\ IF tally.quota = n
           THEN Goto(x, "command") /\ route' = [route EXCEPT ![x] = << >>]
           ELSE UNCHANGED pc /\ route' = [route EXCEPT ![x] = Tail(@)]
        /\ UNCHANGED <<pool, hand, request, closing, locks, facade,
                       context, waiters, idle, conns, crash>>

\* Every pool was visited and requests are missing: a panic.
RequestsMissing(x) ==
    /\ At(x, "visit") /\ route[x] = << >>
    /\ crash' = "wrong number of requests"
    /\ UNCHANGED <<control, request, sweep, locks, facade, context, waiters,
                   idle, conns>>

\* giveCommandToOpenNewConnections: numOpened++, and then nothing more if the
\* facade is closed, which leaves that slot taken.
ReserveSlot(x) ==
    /\ At(x, "command") /\ tally.commands # << >>
    /\ numOpened' = numOpened + 1
    /\ IF closed
       THEN /\ Goto(x, Resume(x))
            /\ facadeLock' = None /\ tally' = NoTally
       ELSE Goto(x, "send") /\ UNCHANGED <<facadeLock, tally>>
    /\ UNCHANGED <<pool, hand, request, closing, route, poolLock,
                   waitCount, openerChannel, context, waiters, idle, conns,
                   crash>>

\* The send blocks while the channel is full, with the facade's mutex held.
SendCommand(x) ==
    /\ At(x, "send") /\ Len(openerChannel) < OpenerCap
    /\ openerChannel' = Append(openerChannel, Head(tally.commands))
    /\ tally' = [tally EXCEPT !.commands = Tail(@)]
    /\ Goto(x, "command")
    /\ UNCHANGED <<pool, hand, request, closing, route, locks, numOpened,
                   waitCount, context, waiters, idle, conns, crash>>

EndMaybeOpen(x) ==
    /\ At(x, "command") /\ tally.commands = << >>
    /\ facadeLock' = None /\ tally' = NoTally
    /\ Goto(x, Resume(x))
    /\ UNCHANGED <<pool, hand, request, closing, route, poolLock, facade,
                   context, waiters, idle, conns, crash>>

MaybeOpen(x) ==
    \/ FindIdle(x)            \/ RemoveOldest(x) \/ CloseOldest(x)
    \/ CountNewConnections(x) \/ VisitPool(x)   \/ RequestsMissing(x)
    \/ ReserveSlot(x)         \/ SendCommand(x) \/ EndMaybeOpen(x)

-----------------------------------------------------------------------------
(* The opener goroutine: startCreatingConnections and openNewConnection. *)

OpenerStops ==
    /\ At(Opener, "listen") /\ cancelled
    /\ Goto(Opener, "stopped")
    /\ UNCHANGED <<pool, hand, request, sweep, locks, facade, context,
                   waiters, idle, conns, crash>>

TakeCommand ==
    /\ At(Opener, "listen") /\ openerChannel # << >>
    /\ pool' = [pool EXCEPT ![Opener] = Head(openerChannel)]
    /\ openerChannel' = Tail(openerChannel)
    /\ \E order \in SetToSeqs(Pools) : route' = [route EXCEPT ![Opener] = order]
    /\ Goto(Opener, "stats")
    /\ UNCHANGED <<hand, request, closing, tally, locks, numOpened,
                   waitCount, context, waiters, idle, conns, crash>>

\* Stats() takes every pool's mutex in turn, then the facade's.
StatsPool ==
    /\ At(Opener, "stats") /\ route[Opener] # << >>
    /\ PoolFree(Head(route[Opener]))
    /\ route' = [route EXCEPT ![Opener] = Tail(@)]
    /\ UNCHANGED <<control, request, closing, tally, locks, facade, context,
                   waiters, idle, conns, crash>>

StatsFacade ==
    /\ At(Opener, "stats") /\ route[Opener] = << >> /\ FacadeFree
    /\ Goto(Opener, "dial")
    /\ UNCHANGED <<pool, hand, request, sweep, locks, facade, context,
                   waiters, idle, conns, crash>>

Dial ==
    LET p == pool[Opener]
    IN  /\ At(Opener, "dial") /\ PoolFree(p)
        /\ \E d \in Conns :
              /\ owner[d] = None
              /\ owner' = [owner EXCEPT ![d] = p]
              /\ PutConnection(p, d)
        /\ Goto(Opener, "listen")
        /\ UNCHANGED <<pool, hand, request, sweep, locks, facade,
                       context, broken>>

\* Connect fails, or the facade's context ends it; the pool's mutex is taken.
DialFails ==
    /\ At(Opener, "dial") /\ PoolFree(pool[Opener])
    /\ "refuse" \in Faults \/ cancelled
    /\ poolLock' = [poolLock EXCEPT ![pool[Opener]] = Opener]
    /\ Goto(Opener, "refused")
    /\ UNCHANGED <<pool, hand, request, sweep, facadeLock, facade,
                   context, waiters, idle, conns, crash>>

\* decrementNumOpened inside the pool's section, the error goes to a pending
\* request, and the pool is unlocked before maybeOpenNewConnections.
ReportRefusal ==
    LET p == pool[Opener]
    IN  /\ At(Opener, "refused") /\ FacadeFree
        /\ numOpened' = numOpened - 1
        /\ \/ AnswerRequest(p, Refused)
           \/ connRequests[p] = {} /\ UNCHANGED waiters
        /\ poolLock' = [poolLock EXCEPT ![p] = None]
        /\ Goto(Opener, "maybeOpen")
        /\ UNCHANGED <<pool, hand, request, sweep, facadeLock, waitCount,
                       openerChannel, context, idle, conns, crash>>

\* The deferred Unlock of a mutex the opener unlocked before: fatal, unless
\* another goroutine holds it, which then loses it.
DeferredUnlock ==
    LET p == pool[Opener]
    IN  /\ At(Opener, "unlock")
        /\ crash' = IF PoolFree(p) THEN "unlock of unlocked mutex" ELSE crash
        /\ poolLock' = [poolLock EXCEPT ![p] = None]
        /\ Goto(Opener, "listen")
        /\ UNCHANGED <<pool, hand, request, sweep, facadeLock, facade,
                       context, waiters, idle, conns>>

-----------------------------------------------------------------------------
(* The cleaner of pool p, and ConnPoolFacade.Close. *)

\* lruCache is ordered by the last return, so d came back before e.
Older(d, e) == ~\E i, j \in 1..Len(lruCache) :
                     i < j /\ lruCache[i] = e /\ lruCache[j] = d

\* Mutation: the expired connections stay in freeConn.
CollectExpiredKept(p) ==
    /\ At(p, "sleep") /\ PoolFree(p) /\ "expire" \in Faults
    /\ \E expired \in SUBSET freeConn[p] :
          expired # {} /\ closing' = [closing EXCEPT ![p] = expired]
    /\ Goto(p, "sweep")
    /\ UNCHANGED <<pool, hand, request, route, tally, locks, facade,
                   context, waiters, idle, conns, crash>>

\* connectionCleanerRunLocked takes every idle connection whose last return is
\* too long ago: those returned before some moment.
CollectExpired(p) ==
    /\ At(p, "sleep") /\ PoolFree(p) /\ "expire" \in Faults
    /\ \E expired \in SUBSET freeConn[p] :
          /\ expired # {}
          /\ \A d \in expired, e \in freeConn[p] \ expired : Older(d, e)
          /\ closing' = [closing EXCEPT ![p] = expired]
          /\ freeConn' = [freeConn EXCEPT ![p] = @ \ expired]
    /\ Goto(p, "sweep")
    /\ UNCHANGED <<pool, hand, request, route, tally, locks, facade,
                   context, waiters, lruCache, conns, crash>>

CloseNextExpired(p) ==
    /\ At(p, "sweep")
    /\ \E d \in closing[p] :
          /\ hand' = [hand EXCEPT ![p] = d]
          /\ closing' = [closing EXCEPT ![p] = @ \ {d}]
    /\ Goto(p, "close")
    /\ UNCHANGED <<pool, request, route, tally, locks, facade, context,
                   waiters, idle, conns, crash>>

SweepEnds(p) ==
    /\ At(p, "sweep") /\ closing[p] = {}
    /\ Goto(p, "sleep")
    /\ UNCHANGED <<pool, hand, request, sweep, locks, facade, context,
                   waiters, idle, conns, crash>>

\* Close sets the flag, which is read without a lock, and then cancels the
\* facade's context; it closes no connection.
CloseFacade ==
    /\ crash = "none" /\ "close" \in Faults /\ ~closed
    /\ closed' = TRUE
    /\ UNCHANGED <<control, request, sweep, locks, facade, cancelled, waiters,
                   idle, conns, crash>>

CancelContext ==
    /\ crash = "none" /\ closed /\ ~cancelled
    /\ cancelled' = TRUE
    /\ UNCHANGED <<control, request, sweep, locks, facade, closed, waiters,
                   idle, conns, crash>>

-----------------------------------------------------------------------------
CloseSteps(x) == CloseConn(x) \/ RemoveDep(x) \/ FinalClose(x)

BorrowSteps(c) ==
    \/ ConnExpiredContext(c) \/ TakeFreeConn(c) \/ NoFreeConn(c)
    \/ CheckLimit(c) \/ ClaimSlot(c) \/ Connect(c) \/ ConnectFails(c)
    \/ UnclaimSlot(c) \/ RegisterRequest(c) \/ CountRequest(c)
    \/ ReceiveConn(c) \/ ReceiveError(c) \/ GiveUp(c) \/ Withdraw(c)

ReturnSteps(c) == PutConn(c) \/ PutBadConn(c) \/ UnlockAndClose(c)

ClientStep(c) ==
    \/ BorrowSteps(c) \/ ReturnSteps(c) \/ CloseSteps(c) \/ MaybeOpen(c)
    \/ EndOperation(c)

OpenerStep ==
    \/ OpenerStops \/ TakeCommand \/ StatsPool \/ StatsFacade
    \/ Dial \/ DialFails \/ ReportRefusal \/ DeferredUnlock
    \/ MaybeOpen(Opener)

CleanerStep(p) ==
    \/ CollectExpired(p) \/ CloseNextExpired(p) \/ SweepEnds(p)
    \/ CloseSteps(p) \/ MaybeOpen(p)

Next ==
    \/ \E c \in Clients : StartOperation(c) \/ ClientStep(c)
    \/ \E p \in Pools : CleanerStep(p)
    \/ OpenerStep
    \/ CloseFacade \/ CancelContext

Spec == Init /\ [][Next]_vars

(***************************************************************************)
(* Every goroutine that can go on does so: Go schedules every runnable     *)
(* goroutine, its mutexes are starvation-free (hence SF), and a client     *)
(* gives a borrowed connection back at some time.  No operation need start *)
(* and no fault need happen, but Close, once begun, ends.                  *)
(***************************************************************************)
Fairness ==
    /\ \A c \in Clients : SF_vars(ClientStep(c))
    /\ \A p \in Pools : SF_vars(CleanerStep(p))
    /\ SF_vars(OpenerStep)
    /\ WF_vars(CancelContext)

FairSpec == Spec /\ Fairness

-----------------------------------------------------------------------------
(* Properties. *)

ClientLabels == {"idle", "return", "conn", "check", "claim", "connect", "unclaim",
                 "register", "count", "wait", "withdraw", "giveBack", "using",
                 "discard"}
CloseLabels == {"close", "removeDep", "finalClose"}
MaybeOpenLabels == {"maybeOpen", "oldest", "evict", "visit", "command", "send"}
OpenerLabels == {"listen", "stats", "dial", "refused", "unlock", "stopped"}
CleanerLabels == {"sleep", "sweep"}
Crashes == {"lru evicted", "lru does not contain connection",
            "evicted connection is not free", "no oldest connection",
            "wrong number of requests",
            "unlock of unlocked mutex"}

\* The labels of a goroutine are those of its kind.
LabelsOK ==
    /\ pc \in [Procs -> ClientLabels \cup CloseLabels \cup MaybeOpenLabels
                        \cup OpenerLabels \cup CleanerLabels]
    /\ \A c \in Clients :
          pc[c] \in ClientLabels \cup CloseLabels \cup MaybeOpenLabels
    /\ \A p \in Pools :
          pc[p] \in CleanerLabels \cup CloseLabels \cup MaybeOpenLabels
    /\ pc[Opener] \in OpenerLabels \cup MaybeOpenLabels

LocalsOK ==
    /\ pool \in [Procs -> Pools \cup {None}]
    /\ hand \in [Procs -> Conns \cup {None}]
    /\ attempt \in [Clients -> 0..maxBadConnRetries + 1]
    /\ cancellable \in [Clients -> BOOLEAN]
    /\ closing \in [Pools -> SUBSET Conns]
    /\ route \in [Procs -> Seq(Pools)]
    /\ tally \in [quota : Int, commands : Seq(Pools),
                  victim : Conns \cup {None}]

SharedOK ==
    /\ facadeLock \in Procs \cup {None}
    /\ poolLock \in [Pools -> Procs \cup {None}]
    /\ numOpened \in Int /\ waitCount \in Nat
    /\ closed \in BOOLEAN /\ cancelled \in BOOLEAN
    /\ openerChannel \in Seq(Pools) /\ lruCache \in Seq(Conns)
    /\ connRequests \in [Pools -> SUBSET Clients]
    /\ response \in [Clients -> Conns \cup {None, Refused}]
    /\ freeConn \in [Pools -> SUBSET Conns]
    /\ inUse \in [Conns -> BOOLEAN] /\ owner \in [Conns -> Pools \cup {None}]
    /\ broken \in [Conns -> BOOLEAN]
    /\ crash \in Crashes \cup {"none"}

\* Every variable keeps its type, whatever fails and whoever runs when.
TypeOK == LabelsOK /\ LocalsOK /\ SharedOK

LiveConns == {d \in Conns : owner[d] # None}

\* The places a connection of the pools can be in.
HandOf(d)     == {x \in Procs : hand[x] = d}
AnswersOf(d)  == {c \in Clients : response[c] = d}
ShelvesOf(d)  == {p \in Pools : d \in freeConn[p]}
SweepsOf(d)   == {p \in Pools : d \in closing[p]}

\* A live connection is in exactly one place, and that place belongs to the
\* connection's pool; an identity not in use is nowhere.  No connection is lent
\* to two clients, or lent while it is idle or being closed, and none is lost.
OneHolder ==
    crash = "none" => \A d \in Conns :
       /\ Cardinality(HandOf(d)) + Cardinality(AnswersOf(d))
          + Cardinality(ShelvesOf(d)) + Cardinality(SweepsOf(d))
             = (IF d \in LiveConns THEN 1 ELSE 0)
       /\ \A x \in HandOf(d) \cup AnswersOf(d) : pool[x] = owner[d]
       /\ \A p \in ShelvesOf(d) \cup SweepsOf(d) : p = owner[d]

\* driverConn.inUse is true exactly while a client may use the connection or
\* finds it in its channel: putConn's panic for a connection "that was never
\* out" cannot happen, nor can a borrowed connection be taken for idle.
InUseIsBorrowed ==
    \A d \in LiveConns :
       /\ d \in UNION {freeConn[p] : p \in Pools} => ~inUse[d]
       /\ AnswersOf(d) # {} => inUse[d]
       /\ \A c \in HandOf(d) \cap Clients :
             pc[c] \in {"using", "giveBack"} => inUse[d]

\* An idle connection can be found by eviction: it is in the LRU list, unless
\* an eviction has just taken it out; and the list has no connection twice and
\* none that was closed.
IdleIsEvictable ==
    /\ \A p \in Pools : \A d \in freeConn[p] :
          \/ Contains(lruCache, d)
          \/ tally.victim = d
          \/ crash # "none"
    /\ \A i, j \in 1..Len(lruCache) : lruCache[i] = lruCache[j] => i = j
    /\ \A d \in ToSet(lruCache) : owner[d] # None

\* Slots of the limit in use: connections, and openings under way.
OpenerBusy == pc[Opener] \in {"stats", "dial", "refused"}
Openings   == {c \in Clients : pc[c] \in {"connect", "unclaim"}}
Sending    == {x \in Procs : pc[x] = "send"}
SlotsInUse == Cardinality(LiveConns) + Cardinality(Openings)
              + Len(openerChannel) + Cardinality(Sending)
              + (IF OpenerBusy THEN 1 ELSE 0)

\* numOpened counts the slots in use.  A facade that was closed may count a
\* slot too many, never one too few.
SlotsCounted ==
    /\ numOpened >= SlotsInUse
    /\ ~closed => numOpened = SlotsInUse

\* canAddNewConn and incrementNumOpened are two sections: the limit may be
\* exceeded, but by less than the number of clients.
Claiming == {c \in Clients : pc[c] = "claim"}
OvershootBounded ==
    numOpened + Cardinality(Claiming) < Limit + Cardinality(Clients)

\* A waiting client is either still registered or has exactly one answer in
\* its channel, and nobody else is registered or answered: no request is
\* answered twice, answered after it was withdrawn, or forgotten.
RequestOrAnswer ==
    \A c \in Clients :
       LET asks    == {p \in Pools : c \in connRequests[p]}
           waiting == pc[c] \in {"count", "wait", "withdraw"}
       IN  IF waiting
           THEN asks = (IF response[c] = None THEN {pool[c]} ELSE {})
           ELSE asks = {} /\ response[c] = None

\* maybeOpenNewConnections never undercounts: waitCount is at least the number
\* of registered clients that have counted themselves.
Counted == {c \in UNION {connRequests[p] : p \in Pools} : pc[c] # "count"}
RequestsCounted == waitCount >= Cardinality(Counted)

\* The facade's mutex protects the counters across maybeOpenNewConnections:
\* the commands still to give fit in the limit.
Commanding(x) == pc[x] \in {"visit", "command", "send"}
QuotaFits ==
    \A x \in Procs : Commanding(x) =>
       /\ facadeLock = x
       /\ tally.quota > 0 =>
             numOpened + Len(tally.commands) + tally.quota <= Limit
       /\ numOpened + Len(tally.commands)
             <= (IF pc[x] = "send" THEN Limit + 1
                 ELSE IF tally.commands = << >> THEN numOpened ELSE Limit)

\* The pools keep the promises of ConnLedger.  A client has a connection from
\* the moment it lies in the client's channel until it is put back or found bad.
HolderOf(d) ==
    LET users == {c \in Clients :
                    \/ response[c] = d
                    \/ hand[c] = d /\ pc[c] \in {"using", "giveBack"}}
    IN  IF owner[d] = None               THEN None
        ELSE IF d \in freeConn[owner[d]] THEN "idle"
        ELSE IF users # {}               THEN CHOOSE c \in users : TRUE
        ELSE "closing"

Ledger == INSTANCE ConnLedger
            WITH asks   <- [c \in Clients |-> pool[c]],
                 home   <- owner,
                 holder <- [d \in Conns |-> HolderOf(d)]
KeepsLedger == Ledger!Spec

(* Liveness, under FairSpec. *)

Crashed == crash # "none"
Waiting(c) == pc[c] \in {"count", "wait", "withdraw"}

\* A waiter is served when a borrowed connection of its pool comes back.
Borrowed(p) == \E c \in Clients : pc[c] = "using" /\ pool[c] = p
Answered(p) == \E c \in Clients : response[c] # None /\ pool[c] = p



\* Operations end: none waits for ever.
OperationsEnd ==
    \A c \in Clients : (pc[c] # "idle") ~> (pc[c] = "idle" \/ Crashed)

-----------------------------------------------------------------------------
(* Claims of the repository that the code does not keep. *)

\* tests/bddtests.txt:10: no more connections are created than allowed.
LimitRespected == numOpened <= Limit

\* conn_pool_facade.go:241: as many requests are found as were counted.
RequestsFound == crash # "wrong number of requests"
=============================================================================
