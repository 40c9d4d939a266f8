---------------------------- MODULE HolderProofs ----------------------------
(***************************************************************************)
(* Where the connections are: every open connection is in one place of its *)
(* pool, for any number of clients, pools and connections, and with that   *)
(* ConnPool implements ConnLedger.                                         *)
(*                                                                         *)
(* A step moves one connection from place to place, retires several idle   *)
(* ones, or leaves all of them where they are.  What it does to one        *)
(* connection is stated once per action (Effect); the invariant and the    *)
(* step of ConnLedger both follow from that.                               *)
(***************************************************************************)
EXTENDS ConnPoolProofs

\* The goroutines, answers, idle sets and sweeps that have d.
Found(d, H, A, S, W) ==
    HandOf(d) = H /\ AnswersOf(d) = A /\ ShelvesOf(d) = S /\ SweepsOf(d) = W

Using(x) == x \in Clients /\ pc[x] \in {"using", "giveBack"}

Absent(d)  == owner[d] = None /\ Found(d, {}, {}, {}, {})
Shelved(d) == owner[d] \in Pools /\ ~inUse[d] /\ Found(d, {}, {}, {owner[d]}, {})
LentTo(d, c) ==
    /\ owner[d] \in Pools /\ pool[c] = owner[d] /\ inUse[d]
    /\ \/ Found(d, {}, {c}, {}, {})
       \/ Found(d, {c}, {}, {}, {}) /\ Using(c)
\* On its way to be closed, or dropped by the step that ended the process.
Leaving(d) ==
    /\ owner[d] \in Pools
    /\ \/ \E x \in Procs : Found(d, {x}, {}, {}, {}) /\ pool[x] = owner[d] /\ ~Using(x)
       \/ Found(d, {}, {}, {}, {owner[d]})
       \/ Found(d, {}, {}, {}, {}) /\ crash # "none"

Sound(d) == Absent(d) \/ Shelved(d) \/ (\E c \in Clients : LentTo(d, c)) \/ Leaving(d)

\* Who may carry a connection, and what the others have forgotten.
Carrying(x) ==
    /\ hand[x] # None => \/ x \in Clients /\ pc[x] \in Holding \cup MaybeOpenLabels
                         \/ x \in Pools /\ pc[x] \in CloseLabels
    /\ x \in Clients /\ pc[x] = "idle" => pool[x] = None
    /\ x \in Pools /\ pc[x] = "sleep" => closing[x] = {}

HoldInv ==
    /\ TypeInv /\ RequestOrAnswer
    /\ \A x \in Procs : Carrying(x)
    /\ \A d \in Conns : Sound(d)

-----------------------------------------------------------------------------
(* What a step does to the connections *)

\* d stays where it is.
Still(d) ==
    /\ HandOf(d)' = HandOf(d) /\ AnswersOf(d)' = AnswersOf(d)
    /\ ShelvesOf(d)' = ShelvesOf(d) /\ SweepsOf(d)' = SweepsOf(d)
    /\ owner'[d] = owner[d] /\ inUse'[d] = inUse[d]
    /\ \A x \in HandOf(d) \cup AnswersOf(d) : pool'[x] = pool[x]
    /\ \A x \in HandOf(d) : Using(x)' <=> Using(x)
    /\ crash # "none" => crash' # "none"

ClientsStay == \A c \in Clients : pool'[c] = pool[c]

\* The client has no connection, and none is on its way to it.
Free(c) == hand[c] = None /\ response[c] \notin Conns
GivenTo(d, c) == LentTo(d, c)' /\ Free(c) /\ pool'[c] = pool[c]

Opens(d) ==
    /\ Absent(d)
    /\ Shelved(d)' \/ \E c \in Clients : GivenTo(d, c)
Lends(d) ==
    /\ Shelved(d) /\ owner'[d] = owner[d]
    /\ Leaving(d)' \/ \E c \in Clients : GivenTo(d, c)
Passes(d) ==
    \E c \in Clients :
       /\ LentTo(d, c) /\ owner'[d] = owner[d]
       /\ \/ Shelved(d)' \/ Leaving(d)' \/ LentTo(d, c)'
          \/ \E b \in Clients : GivenTo(d, b)
Leaves(d) == Leaving(d) /\ ((Leaving(d)' /\ owner'[d] = owner[d]) \/ Absent(d)')

Moves(d) ==
    /\ \A e \in Conns \ {d} : Still(e)
    /\ ClientsStay
    /\ Opens(d) \/ Lends(d) \/ Passes(d) \/ Leaves(d)
Stays == ClientsStay /\ \A d \in Conns : Still(d)
Turns(c) ==
    /\ \A d \in Conns : Still(d)
    /\ \A b \in Clients \ {c} : pool'[b] = pool[b]
    /\ Free(c)
    /\ \/ pool[c] = None /\ pool'[c] \in Pools
       \/ pool[c] # None /\ pool'[c] = None
Retires(p) ==
    /\ ClientsStay
    /\ \E D \in SUBSET Conns :
          /\ \A d \in D : Shelved(d) /\ owner[d] = p /\ Leaving(d)' /\ owner'[d] = p
          /\ \A d \in Conns \ D : Still(d)

Effect ==
    \/ Stays
    \/ \E d \in Conns : Moves(d)
    \/ \E c \in Clients : Turns(c)
    \/ \E p \in Pools : Retires(p)

LEMMA StillPlaces ==
    ASSUME NEW d, Still(d)
    PROVE  /\ Absent(d) => Absent(d)'
           /\ Shelved(d) => Shelved(d)'
           /\ \A c \in Clients : LentTo(d, c) => LentTo(d, c)'
           /\ Leaving(d) => Leaving(d)'
<1> USE DEF Still, Found
<1>1. Absent(d) => Absent(d)'
  BY DEF Absent
<1>2. Shelved(d) => Shelved(d)'
  BY DEF Shelved
<1>3. ASSUME NEW c \in Clients, LentTo(d, c) PROVE LentTo(d, c)'
  <2>1. c \in HandOf(d) \cup AnswersOf(d) /\ (Found(d, {c}, {}, {}, {}) => c \in HandOf(d))
    BY <1>3 DEF LentTo
  <2> QED  BY <1>3, <2>1 DEF LentTo
<1>4. Leaving(d) => Leaving(d)'
  BY DEF Leaving
<1> QED  BY <1>1, <1>2, <1>3, <1>4

LEMMA EffectSound ==
    ASSUME \A d \in Conns : Sound(d), Effect
    PROVE  \A d \in Conns : Sound(d)'
<1>1. \A d \in Conns : Still(d) => Sound(d)'
  BY StillPlaces DEF Sound
<1>2. \A d \in Conns : Moves(d) => Sound(d)'
  BY DEF Moves, Opens, Lends, Passes, Leaves, GivenTo, Sound
<1>3. CASE Stays
  BY <1>1, <1>3 DEF Stays
<1>4. CASE \E d \in Conns : Moves(d)
  BY <1>1, <1>2, <1>4 DEF Moves
<1>5. CASE \E c \in Clients : Turns(c)
  BY <1>1, <1>5 DEF Turns
<1>6. CASE \E p \in Pools : Retires(p)
  BY <1>1, <1>6 DEF Retires, Sound
<1> QED  BY <1>3, <1>4, <1>5, <1>6 DEF Effect

-----------------------------------------------------------------------------
(* Where a connection is found after an assignment *)

LEMMA Unmoved ==
    ASSUME NEW d
    PROVE  /\ UNCHANGED hand => HandOf(d)' = HandOf(d)
           /\ UNCHANGED response => AnswersOf(d)' = AnswersOf(d)
           /\ UNCHANGED freeConn => ShelvesOf(d)' = ShelvesOf(d)
           /\ UNCHANGED closing => SweepsOf(d)' = SweepsOf(d)
BY DEF HandOf, AnswersOf, ShelvesOf, SweepsOf

\* A step of x in which no connection changes places.
LEMMA AllStill ==
    ASSUME TypeInv, NEW x \in Procs, UNCHANGED <<hand, freeConn, closing, owner, inUse>>,
           \A c \in Clients : \/ response'[c] = response[c]
                              \/ {response[c], response'[c]} \cap Conns = {},
           \A y \in Procs \ {x} : pc'[y] = pc[y] /\ pool'[y] = pool[y],
           Using(x)' <=> Using(x), crash = "none",
           \/ pool'[x] = pool[x]
           \/ hand[x] = None /\ (x \in Clients => response[x] \notin Conns)
    PROVE  \A d \in Conns : Still(d)
<1> SUFFICES ASSUME NEW d \in Conns PROVE Still(d)
  OBVIOUS
<1>1. d # None
  BY ProcsAssumption
<1>2. \A y \in HandOf(d) \cup AnswersOf(d) : pool'[y] = pool[y]
  BY <1>1 DEF HandOf, AnswersOf, Procs
<1>3. \A y \in HandOf(d) : Using(y)' <=> Using(y)
  BY DEF HandOf, Using
<1>4. AnswersOf(d)' = AnswersOf(d)
  BY DEF AnswersOf
<1> QED  BY <1>2, <1>3, <1>4, Unmoved DEF Still

\* The place a connection is in tells all about it.
LEMMA FoundInHand ==
    ASSUME NEW d, Sound(d), NEW x \in Procs, hand[x] = d
    PROVE  /\ Found(d, {x}, {}, {}, {}) /\ owner[d] \in Pools /\ pool[x] = owner[d]
           /\ Using(x) => LentTo(d, x)
           /\ ~Using(x) => Leaving(d)
BY DEF Sound, Absent, Shelved, LentTo, Leaving, Found, HandOf

LEMMA FoundAnswering ==
    ASSUME NEW d, Sound(d), NEW c \in Clients, response[c] = d
    PROVE  Found(d, {}, {c}, {}, {}) /\ LentTo(d, c)
BY DEF Sound, Absent, Shelved, LentTo, Leaving, Found, AnswersOf

LEMMA FoundIdle ==
    ASSUME NEW d, Sound(d), NEW p \in Pools, d \in freeConn[p]
    PROVE  Shelved(d) /\ owner[d] = p
BY DEF Sound, Absent, Shelved, LentTo, Leaving, Found, ShelvesOf

LEMMA FoundSwept ==
    ASSUME NEW d, Sound(d), NEW p \in Pools, d \in closing[p]
    PROVE  Found(d, {}, {}, {}, {p}) /\ owner[d] = p /\ Leaving(d)
BY DEF Sound, Absent, Shelved, LentTo, Leaving, Found, SweepsOf

LEMMA FoundNowhere ==
    ASSUME NEW d, Sound(d), owner[d] = None
    PROVE  Absent(d)
BY ProcsAssumption DEF Sound, Shelved, LentTo, Leaving

-----------------------------------------------------------------------------
(* The steps of the goroutines *)

Kept == Effect /\ \A y \in Procs : Carrying(y)'

LEMMA CarryFrame ==
    ASSUME \A y \in Procs : Carrying(y), NEW x \in Procs,
           \A y \in Procs \ {x} : pc'[y] = pc[y] /\ hand'[y] = hand[y] /\ pool'[y] = pool[y],
           \A p \in Pools \ {x} : closing'[p] = closing[p],
           Carrying(x)'
    PROVE  \A y \in Procs : Carrying(y)'
BY DEF Carrying

LEMMA OneLabel ==
    ASSUME TypeInv, NEW x \in Procs, NEW l, Goto(x, l)
    PROVE  /\ pc'[x] = l
           /\ \A y \in Procs \ {x} : pc'[y] = pc[y]
BY DEF TypeInv, TypeOK, LabelsOK, Goto

\* x goes on and everything else about the connections stays.
LEMMA GoesOn ==
    ASSUME HoldInv, NEW x \in Procs, NEW l, Goto(x, l), crash = "none",
           UNCHANGED <<pool, hand, freeConn, closing, owner, inUse>>,
           \A c \in Clients : \/ response'[c] = response[c]
                              \/ {response[c], response'[c]} \cap Conns = {},
           ~Using(x), l \notin {"using", "giveBack", "idle"},
           \/ hand[x] = None
           \/ x \in Clients /\ l \in {"discard"} \cup CloseLabels \cup MaybeOpenLabels
           \/ x \in Pools /\ l \in CloseLabels,
           x \in Pools /\ l = "sleep" => closing[x] = {}
    PROVE  Kept
<1>1. pc'[x] = l /\ \A y \in Procs \ {x} : pc'[y] = pc[y]
  BY OneLabel DEF HoldInv
<1>2. ~Using(x)'
  BY <1>1 DEF Using
<1>3. \A d \in Conns : Still(d)
  BY <1>1, <1>2, AllStill DEF HoldInv
<1>4. Effect
  BY <1>3 DEF Effect, Stays, ClientsStay
<1>5. Carrying(x)'
  BY <1>1 DEF Carrying, Holding
<1>6. \A y \in Procs : Carrying(y)'
  BY <1>1, <1>5, CarryFrame DEF HoldInv
<1> QED  BY <1>4, <1>6 DEF Kept

LEMMA TurnKept ==
    ASSUME HoldInv, NEW c \in Clients, StartOperation(c) \/ EndOperation(c)
    PROVE  Kept
<1> USE DEF HoldInv, sweep, idle, conns, waiters, At
<1>0. c \in Procs /\ c \notin Pools
  BY ProcsAssumption DEF Procs
<1>1. PICK l \in {"idle", "conn"}, q \in Pools \cup {None} :
         /\ Goto(c, l) /\ pool' = [pool EXCEPT ![c] = q]
         /\ \/ l = "conn" /\ q \in Pools /\ pc[c] = "idle"
            \/ l = "idle" /\ q = None /\ pc[c] = "return"
  BY DEF StartOperation, EndOperation
<1>2. /\ UNCHANGED <<hand, response, freeConn, closing, owner, inUse, crash>> /\ crash = "none"
  BY DEF StartOperation, EndOperation
<1>3. pc'[c] = l /\ \A y \in Procs \ {c} : pc'[y] = pc[y]
  BY <1>0, <1>1, OneLabel
<1>4. pool'[c] = q /\ \A y \in Procs \ {c} : pool'[y] = pool[y]
  BY <1>0, <1>1 DEF TypeInv, TypeOK, LocalsOK
<1>5. hand[c] = None
  BY <1>0, <1>1 DEF Carrying, Holding, CloseLabels, MaybeOpenLabels
<1>6. response[c] = None
  BY <1>1, ServedByOne DEF Served, Waiting
<1>7. Free(c)
  BY <1>5, <1>6, ProcsAssumption DEF Free
<1>8. ~Using(c) /\ ~Using(c)'
  BY <1>1, <1>3 DEF Using
<1>9. \A d \in Conns : Still(d)
  BY <1>0, <1>2, <1>3, <1>4, <1>7, <1>8, AllStill DEF Free
<1>10. pc[c] = "idle" => pool[c] = None
  BY <1>0 DEF Carrying
<1>11. pc[c] = "return" => pool[c] # None
  BY <1>0, ProcsAssumption DEF TypeInv, Located, Placed, Resting
<1>12. Turns(c)
  BY <1>0, <1>1, <1>4, <1>7, <1>9, <1>10, <1>11, ProcsAssumption DEF Turns, Procs
<1>13. Carrying(c)'
  BY <1>0, <1>1, <1>2, <1>3, <1>4, <1>5 DEF Carrying
<1>14. \A y \in Procs : Carrying(y)'
  BY <1>0, <1>2, <1>3, <1>4, <1>13, CarryFrame
<1> QED  BY <1>12, <1>14 DEF Kept, Effect

LEMMA BorrowGoesOn ==
    ASSUME HoldInv, NEW c \in Clients,
           \/ ConnExpiredContext(c) \/ NoFreeConn(c) \/ CheckLimit(c) \/ ClaimSlot(c)
           \/ ConnectFails(c) \/ UnclaimSlot(c) \/ RegisterRequest(c) \/ CountRequest(c) \/ GiveUp(c)
    PROVE  Kept
<1>0. c \in Procs /\ c \notin Pools
  BY ProcsAssumption DEF Procs
<1>1. PICK l \in {"return", "check", "claim", "connect", "unclaim", "maybeOpen", "register",
                  "count", "wait", "withdraw"} : Goto(c, l)
  BY DEF ConnExpiredContext, NoFreeConn, CheckLimit, ClaimSlot, ConnectFails, UnclaimSlot,
         RegisterRequest, CountRequest, GiveUp
<1>2. UNCHANGED <<pool, hand, response, freeConn, closing, owner, inUse>> /\ crash = "none"
  BY DEF ConnExpiredContext, NoFreeConn, CheckLimit, ClaimSlot, ConnectFails, UnclaimSlot,
         RegisterRequest, CountRequest, GiveUp, sweep, idle, conns, waiters, At
<1>3. pc[c] \in {"conn", "check", "claim", "connect", "unclaim", "register", "count", "wait"}
  BY DEF ConnExpiredContext, NoFreeConn, CheckLimit, ClaimSlot, ConnectFails, UnclaimSlot,
         RegisterRequest, CountRequest, GiveUp, At
<1>4. hand[c] = None /\ ~Using(c)
  BY <1>0, <1>3 DEF HoldInv, Carrying, Using, Holding, CloseLabels, MaybeOpenLabels
<1> QED  BY <1>0, <1>1, <1>2, <1>4, GoesOn

\* A step of x that moves no other connection than d.
Touches(x, d) ==
    /\ d \in Conns /\ crash = "none" /\ UNCHANGED pool
    /\ \A y \in Procs : \/ pc'[y] = pc[y] /\ hand'[y] = hand[y]
                        \/ y = x /\ {hand[x], hand'[x]} \subseteq {d, None}
    /\ \A c \in Clients : response'[c] = response[c]
                          \/ {response[c], response'[c]} \cap Conns \subseteq {d}
    /\ \A p \in Pools : /\ freeConn'[p] \ {d} = freeConn[p] \ {d}
                        /\ closing'[p] \ {d} = closing[p] \ {d}
                        /\ p # x => closing'[p] = closing[p]
    /\ \A e \in Conns \ {d} : owner'[e] = owner[e] /\ inUse'[e] = inUse[e]

LEMMA MoveKept ==
    ASSUME HoldInv, NEW x \in Procs, NEW d, Touches(x, d), Carrying(x)',
           Opens(d) \/ Lends(d) \/ Passes(d) \/ Leaves(d)
    PROVE  Kept
<1>1. ASSUME NEW e \in Conns \ {d} PROVE Still(e)
  <2>1. e # None
    BY ProcsAssumption
  <2>2. HandOf(e)' = HandOf(e) /\ \A y \in HandOf(e) : pc'[y] = pc[y]
    BY <2>1 DEF Touches, HandOf
  <2>3. AnswersOf(e)' = AnswersOf(e)
    BY DEF Touches, AnswersOf
  <2>4. ShelvesOf(e)' = ShelvesOf(e) /\ SweepsOf(e)' = SweepsOf(e)
    BY DEF Touches, ShelvesOf, SweepsOf
  <2>5. \A y \in HandOf(e) : Using(y)' <=> Using(y)
    BY <2>2 DEF Using
  <2> QED  BY <2>2, <2>3, <2>4, <2>5 DEF Touches, Still
<1>2. Effect
  BY <1>1 DEF Touches, Effect, Moves, ClientsStay
<1>3. \A y \in Procs : Carrying(y)'
  BY CarryFrame DEF HoldInv, Touches
<1> QED  BY <1>2, <1>3 DEF Kept

\* d goes from p's idle connections into the hand of c.
LEMMA TakeFreeConnKept ==
    ASSUME HoldInv, NEW c \in Clients, TakeFreeConn(c)
    PROVE  Kept
<1> USE DEF HoldInv, sweep, idle, conns, waiters, At
<1>0. c \in Procs /\ c \notin Pools /\ None \notin Conns
  BY ProcsAssumption DEF Procs
<1>1. /\ pc[c] = "conn" /\ pool[c] \in Pools /\ crash = "none"
      /\ UNCHANGED <<pool, response, closing, owner, crash>>
  BY <1>0 DEF TakeFreeConn, TypeInv, Located, Placed, Resting
<1>2. PICK d \in freeConn[pool[c]] :
         /\ freeConn' = [freeConn EXCEPT ![pool[c]] = @ \ {d}]
         /\ inUse' = [inUse EXCEPT ![d] = TRUE]
         /\ hand' = [hand EXCEPT ![c] = d]
         /\ ResetSession(c, d)
  BY DEF TakeFreeConn
<1>3. d \in Conns
  BY <1>1, <1>2 DEF TypeInv, TypeOK, SharedOK
<1>4. hand[c] = None /\ response[c] = None
  <2>1. hand[c] = None
    BY <1>0, <1>1 DEF Carrying, Holding, CloseLabels, MaybeOpenLabels
  <2> QED  BY <1>1, <2>1, ServedByOne DEF Served, Waiting
<1>5. Shelved(d) /\ owner[d] = pool[c]
  BY <1>1, <1>2, <1>3, FoundIdle
<1>6. /\ pc'[c] \in {"using", "close"} /\ \A y \in Procs \ {c} : pc'[y] = pc[y]
  BY <1>0, <1>2, OneLabel DEF ResetSession
<1>7. hand'[c] = d /\ \A y \in Procs \ {c} : hand'[y] = hand[y]
  BY <1>0, <1>2 DEF TypeInv, TypeOK, LocalsOK
<1>8. \A p \in Pools : freeConn'[p] = IF p = pool[c] THEN freeConn[p] \ {d} ELSE freeConn[p]
  BY <1>1, <1>2 DEF TypeInv, TypeOK, SharedOK
<1>9. inUse'[d] = TRUE /\ \A e \in Conns \ {d} : inUse'[e] = inUse[e]
  BY <1>2, <1>3 DEF TypeInv, TypeOK, SharedOK
<1>10. Touches(c, d)
  BY <1>1, <1>3, <1>4, <1>6, <1>7, <1>8, <1>9 DEF Touches
<1>11. Found(d, {c}, {}, {}, {})' /\ owner'[d] = pool[c]
  <2>1. HandOf(d)' = HandOf(d) \cup {c}
    BY <1>0, <1>7 DEF HandOf
  <2>2. ShelvesOf(d)' = ShelvesOf(d) \ {pool[c]}
    BY <1>8 DEF ShelvesOf
  <2> QED  BY <1>1, <1>5, <2>1, <2>2, Unmoved DEF Shelved, Found
<1>12. LentTo(d, c)' \/ Leaving(d)'
  BY <1>0, <1>1, <1>6, <1>9, <1>11 DEF LentTo, Leaving, Using
<1>13. Lends(d)
  BY <1>0, <1>1, <1>4, <1>5, <1>11, <1>12 DEF Lends, GivenTo, Free
<1>14. Carrying(c)'
  BY <1>0, <1>6, <1>7 DEF Carrying, Holding, CloseLabels
<1> QED  BY <1>0, <1>10, <1>13, <1>14, MoveKept

LEMMA ConnectKept ==
    ASSUME HoldInv, NEW c \in Clients, Connect(c)
    PROVE  Kept
<1> USE DEF HoldInv, sweep, idle, conns, waiters, At
<1>0. c \in Procs /\ c \notin Pools /\ None \notin Conns
  BY ProcsAssumption DEF Procs
<1>1. /\ pc[c] = "connect" /\ pool[c] \in Pools /\ crash = "none"
      /\ UNCHANGED <<pool, response, freeConn, closing, crash>> /\ Goto(c, "using")
  BY <1>0 DEF Connect, TypeInv, Located, Placed, Resting
<1>2. PICK d \in Conns :
         /\ owner[d] = None
         /\ owner' = [owner EXCEPT ![d] = pool[c]]
         /\ inUse' = [inUse EXCEPT ![d] = TRUE]
         /\ hand' = [hand EXCEPT ![c] = d]
  BY DEF Connect
<1>3. hand[c] = None /\ response[c] = None
  <2>1. hand[c] = None
    BY <1>0, <1>1 DEF Carrying, Holding, CloseLabels, MaybeOpenLabels
  <2> QED  BY <1>1, <2>1, ServedByOne DEF Served, Waiting
<1>4. Absent(d)
  BY <1>2, FoundNowhere
<1>5. /\ pc'[c] = "using" /\ \A y \in Procs \ {c} : pc'[y] = pc[y]
  BY <1>0, <1>1, OneLabel
<1>6. hand'[c] = d /\ \A y \in Procs \ {c} : hand'[y] = hand[y]
  BY <1>0, <1>2 DEF TypeInv, TypeOK, LocalsOK
<1>7. /\ inUse'[d] = TRUE /\ owner'[d] = pool[c]
      /\ \A e \in Conns \ {d} : owner'[e] = owner[e] /\ inUse'[e] = inUse[e]
  BY <1>2 DEF TypeInv, TypeOK, SharedOK
<1>8. Touches(c, d)
  BY <1>1, <1>3, <1>5, <1>6, <1>7 DEF Touches
<1>9. Found(d, {c}, {}, {}, {})'
  BY <1>0, <1>1, <1>4, <1>6 DEF Absent, Found, HandOf, AnswersOf, ShelvesOf, SweepsOf
<1>10. LentTo(d, c)'
  BY <1>0, <1>1, <1>5, <1>7, <1>9 DEF LentTo, Using
<1>11. Opens(d)
  BY <1>0, <1>1, <1>3, <1>4, <1>10 DEF Opens, GivenTo, Free
<1>12. Carrying(c)'
  BY <1>0, <1>5 DEF Carrying, Holding
<1> QED  BY <1>0, <1>8, <1>11, <1>12, MoveKept
\* What a client has before it has a connection, and what it waits for.
LEMMA EmptyHanded ==
    ASSUME HoldInv, NEW c \in Clients
    PROVE  /\ pc[c] \notin Holding \cup MaybeOpenLabels => hand[c] = None
           /\ ~Waiting(c) => response[c] = None
<1>1. c \in Procs /\ c \notin Pools
  BY ProcsAssumption DEF Procs
<1> QED  BY <1>1, ServedByOne DEF HoldInv, Carrying, Served

LEMMA ReceiveConnKept ==
    ASSUME HoldInv, NEW c \in Clients, ReceiveConn(c)
    PROVE  Kept
<1> USE DEF HoldInv, sweep, idle, conns, waiters, At
<1>0. c \in Procs /\ c \notin Pools /\ None \notin Conns
  BY ProcsAssumption DEF Procs
<1>00. PICK d \in Conns : d = response[c]
  BY DEF ReceiveConn
<1>1. /\ pc[c] = "wait" /\ crash = "none"
      /\ hand' = [hand EXCEPT ![c] = d] /\ response' = [response EXCEPT ![c] = None]
      /\ ResetSession(c, d)
      /\ UNCHANGED <<pool, freeConn, closing, owner, inUse, crash>>
  BY <1>00 DEF ReceiveConn
<1>2. hand[c] = None
  BY <1>1, EmptyHanded DEF Holding, CloseLabels, MaybeOpenLabels
<1>3. Found(d, {}, {c}, {}, {}) /\ LentTo(d, c)
  BY <1>00, FoundAnswering
<1>4. /\ pc'[c] \in {"using", "close"} /\ \A y \in Procs \ {c} : pc'[y] = pc[y]
  BY <1>0, <1>1, OneLabel DEF ResetSession
<1>5. hand'[c] = d /\ \A y \in Procs \ {c} : hand'[y] = hand[y]
  BY <1>0, <1>1 DEF TypeInv, TypeOK, LocalsOK
<1>6. response'[c] = None /\ \A b \in Clients \ {c} : response'[b] = response[b]
  BY <1>1 DEF TypeInv, TypeOK, SharedOK
<1>7. Touches(c, d)
  BY <1>0, <1>00, <1>1, <1>2, <1>4, <1>5, <1>6 DEF Touches
<1>8. Found(d, {c}, {}, {}, {})'
  <2>1. HandOf(d)' = HandOf(d) \cup {c}
    BY <1>0, <1>5 DEF HandOf
  <2>2. AnswersOf(d)' = AnswersOf(d) \ {c}
    BY <1>0, <1>00, <1>6 DEF AnswersOf
  <2> QED  BY <1>1, <1>3, <2>1, <2>2, Unmoved DEF Found
<1>9. LentTo(d, c)' \/ Leaving(d)'
  BY <1>0, <1>1, <1>3, <1>4, <1>8 DEF LentTo, Leaving, Using
<1>10. Passes(d)
  BY <1>1, <1>3, <1>9 DEF Passes
<1>11. Carrying(c)'
  BY <1>0, <1>4 DEF Carrying, Holding, CloseLabels
<1> QED  BY <1>0, <1>7, <1>10, <1>11, MoveKept

LEMMA ReceiveErrorKept ==
    ASSUME HoldInv, NEW c \in Clients, ReceiveError(c)
    PROVE  Kept
<1>0. c \in Procs /\ c \notin Pools
  BY ProcsAssumption DEF Procs
<1>1. PICK l \in {"return", "conn"} : Goto(c, l)
  BY DEF ReceiveError, NextAttempt
<1>2. /\ UNCHANGED <<pool, hand, freeConn, closing, owner, inUse>> /\ crash = "none"
      /\ response[c] = Refused /\ response' = [response EXCEPT ![c] = None] /\ pc[c] = "wait"
  BY DEF ReceiveError, sweep, idle, conns, At
<1>3. \A b \in Clients : \/ response'[b] = response[b]
                         \/ {response[b], response'[b]} \cap Conns = {}
  BY <1>2, ProcsAssumption DEF HoldInv, TypeInv, TypeOK, SharedOK
<1>4. hand[c] = None /\ ~Using(c)
  BY <1>2, EmptyHanded DEF Using, Holding, CloseLabels, MaybeOpenLabels
<1> QED  BY <1>0, <1>1, <1>2, <1>3, <1>4, GoesOn

LEMMA WithdrawKept ==
    ASSUME HoldInv, NEW c \in Clients, Withdraw(c)
    PROVE  Kept
<1> USE DEF HoldInv, sweep, idle, conns, waiters, At
<1>0. c \in Procs /\ c \notin Pools /\ None \notin Conns
  BY ProcsAssumption DEF Procs
<1>1. /\ pc[c] = "withdraw" /\ crash = "none"
      /\ response' = [response EXCEPT ![c] = None]
      /\ UNCHANGED <<pool, freeConn, closing, owner, inUse, crash>>
  BY DEF Withdraw
<1>2. hand[c] = None /\ ~Using(c)
  BY <1>1, EmptyHanded DEF Holding, CloseLabels, MaybeOpenLabels, Using
<1>3. response'[c] = None /\ \A b \in Clients \ {c} : response'[b] = response[b]
  BY <1>1 DEF TypeInv, TypeOK, SharedOK
<1>4. CASE response[c] \in Conns
  <2>0. PICK d \in Conns : d = response[c]
    BY <1>4
  <2>1. hand' = [hand EXCEPT ![c] = d] /\ Goto(c, "giveBack")
    BY <1>4, <2>0 DEF Withdraw
  <2>2. Found(d, {}, {c}, {}, {}) /\ LentTo(d, c)
    BY <2>0, FoundAnswering
  <2>3. /\ pc'[c] = "giveBack" /\ \A y \in Procs \ {c} : pc'[y] = pc[y]
    BY <1>0, <2>1, OneLabel
  <2>4. hand'[c] = d /\ \A y \in Procs \ {c} : hand'[y] = hand[y]
    BY <1>0, <2>1, <1>4 DEF TypeInv, TypeOK, LocalsOK
  <2>5. Touches(c, d)
    BY <1>0, <1>1, <1>2, <1>3, <2>0, <2>3, <2>4 DEF Touches
  <2>6. HandOf(d)' = HandOf(d) \cup {c}
    BY <1>0, <2>4 DEF HandOf
  <2>7. AnswersOf(d)' = AnswersOf(d) \ {c}
    BY <1>0, <1>3, <2>0 DEF AnswersOf
  <2>8. Found(d, {c}, {}, {}, {})'
    BY <1>1, <2>2, <2>6, <2>7, Unmoved DEF Found
  <2>9. LentTo(d, c)'
    BY <1>1, <2>2, <2>3, <2>8 DEF LentTo, Using
  <2>10. Passes(d)
    BY <1>1, <2>2, <2>9 DEF Passes
  <2>11. Carrying(c)'
    BY <1>0, <2>3 DEF Carrying, Holding
  <2> QED  BY <1>0, <2>5, <2>10, <2>11, MoveKept
<1>5. CASE response[c] \notin Conns
  <2>1. Goto(c, "return") /\ UNCHANGED hand
    BY <1>5 DEF Withdraw
  <2>2. \A b \in Clients : \/ response'[b] = response[b]
                           \/ {response[b], response'[b]} \cap Conns = {}
    BY <1>0, <1>3, <1>5
  <2> QED  BY <1>0, <1>1, <1>2, <2>1, <2>2, GoesOn
<1> QED  BY <1>4, <1>5
\* putConnectionConnPoolLocked gives d to a client that waits for it, or puts
\* it among p's idle connections.
LEMMA PutPlaces ==
    ASSUME HoldInv, NEW p \in Pools, NEW d \in Conns, PutConnection(p, d),
           UNCHANGED <<pool, closing>>, owner'[d] = p,
           HandOf(d)' = {}, AnswersOf(d) = {}, ShelvesOf(d) = {}, SweepsOf(d) = {}
    PROVE  /\ Shelved(d)' \/ \E b \in Clients : GivenTo(d, b)
           /\ \A c \in Clients : response'[c] = response[c]
                                 \/ {response[c], response'[c]} \cap Conns \subseteq {d}
           /\ \A q \in Pools : freeConn'[q] \ {d} = freeConn[q] \ {d}
           /\ \A e \in Conns \ {d} : inUse'[e] = inUse[e]
<1> USE DEF HoldInv, idle, waiters
<1>0. None \notin Conns
  BY ProcsAssumption
<1>1. CASE HandOver(p, d)
  <2>1. PICK b \in connRequests[p] : response' = [response EXCEPT ![b] = d]
    BY <1>1 DEF HandOver, AnswerRequest
  <2>2. b \in Clients
    BY <2>1 DEF TypeInv, TypeOK, SharedOK
  <2>3. Waiting(b) /\ pool[b] = p /\ response[b] = None
    BY <2>1, <2>2, ServedByOne DEF Served, AsksOf
  <2>4. hand[b] = None
    BY <2>2, <2>3, EmptyHanded DEF Waiting, Holding, CloseLabels, MaybeOpenLabels
  <2>5. response'[b] = d /\ \A e \in Clients \ {b} : response'[e] = response[e]
    BY <2>1, <2>2 DEF TypeInv, TypeOK, SharedOK
  <2>6. inUse'[d] = TRUE /\ \A e \in Conns \ {d} : inUse'[e] = inUse[e]
    BY <1>1 DEF HandOver, TypeInv, TypeOK, SharedOK
  <2>7. UNCHANGED freeConn
    BY <1>1 DEF HandOver
  <2>8. AnswersOf(d)' = {b}
    BY <2>2, <2>5 DEF AnswersOf
  <2>9. Found(d, {}, {b}, {}, {})'
    BY <2>7, <2>8, Unmoved DEF Found
  <2>10. LentTo(d, b)'
    BY <2>3, <2>6, <2>9 DEF LentTo
  <2>11. GivenTo(d, b)
    BY <1>0, <2>3, <2>4, <2>10 DEF GivenTo, Free
  <2> QED  BY <1>0, <2>2, <2>3, <2>5, <2>6, <2>7, <2>11
<1>2. CASE SaveAsIdle(p, d)
  <2>1. UNCHANGED response
    BY <1>2 DEF SaveAsIdle
  <2>2. \A q \in Pools : freeConn'[q] = IF q = p THEN freeConn[q] \cup {d} ELSE freeConn[q]
    BY <1>2 DEF SaveAsIdle, TypeInv, TypeOK, SharedOK
  <2>3. inUse'[d] = FALSE /\ \A e \in Conns \ {d} : inUse'[e] = inUse[e]
    BY <1>2 DEF SaveAsIdle, TypeInv, TypeOK, SharedOK
  <2>4. ShelvesOf(d)' = {p}
    BY <2>2 DEF ShelvesOf
  <2>5. Found(d, {}, {}, {p}, {})'
    BY <2>1, <2>4, Unmoved DEF Found
  <2>6. Shelved(d)'
    BY <2>3, <2>5 DEF Shelved
  <2> QED  BY <2>1, <2>2, <2>3, <2>6
<1> QED  BY <1>1, <1>2 DEF PutConnection

LEMMA PutConnKept ==
    ASSUME HoldInv, NEW c \in Clients, PutConn(c)
    PROVE  Kept
<1> USE DEF HoldInv, sweep, At
<1>0. c \in Procs /\ c \notin Pools
  BY ProcsAssumption DEF Procs
<1>1. PICK p \in Pools, d \in Conns : p = pool[c] /\ d = hand[c]
  BY <1>0 DEF PutConn, TypeInv, Located, Placed, Resting, Holding
<1>2. /\ pc[c] \in {"using", "giveBack"} /\ crash = "none"
      /\ hand' = [hand EXCEPT ![c] = None] /\ Goto(c, "return")
      /\ PutConnection(p, d)
      /\ UNCHANGED <<pool, closing, owner>>
  BY <1>1 DEF PutConn
<1>3. LentTo(d, c) /\ Found(d, {c}, {}, {}, {}) /\ owner[d] = p
  BY <1>0, <1>1, <1>2, FoundInHand DEF Using
<1>4. /\ pc'[c] = "return" /\ \A y \in Procs \ {c} : pc'[y] = pc[y]
  BY <1>0, <1>2, OneLabel
<1>5. hand'[c] = None /\ \A y \in Procs \ {c} : hand'[y] = hand[y]
  BY <1>0, <1>2 DEF TypeInv, TypeOK, LocalsOK
<1>6. HandOf(d)' = {}
  BY <1>0, <1>3, <1>5, ProcsAssumption DEF HandOf, Found
<1>7. /\ Shelved(d)' \/ \E b \in Clients : GivenTo(d, b)
      /\ \A b \in Clients : response'[b] = response[b]
                            \/ {response[b], response'[b]} \cap Conns \subseteq {d}
      /\ \A q \in Pools : freeConn'[q] \ {d} = freeConn[q] \ {d}
      /\ \A e \in Conns \ {d} : inUse'[e] = inUse[e]
  BY <1>2, <1>3, <1>6, PutPlaces DEF Found
<1>8. Touches(c, d)
  BY <1>1, <1>2, <1>4, <1>5, <1>7 DEF Touches
<1>9. Passes(d)
  BY <1>2, <1>3, <1>7 DEF Passes
<1>10. Carrying(c)'
  BY <1>0, <1>4, <1>5 DEF Carrying
<1> QED  BY <1>0, <1>8, <1>9, <1>10, MoveKept

LEMMA PutBadConnKept ==
    ASSUME HoldInv, NEW c \in Clients, PutBadConn(c)
    PROVE  Kept
<1> USE DEF HoldInv, sweep, idle, conns, waiters, At
<1>0. c \in Procs /\ c \notin Pools /\ None \notin Conns
  BY ProcsAssumption DEF Procs
<1>1. PICK d \in Conns : d = hand[c]
  BY <1>0 DEF PutBadConn, TypeInv, Located, Placed, Holding
<1>2. /\ pc[c] = "using" /\ crash = "none" /\ Goto(c, "maybeOpen")
      /\ inUse' = [inUse EXCEPT ![d] = FALSE]
      /\ UNCHANGED <<pool, hand, response, freeConn, closing, owner>>
  BY <1>1 DEF PutBadConn
<1>3. LentTo(d, c) /\ Found(d, {c}, {}, {}, {})
  BY <1>0, <1>1, <1>2, FoundInHand DEF Using
<1>4. /\ pc'[c] = "maybeOpen" /\ \A y \in Procs \ {c} : pc'[y] = pc[y]
  BY <1>0, <1>2, OneLabel
<1>5. \A e \in Conns \ {d} : inUse'[e] = inUse[e]
  BY <1>2 DEF TypeInv, TypeOK, SharedOK
<1>6. Touches(c, d)
  BY <1>1, <1>2, <1>4, <1>5 DEF Touches
<1>7. Found(d, {c}, {}, {}, {})'
  BY <1>2, <1>3, Unmoved DEF Found
<1>8. Leaving(d)'
  BY <1>0, <1>2, <1>3, <1>4, <1>7 DEF LentTo, Leaving, Using
<1>9. Passes(d)
  BY <1>2, <1>3, <1>8 DEF Passes
<1>10. Carrying(c)'
  BY <1>0, <1>4 DEF Carrying, MaybeOpenLabels
<1> QED  BY <1>0, <1>6, <1>9, <1>10, MoveKept

LEMMA UnlockAndCloseKept ==
    ASSUME HoldInv, NEW c \in Clients, UnlockAndClose(c)
    PROVE  Kept
<1>0. c \in Procs /\ c \notin Pools
  BY ProcsAssumption DEF Procs
<1>1. At(c, "discard") /\ Goto(c, "close")
  BY Zenon DEF UnlockAndClose
<1>2. UNCHANGED <<pool, hand, response, freeConn, closing, owner, inUse>>
  BY Zenon DEF UnlockAndClose, sweep, waiters, idle, conns
<1> QED  BY <1>0, <1>1, <1>2, GoesOn DEF At, Using, CloseLabels

LEMMA CloseKept ==
    ASSUME HoldInv, NEW x \in Clients \cup Pools, CloseSteps(x)
    PROVE  Kept
<1> USE DEF HoldInv, sweep, idle, conns, waiters, At
<1>0. x \in Procs /\ (x \in Clients => x \notin Pools) /\ None \notin Conns
  BY ProcsAssumption DEF Procs
<1>1. CASE CloseConn(x)
  <2>1. At(x, "close") /\ Goto(x, "removeDep")
    BY Zenon, <1>1 DEF CloseConn
  <2>2. UNCHANGED <<pool, hand, response, freeConn, closing, owner, inUse>>
    BY Zenon, <1>1 DEF CloseConn
  <2> QED  BY <1>0, <2>1, <2>2, GoesOn DEF Using, CloseLabels
<1>2. CASE RemoveDep(x)
  <2>1. /\ pc[x] = "removeDep" /\ crash = "none" /\ Goto(x, "finalClose")
        /\ UNCHANGED <<pool, hand, response, freeConn, closing, owner, inUse>>
    BY <1>2 DEF RemoveDep
  <2> QED  BY <1>0, <2>1, GoesOn DEF Using, CloseLabels
<1>3. CASE FinalClose(x)
  <2>1. PICK d \in Conns : d = hand[x]
    BY <1>0, <1>3 DEF FinalClose, TypeInv, Located, Placed, Holding, CloseLabels
  <2>2. /\ pc[x] = "finalClose" /\ crash = "none" /\ Goto(x, "maybeOpen")
        /\ owner' = [owner EXCEPT ![d] = None]
        /\ inUse' = [inUse EXCEPT ![d] = FALSE]
        /\ hand' = [hand EXCEPT ![x] = None]
        /\ UNCHANGED <<pool, response, freeConn, closing, crash>>
    BY <1>3, <2>1 DEF FinalClose
  <2>3. Leaving(d) /\ Found(d, {x}, {}, {}, {})
    BY <1>0, <2>1, <2>2, FoundInHand DEF Using
  <2>4. /\ pc'[x] = "maybeOpen" /\ \A y \in Procs \ {x} : pc'[y] = pc[y]
    BY <1>0, <2>2, OneLabel
  <2>5. hand'[x] = None /\ \A y \in Procs \ {x} : hand'[y] = hand[y]
    BY <1>0, <2>2 DEF TypeInv, TypeOK, LocalsOK
  <2>6. owner'[d] = None /\ \A e \in Conns \ {d} : owner'[e] = owner[e] /\ inUse'[e] = inUse[e]
    BY <2>2 DEF TypeInv, TypeOK, SharedOK
  <2>7. Touches(x, d)
    BY <2>1, <2>2, <2>4, <2>5, <2>6 DEF Touches
  <2>8. HandOf(d)' = HandOf(d) \ {x}
    BY <1>0, <2>5 DEF HandOf
  <2>9. Absent(d)'
    BY <2>2, <2>3, <2>6, <2>8, Unmoved DEF Absent, Found
  <2>10. Leaves(d)
    BY <2>3, <2>9 DEF Leaves
  <2>11. Carrying(x)'
    BY <1>0, <2>4, <2>5 DEF Carrying
  <2> QED  BY <1>0, <2>7, <2>10, <2>11, MoveKept
<1> QED  BY <1>1, <1>2, <1>3 DEF CloseSteps

\* A step of x at the end of which everybody is where he was.
LEMMA NobodyMoves ==
    ASSUME HoldInv, UNCHANGED <<pc, pool, hand, response, freeConn, closing, owner, inUse>>,
           crash # "none" => crash' # "none"
    PROVE  Kept
<1>1. \A d \in Conns : Still(d)
  BY Unmoved DEF Still, Using
<1>2. \A y \in Procs : Carrying(y)'
  BY DEF HoldInv, Carrying
<1> QED  BY <1>1, <1>2 DEF Kept, Effect, Stays, ClientsStay

\* All of maybeOpenNewConnections but the eviction.
LEMMA MaybeOpenMoves ==
    ASSUME NEW x \in Procs, MaybeOpen(x), ~CloseOldest(x)
    PROVE  /\ UNCHANGED <<pool, hand, response, freeConn, closing, owner, inUse>>
           /\ crash = "none" /\ pc[x] \in MaybeOpenLabels
           /\ \/ UNCHANGED pc
              \/ \E l \in MaybeOpenLabels \cup {Resume(x)} : Goto(x, l)
<1> USE DEF sweep, idle, conns, waiters, control, At, MaybeOpenLabels
<1>1. CASE FindIdle(x)
  BY <1>1 DEF FindIdle
<1>2. CASE RemoveOldest(x)
  <2>1. UNCHANGED <<pool, hand, response, freeConn, closing, owner, inUse>>
    BY Zenon, <1>2 DEF RemoveOldest
  <2>2. crash = "none" /\ pc[x] = "oldest"
    BY Zenon, <1>2 DEF RemoveOldest
  <2>3. UNCHANGED pc \/ Goto(x, "evict")
    BY Zenon, <1>2 DEF RemoveOldest
  <2> QED  BY <2>1, <2>2, <2>3
<1>3. CASE CountNewConnections(x)
  BY <1>3 DEF CountNewConnections
<1>4. CASE VisitPool(x)
  BY <1>4 DEF VisitPool
<1>5. CASE RequestsMissing(x)
  <2>1. UNCHANGED <<pc, pool, hand, response, freeConn, closing, owner, inUse>>
    BY Zenon, <1>5 DEF RequestsMissing
  <2>2. crash = "none" /\ pc[x] = "visit"
    BY Zenon, <1>5 DEF RequestsMissing
  <2> QED  BY <2>1, <2>2
<1>6. CASE ReserveSlot(x)
  BY <1>6 DEF ReserveSlot
<1>7. CASE SendCommand(x)
  BY <1>7 DEF SendCommand
<1>8. CASE EndMaybeOpen(x)
  BY <1>8 DEF EndMaybeOpen
<1> QED  BY <1>1, <1>2, <1>3, <1>4, <1>5, <1>6, <1>7, <1>8 DEF MaybeOpen

\* The eviction takes a connection from the shelf and panics.
LEMMA CloseOldestKept ==
    ASSUME HoldInv, NEW x \in Procs, CloseOldest(x)
    PROVE  Kept
<1> USE DEF HoldInv
<1>1. PICK d, p : d = tally.victim /\ p = owner[d]
  OBVIOUS
<1>2. UNCHANGED <<pc, pool, hand, response, closing, owner, inUse>>
  BY Zenon DEF CloseOldest, control, sweep, waiters, conns
<1>3. crash = "none"
  BY Zenon DEF CloseOldest, At
<1>4. crash' # "none"
  <2>1. \/ crash' = "lru does not contain connection"
        \/ crash' = "evicted connection is not free"
    BY Zenon DEF CloseOldest
  <2> QED  BY Zenon, <2>1
<1>5. freeConn' = [freeConn EXCEPT ![p] = @ \ {d}]
  BY Zenon, <1>1 DEF CloseOldest
<1>6. \A q \in Pools : freeConn'[q] = IF q = p THEN freeConn[q] \ {d} ELSE freeConn[q]
  BY <1>5 DEF TypeInv, TypeOK, SharedOK
<1>7. CASE p \in Pools /\ d \in freeConn[p]
  <2>1. d \in Conns
    BY <1>7 DEF TypeInv, TypeOK, SharedOK
  <2>2. Shelved(d)
    BY <1>7, <2>1, FoundIdle
  <2>3. \A q \in Pools : freeConn'[q] \ {d} = freeConn[q] \ {d}
    BY <1>6
  <2>4. Touches(x, d)
    BY <1>2, <1>3, <2>1, <2>3 DEF Touches
  <2>5. ShelvesOf(d)' = ShelvesOf(d) \ {p}
    BY <1>6 DEF ShelvesOf
  <2>6. Found(d, {}, {}, {}, {})'
    BY <1>1, <1>2, <2>2, <2>5, Unmoved DEF Shelved, Found
  <2>7. Lends(d)
    BY <1>2, <1>4, <2>2, <2>6 DEF Lends, Shelved, Leaving
  <2>8. Carrying(x)'
    BY <1>2 DEF Carrying
  <2> QED  BY <2>4, <2>7, <2>8, MoveKept
<1>8. CASE ~(p \in Pools /\ d \in freeConn[p])
  <2>1. \A q \in Pools : freeConn'[q] = freeConn[q]
    BY <1>6, <1>8
  <2>2. UNCHANGED freeConn
    BY <1>5, <2>1 DEF TypeInv, TypeOK, SharedOK
  <2> QED  BY <1>2, <1>3, <2>2, NobodyMoves
<1> QED  BY <1>7, <1>8

LEMMA MaybeOpenKept ==
    ASSUME HoldInv, NEW x \in Procs, MaybeOpen(x)
    PROVE  Kept
<1>1. CASE CloseOldest(x)
  BY <1>1, CloseOldestKept
<1>2. CASE ~CloseOldest(x) /\ UNCHANGED pc
  BY <1>2, MaybeOpenMoves, NobodyMoves
<1>3. CASE ~CloseOldest(x) /\ pc' # pc
  <2>1. PICK l \in MaybeOpenLabels \cup {Resume(x)} : Goto(x, l)
    BY <1>3, MaybeOpenMoves
  <2>2. /\ UNCHANGED <<pool, hand, response, freeConn, closing, owner, inUse>>
        /\ crash = "none" /\ pc[x] \in MaybeOpenLabels
    BY <1>3, MaybeOpenMoves
  <2>3. ~Using(x)
    BY <2>2 DEF Using, MaybeOpenLabels
  <2>4. (x \in Clients => x \notin Pools) /\ Opener \notin Clients \cup Pools
    BY ProcsAssumption
  <2>5. hand[x] # None => x \in Clients
    BY <2>2 DEF HoldInv, Carrying, MaybeOpenLabels, CloseLabels
  <2>6. /\ Resume(x) \in {"discard", "return", "conn", "sweep", "unlock"}
        /\ x \in Clients /\ hand[x] # None => Resume(x) = "discard"
    BY <2>4 DEF Resume, NextAttempt, Procs
  <2>7. l \notin {"using", "giveBack", "idle", "sleep"}
    BY <2>1, <2>6 DEF MaybeOpenLabels
  <2>8. \/ hand[x] = None
        \/ x \in Clients /\ l \in {"discard"} \cup MaybeOpenLabels
    BY <2>1, <2>5, <2>6
  <2> QED  BY <2>1, <2>2, <2>3, <2>7, <2>8, GoesOn
<1> QED  BY <1>1, <1>2, <1>3

\* The opener has no connection in hand, and no request of its own.
LEMMA OpenerHasNone ==
    ASSUME HoldInv
    PROVE  /\ Opener \in Procs /\ Opener \notin Clients \cup Pools
           /\ hand[Opener] = None /\ ~Using(Opener)
BY ProcsAssumption DEF HoldInv, Carrying, Using, Procs

LEMMA DialKept ==
    ASSUME HoldInv, Dial
    PROVE  Kept
<1> USE DEF HoldInv, sweep, conns, At
<1>0. Opener \in Procs /\ Opener \notin Clients \cup Pools /\ hand[Opener] = None
  BY OpenerHasNone
<1>1. PICK p \in Pools : p = pool[Opener]
  BY <1>0 DEF Dial, TypeInv, Located, Placed, Resting
<1>2. PICK d \in Conns : /\ owner[d] = None
                         /\ owner' = [owner EXCEPT ![d] = p]
                         /\ PutConnection(p, d)
  BY <1>1 DEF Dial
<1>3. /\ crash = "none" /\ Goto(Opener, "listen")
      /\ UNCHANGED <<pool, hand, closing>>
  BY DEF Dial
<1>4. Absent(d)
  BY <1>2, FoundNowhere
<1>5. /\ pc'[Opener] = "listen" /\ \A y \in Procs \ {Opener} : pc'[y] = pc[y]
  BY <1>0, <1>3, OneLabel
<1>6. owner'[d] = p /\ \A e \in Conns \ {d} : owner'[e] = owner[e]
  BY <1>2 DEF TypeInv, TypeOK, SharedOK
<1>7. /\ Shelved(d)' \/ \E b \in Clients : GivenTo(d, b)
      /\ \A b \in Clients : response'[b] = response[b]
                            \/ {response[b], response'[b]} \cap Conns \subseteq {d}
      /\ \A q \in Pools : freeConn'[q] \ {d} = freeConn[q] \ {d}
      /\ \A e \in Conns \ {d} : inUse'[e] = inUse[e]
  BY <1>2, <1>3, <1>4, <1>6, PutPlaces, Unmoved DEF Absent, Found
<1>8. Touches(Opener, d)
  BY <1>0, <1>2, <1>3, <1>5, <1>6, <1>7 DEF Touches
<1>9. Opens(d)
  BY <1>4, <1>7 DEF Opens
<1>10. Carrying(Opener)'
  BY <1>0, <1>3 DEF Carrying
<1> QED  BY <1>0, <1>8, <1>9, <1>10, MoveKept

LEMMA OpenerKept ==
    ASSUME HoldInv, OpenerStep
    PROVE  Kept
<1> USE OpenerHasNone DEF HoldInv, sweep, idle, conns, waiters, At
<1>1. ASSUME NEW l \in {"stopped", "dial", "refused"}, Goto(Opener, l),
             OpenerStops \/ StatsFacade \/ DialFails
      PROVE  Kept
  <2>1. UNCHANGED <<pool, hand, response, freeConn, closing, owner, inUse>> /\ crash = "none"
    BY <1>1 DEF OpenerStops, StatsFacade, DialFails
  <2> QED  BY <1>1, <2>1, GoesOn
<1>2. CASE OpenerStops \/ StatsFacade \/ DialFails
  BY <1>1, <1>2 DEF OpenerStops, StatsFacade, DialFails
<1>3. CASE TakeCommand
  <2>1. /\ UNCHANGED <<hand, response, freeConn, closing, owner, inUse>> /\ crash = "none"
        /\ Goto(Opener, "stats")
    BY <1>3 DEF TakeCommand
  <2>2. \A y \in Procs \ {Opener} : pool'[y] = pool[y]
    BY <1>3 DEF TakeCommand, TypeInv, TypeOK, LocalsOK
  <2>3. \A y \in Procs \ {Opener} : pc'[y] = pc[y]
    BY <2>1, OneLabel
  <2>4. \A d \in Conns : Still(d)
    BY <2>1, <2>2, <2>3, AllStill DEF Using
  <2>5. ClientsStay
    BY <2>2, ProcsAssumption DEF ClientsStay, Procs
  <2>6. \A y \in Procs : Carrying(y)'
    BY <2>1, <2>2, <2>3 DEF Carrying
  <2> QED  BY <2>4, <2>5, <2>6 DEF Kept, Effect, Stays
<1>4. CASE StatsPool
  BY <1>4, NobodyMoves DEF StatsPool, control
<1>5. CASE Dial
  BY <1>5, DialKept
<1>6. CASE ReportRefusal
  <2>1. /\ UNCHANGED <<pool, hand, freeConn, closing, owner, inUse>> /\ crash = "none"
        /\ Goto(Opener, "maybeOpen")
    BY <1>6 DEF ReportRefusal
  <2>2. \A b \in Clients : \/ response'[b] = response[b]
                           \/ {response[b], response'[b]} \cap Conns = {}
    <3>1. CASE UNCHANGED response
      BY <3>1
    <3>2. CASE AnswerRequest(pool[Opener], Refused)
      <4>1. pool[Opener] \in Pools
        BY <1>6 DEF ReportRefusal, TypeInv, Located, Placed, Resting
      <4>2. PICK c \in connRequests[pool[Opener]] : response' = [response EXCEPT ![c] = Refused]
        BY <3>2 DEF AnswerRequest
      <4>3. c \in Clients
        BY <4>1, <4>2 DEF TypeInv, TypeOK, SharedOK
      <4>4. response[c] = None
        BY <4>1, <4>2, <4>3, ServedByOne DEF Served, AsksOf
      <4>5. \A b \in Clients : response'[b] = IF b = c THEN Refused ELSE response[b]
        BY <4>2, <4>3 DEF TypeInv, TypeOK, SharedOK
      <4> QED  BY <4>4, <4>5, ProcsAssumption
    <3> QED  BY <1>6, <3>1, <3>2 DEF ReportRefusal
  <2> QED  BY <2>1, <2>2, GoesOn
<1>7. CASE DeferredUnlock
  <2>1. At(Opener, "unlock") /\ Goto(Opener, "listen")
    BY Zenon, <1>7 DEF DeferredUnlock
  <2>2. UNCHANGED <<pool, hand, response, freeConn, closing, owner, inUse>>
    BY Zenon, <1>7 DEF DeferredUnlock
  <2> QED  BY <2>1, <2>2, GoesOn
<1>8. CASE MaybeOpen(Opener)
  BY <1>8, MaybeOpenKept
<1> QED  BY <1>2, <1>3, <1>4, <1>5, <1>6, <1>7, <1>8 DEF OpenerStep

LEMMA CleanerKept ==
    ASSUME HoldInv, NEW p \in Pools, CleanerStep(p)
    PROVE  Kept
<1> USE DEF HoldInv, sweep, idle, conns, waiters, At
<1>0. p \in Procs /\ p \notin Clients /\ None \notin Conns
  BY ProcsAssumption DEF Procs
<1>1. CASE CollectExpired(p)
  <2>1. PICK D \in SUBSET freeConn[p] : /\ closing' = [closing EXCEPT ![p] = D]
                                        /\ freeConn' = [freeConn EXCEPT ![p] = @ \ D]
    BY <1>1 DEF CollectExpired
  <2>2. /\ pc[p] = "sleep" /\ crash = "none" /\ Goto(p, "sweep")
        /\ UNCHANGED <<pool, hand, response, owner, inUse>>
    BY <1>1 DEF CollectExpired
  <2>3. /\ pc'[p] = "sweep" /\ \A y \in Procs \ {p} : pc'[y] = pc[y]
    BY <1>0, <2>2, OneLabel
  <2>4. closing[p] = {} /\ hand[p] = None
    BY <1>0, <2>2 DEF Carrying, CloseLabels
  <2>5. /\ \A q \in Pools : closing'[q] = IF q = p THEN D ELSE closing[q]
        /\ \A q \in Pools : freeConn'[q] = IF q = p THEN freeConn[q] \ D ELSE freeConn[q]
    BY <2>1 DEF TypeInv, TypeOK, LocalsOK, SharedOK
  <2>6. D \in SUBSET Conns
    BY <2>1 DEF TypeInv, TypeOK, SharedOK
  <2>7. ASSUME NEW d \in D
        PROVE  Shelved(d) /\ owner[d] = p /\ Leaving(d)' /\ owner'[d] = p
    <3>1. Shelved(d) /\ owner[d] = p
      BY <2>1, <2>6, FoundIdle
    <3>2. ShelvesOf(d)' = ShelvesOf(d) \ {p} /\ SweepsOf(d)' = SweepsOf(d) \cup {p}
      BY <2>5 DEF ShelvesOf, SweepsOf
    <3>3. Found(d, {}, {}, {}, {p})'
      BY <2>2, <3>1, <3>2, Unmoved DEF Shelved, Found
    <3> QED  BY <2>2, <3>1, <3>3 DEF Leaving
  <2>8. ASSUME NEW d \in Conns \ D PROVE Still(d)
    <3>1. ShelvesOf(d)' = ShelvesOf(d) /\ SweepsOf(d)' = SweepsOf(d)
      BY <2>4, <2>5 DEF ShelvesOf, SweepsOf
    <3>2. \A y \in HandOf(d) : Using(y)' <=> Using(y)
      BY <1>0, <2>3, <2>4 DEF HandOf, Using
    <3> QED  BY <2>2, <3>1, <3>2, Unmoved DEF Still
  <2>9. Effect
    BY <2>2, <2>6, <2>7, <2>8 DEF Effect, Retires, ClientsStay
  <2>10. Carrying(p)'
    BY <1>0, <2>2, <2>3, <2>4 DEF Carrying
  <2>11. \A y \in Procs : Carrying(y)'
    BY <1>0, <2>2, <2>3, <2>5, <2>10, CarryFrame
  <2> QED  BY <2>9, <2>11 DEF Kept
<1>2. CASE CloseNextExpired(p)
  <2>1. PICK d \in closing[p] : /\ hand' = [hand EXCEPT ![p] = d]
                                /\ closing' = [closing EXCEPT ![p] = @ \ {d}]
    BY <1>2 DEF CloseNextExpired
  <2>2. /\ pc[p] = "sweep" /\ crash = "none" /\ Goto(p, "close")
        /\ UNCHANGED <<pool, response, freeConn, owner, inUse>>
    BY <1>2 DEF CloseNextExpired
  <2>3. d \in Conns
    BY <2>1 DEF TypeInv, TypeOK, LocalsOK
  <2>4. Found(d, {}, {}, {}, {p}) /\ owner[d] = p /\ Leaving(d)
    BY <2>1, <2>3, FoundSwept
  <2>5. /\ pc'[p] = "close" /\ \A y \in Procs \ {p} : pc'[y] = pc[y]
    BY <1>0, <2>2, OneLabel
  <2>6. hand[p] = None /\ pool[p] = p
    BY <1>0, <2>2 DEF Carrying, CloseLabels, TypeInv, Located, Placed
  <2>7. hand'[p] = d /\ \A y \in Procs \ {p} : hand'[y] = hand[y]
    BY <1>0, <2>1 DEF TypeInv, TypeOK, LocalsOK
  <2>8. \A q \in Pools : closing'[q] = IF q = p THEN closing[q] \ {d} ELSE closing[q]
    BY <2>1 DEF TypeInv, TypeOK, LocalsOK
  <2>9. Touches(p, d)
    BY <2>2, <2>3, <2>5, <2>6, <2>7, <2>8 DEF Touches
  <2>10. HandOf(d)' = HandOf(d) \cup {p} /\ SweepsOf(d)' = SweepsOf(d) \ {p}
    BY <1>0, <2>7, <2>8 DEF HandOf, SweepsOf
  <2>11. Found(d, {p}, {}, {}, {})'
    BY <2>2, <2>4, <2>10, Unmoved DEF Found
  <2>12. Leaving(d)'
    BY <1>0, <2>2, <2>4, <2>6, <2>11 DEF Leaving, Using
  <2>13. Leaves(d)
    BY <2>2, <2>4, <2>12 DEF Leaves
  <2>14. Carrying(p)'
    BY <1>0, <2>5 DEF Carrying, CloseLabels
  <2> QED  BY <1>0, <2>9, <2>13, <2>14, MoveKept
<1>3. CASE SweepEnds(p)
  <2>1. /\ pc[p] = "sweep" /\ crash = "none" /\ Goto(p, "sleep") /\ closing[p] = {}
        /\ UNCHANGED <<pool, hand, response, freeConn, closing, owner, inUse>>
    BY <1>3 DEF SweepEnds
  <2>2. hand[p] = None /\ ~Using(p)
    BY <1>0, <2>1 DEF Carrying, CloseLabels, Using
  <2> QED  BY <1>0, <2>1, <2>2, GoesOn
<1>4. CASE CloseSteps(p)
  BY <1>4, CloseKept
<1>5. CASE MaybeOpen(p)
  BY <1>0, <1>5, MaybeOpenKept
<1> QED  BY <1>1, <1>2, <1>3, <1>4, <1>5 DEF CleanerStep

LEMMA HoldInit == Init => HoldInv
<1> SUFFICES ASSUME Init PROVE HoldInv
  OBVIOUS
<1>1. TypeInv
  BY TypeInit
<1>2. RequestOrAnswer
  BY ProcsAssumption DEF Init, RequestOrAnswer, Procs
<1>3. \A x \in Procs : Carrying(x)
  BY ProcsAssumption DEF Init, Carrying, Procs
<1>4. \A d \in Conns : Sound(d)
  BY ProcsAssumption
     DEF Init, Sound, Absent, Found, HandOf, AnswersOf, ShelvesOf, SweepsOf
<1> QED  BY <1>1, <1>2, <1>3, <1>4 DEF HoldInv

LEMMA NextKept == HoldInv /\ [Next]_vars => Kept
<1> SUFFICES ASSUME HoldInv, [Next]_vars PROVE Kept
  OBVIOUS
<1>1. ASSUME NEW c \in Clients, StartOperation(c) \/ ClientStep(c)
      PROVE  Kept
  <2>1. c \in Procs
    BY DEF Procs
  <2>2. CASE StartOperation(c) \/ EndOperation(c)
    BY <2>2, TurnKept
  <2>3. CASE BorrowSteps(c)
    BY <2>3, BorrowGoesOn, TakeFreeConnKept, ConnectKept, ReceiveConnKept, ReceiveErrorKept,
       WithdrawKept DEF BorrowSteps
  <2>4. CASE ReturnSteps(c)
    BY <2>4, PutConnKept, PutBadConnKept, UnlockAndCloseKept DEF ReturnSteps
  <2>5. CASE CloseSteps(c) \/ MaybeOpen(c)
    BY <2>1, <2>5, CloseKept, MaybeOpenKept
  <2> QED  BY <1>1, <2>2, <2>3, <2>4, <2>5 DEF ClientStep
<1>2. ASSUME NEW p \in Pools, CleanerStep(p) PROVE Kept
  BY <1>2, CleanerKept
<1>3. CASE OpenerStep
  BY <1>3, OpenerKept
<1>4. CASE CloseFacade \/ CancelContext
  BY <1>4, NobodyMoves DEF CloseFacade, CancelContext, control, sweep, waiters, idle, conns
<1>5. CASE UNCHANGED vars
  BY <1>5, NobodyMoves DEF vars, control, sweep, waiters, idle, conns
<1> QED  BY <1>1, <1>2, <1>3, <1>4, <1>5 DEF Next

LEMMA HoldStep == HoldInv /\ [Next]_vars => HoldInv'
<1> SUFFICES ASSUME HoldInv, [Next]_vars PROVE HoldInv'
  OBVIOUS
<1>1. TypeInv' /\ RequestOrAnswer'
  BY RequestStep DEF HoldInv, ReqInv
<1>2. \A x \in Procs : Carrying(x)'
  BY NextKept DEF Kept
<1>3. \A d \in Conns : Sound(d)'
  BY NextKept, EffectSound DEF Kept, HoldInv
<1> QED  BY <1>1, <1>2, <1>3 DEF HoldInv

LEMMA HoldAlways == Spec => []HoldInv
BY HoldInit, HoldStep, PTL DEF Spec

-----------------------------------------------------------------------------
(* What follows for the invariants of ConnPool *)

LEMMA SoundIsOne ==
    ASSUME crash = "none", NEW d \in Conns, Sound(d)
    PROVE  /\ Cardinality(HandOf(d)) + Cardinality(AnswersOf(d))
              + Cardinality(ShelvesOf(d)) + Cardinality(SweepsOf(d))
                = (IF d \in LiveConns THEN 1 ELSE 0)
           /\ \A x \in HandOf(d) \cup AnswersOf(d) : pool[x] = owner[d]
           /\ \A p \in ShelvesOf(d) \cup SweepsOf(d) : p = owner[d]
<1> DEFINE Total(H, A, S, W) == Cardinality(H) + Cardinality(A) + Cardinality(S) + Cardinality(W)
           Count == Total(HandOf(d), AnswersOf(d), ShelvesOf(d), SweepsOf(d))
<1>1. Cardinality({}) = 0 /\ \A v : Cardinality({v}) = 1
  BY FS_EmptySet, FS_Singleton
<1>2. Total({}, {}, {}, {}) = 0
  BY <1>1
<1>3. ASSUME NEW v
      PROVE  /\ Total({v}, {}, {}, {}) = 1 /\ Total({}, {v}, {}, {}) = 1
             /\ Total({}, {}, {v}, {}) = 1 /\ Total({}, {}, {}, {v}) = 1
  <2>1. Cardinality({v}) = 1 /\ Cardinality({}) = 0
    BY <1>1
  <2> QED  BY <2>1
<1> HIDE DEF Total
<1>4. (d \in LiveConns <=> owner[d] # None) /\ None \notin Pools
  BY ProcsAssumption DEF LiveConns
<1>5. Count = IF d \in LiveConns THEN 1 ELSE 0
  <2>1. CASE Absent(d)
    BY <1>2, <1>4, <2>1 DEF Absent, Found
  <2>2. CASE Shelved(d)
    BY <1>3, <1>4, <2>2 DEF Shelved, Found
  <2>3. ASSUME NEW c \in Clients, LentTo(d, c)
        PROVE  Count = IF d \in LiveConns THEN 1 ELSE 0
    BY <1>3, <1>4, <2>3 DEF LentTo, Found
  <2>4. CASE Leaving(d)
    <3>1. \/ \E x \in Procs : Found(d, {x}, {}, {}, {})
          \/ Found(d, {}, {}, {}, {owner[d]})
      BY <2>4 DEF Leaving
    <3>2. Count = 1
      BY <1>3, <3>1 DEF Found
    <3> QED  BY <1>4, <2>4, <3>2 DEF Leaving
  <2> QED  BY <2>1, <2>2, <2>3, <2>4 DEF Sound
<1>6. \A x \in HandOf(d) \cup AnswersOf(d) : pool[x] = owner[d]
  BY DEF Sound, Absent, Shelved, LentTo, Leaving, Found
<1>7. \A p \in ShelvesOf(d) \cup SweepsOf(d) : p = owner[d]
  BY DEF Sound, Absent, Shelved, LentTo, Leaving, Found
<1> QED  BY <1>5, <1>6, <1>7 DEF Count, Total

\* A connection of a pool is in exactly one place: with one goroutine, in one
\* channel, among the idle connections or in a sweep of its own pool.  No
\* connection is lent twice, and none is lost.
THEOREM OneHolderAlways == Spec => []OneHolder
<1>1. HoldInv => OneHolder
  BY SoundIsOne DEF HoldInv, OneHolder
<1> QED  BY <1>1, HoldAlways, PTL

\* inUse is true as long as a client may use the connection, and false while
\* it is idle: putConn never panics for a connection that was never out.
THEOREM BorrowedIsInUse == Spec => []InUseIsBorrowed
<1>1. ASSUME HoldInv, NEW d \in LiveConns
      PROVE  /\ d \in UNION {freeConn[p] : p \in Pools} => ~inUse[d]
             /\ AnswersOf(d) # {} => inUse[d]
             /\ \A c \in HandOf(d) \cap Clients : pc[c] \in {"using", "giveBack"} => inUse[d]
  <2>1. d \in Conns /\ Sound(d)
    BY <1>1 DEF HoldInv, LiveConns
  <2>2. \A p \in Pools : d \in freeConn[p] => Shelved(d)
    BY <2>1, FoundIdle
  <2>3. \A c \in Clients : response[c] = d => LentTo(d, c)
    BY <2>1, FoundAnswering
  <2>4. \A c \in HandOf(d) \cap Clients : Using(c) => LentTo(d, c)
    BY <2>1, FoundInHand DEF HandOf
  <2> QED  BY <2>2, <2>3, <2>4 DEF Shelved, LentTo, AnswersOf, Using
<1>2. HoldInv => InUseIsBorrowed
  BY <1>1 DEF InUseIsBorrowed
<1> QED  BY <1>2, HoldAlways, PTL

-----------------------------------------------------------------------------
(* ConnPool implements ConnLedger *)

\* What ConnLedger calls the holder of d.
HolderKnown(d) ==
    /\ Absent(d) => HolderOf(d) = None
    /\ Shelved(d) => HolderOf(d) = "idle"
    /\ \A c \in Clients : LentTo(d, c) => HolderOf(d) = c
    /\ Leaving(d) => HolderOf(d) = "closing"

LEMMA HolderIs == \A d \in Conns : HolderKnown(d)
<1> SUFFICES ASSUME NEW d \in Conns PROVE HolderKnown(d)
  OBVIOUS
<1> DEFINE users == {c \in Clients : response[c] = d \/ (hand[c] = d /\ pc[c] \in {"using", "giveBack"})}
<1>1. HolderOf(d) = IF owner[d] = None THEN None
                    ELSE IF d \in freeConn[owner[d]] THEN "idle"
                    ELSE IF users # {} THEN CHOOSE c \in users : TRUE ELSE "closing"
  BY DEF HolderOf
<1>2. \A c \in users : c \in AnswersOf(d) \/ (c \in HandOf(d) /\ Using(c))
  BY DEF AnswersOf, HandOf, Using, Procs
<1>3. None \notin Pools
  BY ProcsAssumption
<1>4. Absent(d) => HolderOf(d) = None
  BY <1>1 DEF Absent
<1>5. Shelved(d) => HolderOf(d) = "idle"
  BY <1>1, <1>3 DEF Shelved, Found, ShelvesOf
<1>6. ASSUME NEW c \in Clients, LentTo(d, c) PROVE HolderOf(d) = c
  <2>1. owner[d] \in Pools /\ d \notin freeConn[owner[d]]
    BY <1>6 DEF LentTo, Found, ShelvesOf
  <2>2. c \in users
    BY <1>6 DEF LentTo, Found, AnswersOf, HandOf, Using
  <2>3. users \subseteq {c}
    BY <1>2, <1>6 DEF LentTo, Found
  <2>4. users = {c}
    BY <2>2, <2>3
  <2> HIDE DEF users
  <2> QED  BY <1>1, <1>3, <2>1, <2>4
<1>7. ASSUME Leaving(d) PROVE HolderOf(d) = "closing"
  <2>1. owner[d] \in Pools /\ d \notin freeConn[owner[d]]
    BY <1>7 DEF Leaving, Found, ShelvesOf
  <2>2. users = {}
    BY <1>2, <1>7 DEF Leaving, Found
  <2> HIDE DEF users
  <2> QED  BY <1>1, <1>3, <2>1, <2>2
<1> QED  BY <1>4, <1>5, <1>6, <1>7 DEF HolderKnown

LEMMA HolderIsNext == (\A d \in Conns : HolderKnown(d))'
BY HolderIs, PTL

\* What a step does to the holder of d, in the words of ConnLedger.
LEMMA HolderMoves ==
    ASSUME NEW d \in Conns
    PROVE  /\ Absent(d)' => HolderOf(d)' = None
           /\ Shelved(d)' => HolderOf(d)' = "idle"
           /\ \A c \in Clients : LentTo(d, c)' => HolderOf(d)' = c
           /\ Leaving(d)' => HolderOf(d)' = "closing"
           /\ Sound(d) /\ Still(d) => HolderOf(d)' = HolderOf(d) /\ owner'[d] = owner[d]
<1>1. HolderKnown(d) /\ HolderKnown(d)'
  BY HolderIs, HolderIsNext
<1>2. Sound(d) /\ Still(d) => HolderOf(d)' = HolderOf(d)
  BY <1>1, StillPlaces DEF Sound, HolderKnown
<1> QED  BY <1>1, <1>2 DEF HolderKnown, Still

LEMMA FreeHoldsNothing ==
    ASSUME NEW c \in Clients, Free(c), NEW d \in Conns, Sound(d)
    PROVE  HolderOf(d) # c
<1>1. ~LentTo(d, c)
  BY ProcsAssumption DEF Free, LentTo, Found, HandOf, AnswersOf
<1>2. c # None /\ c # "idle" /\ c # "closing"
  BY ProcsAssumption, LedgerAssumption
<1> QED  BY <1>1, <1>2, HolderIs DEF HolderKnown, Sound

LEMMA LedgerMove ==
    ASSUME \A d \in Conns : Sound(d), NEW d \in Conns, \A e \in Conns \ {d} : Still(e)
    PROVE  /\ [e \in Conns |-> HolderOf(e)]'
                 = [[e \in Conns |-> HolderOf(e)] EXCEPT ![d] = HolderOf(d)']
           /\ owner \in [Conns -> Pools \cup {None}] /\ owner' \in [Conns -> Pools \cup {None}]
                 => owner' = [owner EXCEPT ![d] = owner'[d]]
<1>1. \A e \in Conns \ {d} : HolderOf(e)' = HolderOf(e) /\ owner'[e] = owner[e]
  BY HolderMoves
<1> QED  BY <1>1

\* Every step of the pools is a step of the ledger, or none.
LEMMA LedgerStep ==
    ASSUME HoldInv, HoldInv', Effect
    PROVE  [Ledger!Next]_(Ledger!ledger)
<1> DEFINE H == [e \in Conns |-> HolderOf(e)]
           A == [b \in Clients |-> pool[b]]
<1>0. /\ \A d \in Conns : Sound(d)
      /\ owner \in [Conns -> Pools \cup {None}] /\ owner' \in [Conns -> Pools \cup {None}]
  BY DEF HoldInv, TypeInv, TypeOK, SharedOK
<1>1. ASSUME \A d \in Conns : Still(d) PROVE H' = H /\ owner' = owner
  <2>1. \A d \in Conns : HolderOf(d)' = HolderOf(d) /\ owner'[d] = owner[d]
    BY <1>0, <1>1, HolderMoves
  <2> QED  BY <1>0, <2>1
<1>2. ClientsStay => A' = A
  BY DEF ClientsStay
<1>3. ASSUME NEW c \in Clients, Free(c) PROVE ~Ledger!Holds(c)
  <2>1. \A d \in Conns : HolderOf(d) # c
    BY <1>0, <1>3, FreeHoldsNothing
  <2> QED  BY <2>1 DEF Ledger!Holds
<1>4. CASE Stays
  BY <1>1, <1>2, <1>4 DEF Stays, Ledger!ledger
<1>5. CASE \E c \in Clients : Turns(c)
  <2>1. PICK c \in Clients : Turns(c)
    BY <1>5
  <2>2. H' = H /\ owner' = owner /\ ~Ledger!Holds(c)
    BY <1>1, <1>3, <2>1 DEF Turns
  <2>3. A' = [A EXCEPT ![c] = pool'[c]]
    BY <2>1 DEF Turns
  <2>4. CASE pool[c] = None /\ pool'[c] \in Pools
    BY <2>2, <2>3, <2>4 DEF Ledger!Next, Ledger!Begin
  <2>5. CASE pool[c] # None /\ pool'[c] = None
    BY <2>2, <2>3, <2>5 DEF Ledger!Next, Ledger!End
  <2> QED  BY <2>1, <2>4, <2>5 DEF Turns
<1>6. CASE \E d \in Conns : Moves(d)
  <2>1. PICK d \in Conns : Moves(d)
    BY <1>6
  <2>2. /\ A' = A
        /\ H' = [H EXCEPT ![d] = HolderOf(d)']
        /\ owner' = [owner EXCEPT ![d] = owner'[d]]
    BY <1>0, <1>2, <2>1, LedgerMove DEF Moves
  <2>3. HolderKnown(d)
    BY HolderIs
  <2>4. ASSUME NEW c \in Clients, GivenTo(d, c)
        PROVE  Ledger!Eligible(c, owner'[d]) /\ HolderOf(d)' = c
    <3>1. pool[c] = owner'[d]
      BY <2>4 DEF GivenTo, LentTo
    <3>2. HolderOf(d)' = c
      BY <2>4, HolderMoves DEF GivenTo
    <3> QED  BY <1>3, <2>4, <3>1, <3>2 DEF GivenTo, Ledger!Eligible
  <2>5. CASE Opens(d)
    <3>1. owner[d] = None /\ owner'[d] \in Pools
      BY <2>5 DEF Opens, Absent, Shelved, GivenTo, LentTo
    <3>2. Ledger!Open(d, owner'[d])
      BY <2>2, <2>4, <2>5, <3>1, HolderMoves DEF Opens, Ledger!Open, Ledger!Move
    <3> QED  BY <3>1, <3>2 DEF Ledger!Next
  <2>6. CASE Lends(d)
    <3>1. HolderOf(d) = "idle" /\ UNCHANGED owner
      BY <1>0, <2>2, <2>3, <2>6 DEF Lends, HolderKnown
    <3>2. CASE Leaving(d)'
      <4>1. Ledger!Retire(d)
        BY <2>2, <3>1, <3>2, HolderMoves DEF Ledger!Retire, Ledger!Move
      <4> QED  BY <4>1 DEF Ledger!Next
    <3>3. ASSUME NEW c \in Clients, GivenTo(d, c) PROVE Ledger!Next
      <4>1. Ledger!Lend(d, c)
        BY <2>2, <2>4, <3>1, <3>3 DEF Ledger!Lend, Ledger!Move
      <4> QED  BY <4>1 DEF Ledger!Next
    <3> QED  BY <2>6, <3>2, <3>3 DEF Lends
  <2>7. CASE Passes(d)
    <3>1. PICK c \in Clients :
             /\ LentTo(d, c) /\ owner'[d] = owner[d]
             /\ \/ Shelved(d)' \/ Leaving(d)' \/ LentTo(d, c)'
                \/ \E b \in Clients : GivenTo(d, b)
      BY <2>7 DEF Passes
    <3>2. HolderOf(d) = c /\ UNCHANGED owner
      BY <1>0, <2>2, <2>3, <3>1 DEF HolderKnown
    <3>3. CASE Shelved(d)'
      <4>1. Ledger!Return(d)
        BY <2>2, <3>2, <3>3, HolderMoves DEF Ledger!Return, Ledger!Lent, Ledger!Move
      <4> QED  BY <4>1 DEF Ledger!Next
    <3>4. CASE Leaving(d)'
      <4>1. Ledger!Retire(d)
        BY <2>2, <3>2, <3>4, HolderMoves DEF Ledger!Retire, Ledger!Lent, Ledger!Move
      <4> QED  BY <4>1 DEF Ledger!Next
    <3>5. CASE LentTo(d, c)'
      <4>1. H' = H
        BY <2>2, <3>2, <3>5, HolderMoves
      <4> QED  BY <2>2, <3>2, <4>1 DEF Ledger!ledger
    <3>6. ASSUME NEW b \in Clients, GivenTo(d, b) PROVE Ledger!Next
      <4>1. Ledger!Lend(d, b)
        BY <2>2, <2>4, <3>2, <3>6 DEF Ledger!Lend, Ledger!Lent, Ledger!Move
      <4> QED  BY <4>1 DEF Ledger!Next
    <3> QED  BY <3>1, <3>3, <3>4, <3>5, <3>6
  <2>8. CASE Leaves(d)
    <3>1. HolderOf(d) = "closing"
      BY <2>3, <2>8 DEF Leaves, HolderKnown
    <3>2. CASE Leaving(d)' /\ owner'[d] = owner[d]
      <4>1. H' = H /\ UNCHANGED owner
        BY <1>0, <2>2, <3>1, <3>2, HolderMoves
      <4> QED  BY <2>2, <4>1 DEF Ledger!ledger
    <3>3. CASE Absent(d)'
      <4>1. Ledger!Close(d)
        BY <2>2, <3>1, <3>3, HolderMoves DEF Absent, Ledger!Close, Ledger!Move
      <4> QED  BY <4>1 DEF Ledger!Next
    <3> QED  BY <2>8, <3>2, <3>3 DEF Leaves
  <2> QED  BY <2>1, <2>5, <2>6, <2>7, <2>8 DEF Moves
<1>7. CASE \E p \in Pools : Retires(p)
  <2>1. PICK p \in Pools : Retires(p)
    BY <1>7
  <2>2. PICK D \in SUBSET Conns :
           /\ \A d \in D : Shelved(d) /\ owner[d] = p /\ Leaving(d)' /\ owner'[d] = p
           /\ \A d \in Conns \ D : Still(d)
    BY <2>1 DEF Retires
  <2>3. \A d \in D : HolderOf(d) = "idle" /\ owner[d] = p
    BY <2>2, HolderIs DEF HolderKnown
  <2>4. \A d \in Conns : HolderOf(d)' = IF d \in D THEN "closing" ELSE HolderOf(d)
    BY <1>0, <2>2, HolderMoves
  <2>5. owner' = owner
    <3>1. \A d \in Conns : owner'[d] = owner[d]
      BY <2>2 DEF Still
    <3> QED  BY <1>0, <3>1
  <2>6. A' = A
    BY <1>2, <2>1 DEF Retires
  <2>7. Ledger!Expire(p)
    <3>1. D \in SUBSET {d \in Conns : owner[d] = p /\ H[d] = "idle"}
      BY <2>3
    <3>2. H' = [d \in Conns |-> IF d \in D THEN "closing" ELSE H[d]]
      BY <2>4
    <3> QED  BY <2>5, <2>6, <3>1, <3>2 DEF Ledger!Expire
  <2> QED  BY <2>7 DEF Ledger!Next
<1> QED  BY <1>4, <1>5, <1>6, <1>7 DEF Effect

\* The pools keep the promises of ConnLedger: every step of every goroutine is
\* a step of the ledger or leaves it alone.
THEOREM PoolsKeepLedger == Spec => KeepsLedger
<1>1. Init => Ledger!Init
  <2> SUFFICES ASSUME Init PROVE Ledger!Init
    OBVIOUS
  <2>1. \A d \in Conns : Absent(d)
    BY ProcsAssumption DEF Init, Absent, Found, HandOf, AnswersOf, ShelvesOf, SweepsOf
  <2>2. \A d \in Conns : HolderOf(d) = None
    BY <2>1, HolderIs DEF HolderKnown
  <2>3. \A c \in Clients : pool[c] = None
    BY ProcsAssumption DEF Init, Procs
  <2>4. owner = [d \in Conns |-> None]
    BY DEF Init
  <2> QED  BY <2>2, <2>3, <2>4 DEF Ledger!Init
<1>2. HoldInv /\ HoldInv' /\ [Next]_vars => [Ledger!Next]_(Ledger!ledger)
  BY NextKept, LedgerStep DEF Kept
<1> QED  BY <1>1, <1>2, HoldAlways, PTL DEF KeepsLedger, Ledger!Spec, Spec
=============================================================================
