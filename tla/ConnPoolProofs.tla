--------------------------- MODULE ConnPoolProofs ---------------------------
(* The types of ConnPool, and what becomes of the requests for a connection, *)
(* for every value of the constants.                                        *)
EXTENDS ConnPool, FiniteSetTheorems, SequenceTheorems, TLAPS

LEMMA PermutationIsSeq ==
    ASSUME NEW S, IsFiniteSet(S), NEW s \in SetToSeqs(S)
    PROVE  s \in Seq(S)
BY FS_CardinalityType DEF SetToSeqs

LEMMA WithoutIsSeq ==
    ASSUME NEW S, NEW s \in Seq(S), NEW d
    PROVE  Without(s, d) \in Seq(S)
<1>1. CASE Contains(s, d)
  <2> DEFINE i == CHOOSE j \in 1..Len(s) : s[j] = d
  <2>1. i \in 1..Len(s)
    BY <1>1 DEF Contains
  <2> HIDE DEF i
  <2>2. Len(s) \in Nat
    BY LenProperties
  <2>2a. SubSeq(s, 1, i - 1) \in Seq(S)
    <3>1. \A j \in 1..(i - 1) : s[j] \in S
      BY <2>1, <2>2, ElementOfSeq
    <3> QED BY <2>1, <2>2, <3>1, SubSeqProperties
  <2>2b. SubSeq(s, i + 1, Len(s)) \in Seq(S)
    BY <2>1, <2>2, SubSeqProperties
  <2>3. RemoveAt(s, i) \in Seq(S)
    BY <2>2a, <2>2b, ConcatProperties DEF RemoveAt
  <2> QED BY <1>1, <2>3 DEF Without, i
<1>2. CASE ~Contains(s, d)
  BY <1>2 DEF Without
<1> QED BY <1>1, <1>2

LEMMA CommandsAreSeq ==
    ASSUME NEW S, NEW p \in S, NEW n \in Int
    PROVE  [i \in 1..n |-> p] \in Seq(S)
<1>1. CASE n < 0
  <2>1. 1..n = 1..0
    BY <1>1
  <2> QED BY <2>1, EmptySeq
<1>2. CASE n >= 0
  BY <1>2
<1> QED BY <1>1, <1>2
-----------------------------------------------------------------------------
(* Types.  TypeOK is inductive together with what a goroutine has in its       *)
(* locals at each label: a pool, a connection, an attempt left.                *)

Trying  == {"idle", "conn", "check", "claim", "connect", "register", "count",
            "wait", "withdraw", "using", "giveBack"}
Holding == {"using", "giveBack", "discard"} \cup CloseLabels
Resting == {"idle", "listen", "stopped"}
Locking == {"oldest", "evict", "visit", "command", "send"}

Placed(x) ==
    /\ pc[x] \notin Resting => pool[x] \in Pools
    /\ pc[x] \in Holding => hand[x] \in Conns
    /\ x \in Clients /\ pc[x] \in Trying => attempt[x] <= maxBadConnRetries
    /\ x \in Pools => pool[x] = x
    /\ pc[x] \in Locking => facadeLock = x
    /\ pc[x] = "send" => tally.commands # << >>

Located == \A x \in Procs : Placed(x)

TypeInv == TypeOK /\ Located

LEMMA TypeInit == Init => TypeInv
<1> SUFFICES ASSUME Init PROVE TypeInv
  OBVIOUS
<1> USE ProcsAssumption, BoundAssumption, EmptySeq DEF Procs
<1>1. LabelsOK
  BY DEF Init, LabelsOK, ClientLabels, CloseLabels, MaybeOpenLabels,
         OpenerLabels, CleanerLabels
<1>2. LocalsOK
  BY DEF Init, LocalsOK, NoTally, maxBadConnRetries
<1>3. SharedOK
  <2>1. closed \in BOOLEAN /\ cancelled \in BOOLEAN
    BY DEF Init
  <2>2. numOpened \in Int /\ waitCount \in Nat
    BY DEF Init
  <2> QED BY <2>1, <2>2 DEF Init, SharedOK
<1>4. Located
  BY DEF Init, Located, Placed, Trying, Holding, Resting, Locking, CloseLabels,
         maxBadConnRetries
<1> QED BY <1>1, <1>2, <1>3, <1>4 DEF TypeInv, TypeOK

\* A step of x that leaves the locals of the others alone.
Alone(x) == \A y \in Procs \ {x} :
               /\ pc'[y] = pc[y] /\ pool'[y] = pool[y] /\ hand'[y] = hand[y]
               /\ y \in Clients => attempt'[y] = attempt[y]
               /\ UNCHANGED <<facadeLock, tally>> \/ facadeLock \in {None, x}

LEMMA PlacedFrame ==
    ASSUME Located, NEW x \in Procs, Alone(x), Placed(x)'
    PROVE  Located'
BY ProcsAssumption DEF Located, Placed, Alone, Procs, Locking

LEMMA ClientLabel ==
    ASSUME LabelsOK, NEW c \in Clients,
           NEW l \in ClientLabels \cup CloseLabels \cup MaybeOpenLabels,
           Goto(c, l)
    PROVE  /\ LabelsOK'
           /\ pc'[c] = l
           /\ \A y \in Procs \ {c} : pc'[y] = pc[y]
BY ProcsAssumption DEF LabelsOK, Goto, Procs

LEMMA AttemptEnds ==
    ASSUME attempt \in [Clients -> 0..maxBadConnRetries + 1], NEW c \in Clients,
           attempt[c] <= maxBadConnRetries, BadConn(c) \/ LastTry(c)
    PROVE  /\ attempt' \in [Clients -> 0..maxBadConnRetries + 1]
           /\ \A e \in Clients \ {c} : attempt'[e] = attempt[e]
BY DEF BadConn, LastTry, maxBadConnRetries

LEMMA PutConnectionType ==
    ASSUME SharedOK, NEW p \in Pools, NEW d \in Conns, PutConnection(p, d)
    PROVE  /\ connRequests' \in [Pools -> SUBSET Clients]
           /\ response' \in [Clients -> Conns \cup {None, Refused}]
           /\ freeConn' \in [Pools -> SUBSET Conns]
           /\ inUse' \in [Conns -> BOOLEAN]
           /\ lruCache' \in Seq(Conns)
           /\ crash' \in Crashes \cup {"none"}
<1>1. CASE HandOver(p, d)
  BY <1>1 DEF HandOver, AnswerRequest, SharedOK, idle
<1>2. CASE SaveAsIdle(p, d)
  <2> DEFINE added == Append(Without(lruCache, d), d)
  <2>1. added \in Seq(Conns)
    BY WithoutIsSeq, AppendProperties DEF SharedOK
  <2>2. Tail(added) \in Seq(Conns)
    BY <2>1, WithoutIsSeq, AppendProperties, HeadTailProperties DEF SharedOK
  <2>3. lruCache' \in Seq(Conns) /\ crash' \in Crashes \cup {"none"}
    BY <1>2, <2>1, <2>2 DEF SaveAsIdle, PutConnToLru, SharedOK, Crashes
  <2> QED BY <1>2, <2>3 DEF SaveAsIdle, SharedOK, waiters
<1> QED BY <1>1, <1>2 DEF PutConnection

LEMMA TypeStepClient ==
    ASSUME TypeInv, NEW c \in Clients,
           StartOperation(c) \/ EndOperation(c) \/ BorrowSteps(c) \/ ReturnSteps(c)
    PROVE  TypeInv'
<1> USE ProcsAssumption
    DEF TypeInv, TypeOK, Procs, request, sweep, locks, facade, context, waiters,
        idle, conns
<1>0. /\ pc[c] \in Trying => attempt[c] <= maxBadConnRetries
      /\ pc[c] \notin Resting => pool[c] \in Pools
      /\ pc[c] \in Holding => hand[c] \in Conns
  BY DEF Located, Placed
<1>1. CASE StartOperation(c)
  <2>0. PICK p \in Pools, b \in BOOLEAN :
            pool' = [pool EXCEPT ![c] = p]
            /\ cancellable' = [cancellable EXCEPT ![c] = b]
    BY <1>1 DEF StartOperation
  <2>1. LabelsOK' /\ pc'[c] = "conn" /\ \A y \in Procs \ {c} : pc'[y] = pc[y]
    BY <1>1, ClientLabel DEF StartOperation, ClientLabels, CloseLabels, MaybeOpenLabels
  <2>2. LocalsOK'
    BY <1>1, <2>0 DEF StartOperation, LocalsOK
  <2>3. SharedOK'
    BY <1>1 DEF StartOperation, SharedOK
  <2>4. Located'
    <3>1. Alone(c)
      BY <1>1, <2>0, <2>1 DEF StartOperation, Alone, LocalsOK
    <3>2. Placed(c)'
      BY <1>1, <1>0, <2>0, <2>1 DEF StartOperation, Placed, Trying, Holding, Locking,
         CloseLabels, LocalsOK, At
    <3> QED BY <3>1, <3>2, PlacedFrame
  <2> QED BY <2>1, <2>2, <2>3, <2>4
<1>2. CASE EndOperation(c)
  <2>1. LabelsOK' /\ pc'[c] = "idle" /\ \A y \in Procs \ {c} : pc'[y] = pc[y]
    BY <1>2, ClientLabel DEF EndOperation, ClientLabels
  <2>2. LocalsOK'
    BY <1>2 DEF EndOperation, LocalsOK, maxBadConnRetries
  <2>3. SharedOK'
    BY <1>2 DEF EndOperation, SharedOK
  <2>4. Located'
    <3>1. Alone(c)
      BY <1>2, <2>1 DEF EndOperation, Alone, LocalsOK
    <3>2. Placed(c)'
      BY <1>2, <2>1, ProcsAssumption DEF EndOperation, Placed, Trying, Holding, Resting, Locking,
         CloseLabels, LocalsOK, maxBadConnRetries
    <3> QED BY <3>1, <3>2, PlacedFrame
  <2> QED BY <2>1, <2>2, <2>3, <2>4
<1>3. CASE ConnExpiredContext(c)
  BY <1>3 DEF ConnExpiredContext, LabelsOK, LocalsOK, SharedOK, ClientLabels, CloseLabels,
     MaybeOpenLabels, OpenerLabels, CleanerLabels, At, Goto, Located, Placed,
     Trying, Holding, Resting, Locking, maxBadConnRetries
<1>4. CASE TakeFreeConn(c)
  <2>0. PICK d \in freeConn[pool[c]] :
            /\ freeConn' = [freeConn EXCEPT ![pool[c]] = @ \ {d}]
            /\ inUse' = [inUse EXCEPT ![d] = TRUE]
            /\ hand' = [hand EXCEPT ![c] = d]
            /\ ResetSession(c, d)
    BY <1>4 DEF TakeFreeConn
  <2>5. attempt[c] <= maxBadConnRetries /\ pool[c] \in Pools
    BY <1>4, <1>0 DEF TakeFreeConn, At, Trying, Resting
  <2>6. /\ attempt' \in [Clients -> 0..maxBadConnRetries + 1]
        /\ \A e \in Clients \ {c} : attempt'[e] = attempt[e]
    BY <1>4, <2>0, <2>5, AttemptEnds DEF ResetSession, LocalsOK
  <2>7. d \in Conns
    BY <2>0, <2>5 DEF SharedOK
  <2>1. LabelsOK' /\ pc'[c] \in {"using", "close"} /\ \A y \in Procs \ {c} : pc'[y] = pc[y]
    BY <1>4, <2>0, ClientLabel DEF TakeFreeConn, ClientLabels, CloseLabels, MaybeOpenLabels, ResetSession
  <2>2. LocalsOK'
    BY <1>4, <2>0, <2>6, <2>7 DEF TakeFreeConn, LocalsOK
  <2>3. SharedOK'
    BY <1>4, <2>0, <2>5, <2>7 DEF TakeFreeConn, SharedOK
  <2>4. Located'
    <3>1. Alone(c)
      BY <1>4, <2>0, <2>1, <2>5, <2>6, <2>7 DEF TakeFreeConn, Alone, LocalsOK
    <3>2. Placed(c)'
      <4>1. hand'[c] \in Conns /\ pool'[c] \in Pools
        BY <1>4, <2>0, <2>5, <2>7 DEF TakeFreeConn, LocalsOK
      <4>2. pc'[c] = "using" => attempt'[c] <= maxBadConnRetries
        BY <2>0, <2>1, <2>5, ClientLabel DEF ResetSession, ClientLabels, CloseLabels
      <4> QED BY <2>1, <4>1, <4>2 DEF Placed, Trying, Locking, CloseLabels
    <3> QED BY <3>1, <3>2, PlacedFrame
  <2> QED BY <2>1, <2>2, <2>3, <2>4
<1>5. CASE NoFreeConn(c)
  BY <1>5 DEF NoFreeConn, LabelsOK, LocalsOK, SharedOK, ClientLabels, CloseLabels,
     MaybeOpenLabels, OpenerLabels, CleanerLabels, At, Goto, Located, Placed,
     Trying, Holding, Resting, Locking, maxBadConnRetries
<1>6. CASE CheckLimit(c)
  BY <1>6 DEF CheckLimit, LabelsOK, LocalsOK, SharedOK, ClientLabels, CloseLabels,
     MaybeOpenLabels, OpenerLabels, CleanerLabels, At, Goto, Located, Placed,
     Trying, Holding, Resting, Locking, maxBadConnRetries
<1>7. CASE ClaimSlot(c)
  <2>5. pool[c] \in Pools /\ attempt[c] <= maxBadConnRetries
    BY <1>7, <1>0 DEF ClaimSlot, At, Trying, Resting
  <2>1. LabelsOK' /\ pc'[c] = "connect" /\ \A y \in Procs \ {c} : pc'[y] = pc[y]
    BY <1>7, ClientLabel DEF ClaimSlot, ClientLabels, CloseLabels, MaybeOpenLabels
  <2>2. LocalsOK'
    BY <1>7 DEF ClaimSlot, LocalsOK
  <2>3. SharedOK'
    BY <1>7, <2>5 DEF ClaimSlot, SharedOK
  <2>4. Located'
    <3>1. Alone(c)
      BY <1>7, <2>1 DEF ClaimSlot, Alone, LocalsOK
    <3>2. Placed(c)'
      BY <1>7, <2>1, <2>5 DEF ClaimSlot, Placed, Trying, Holding, Resting, Locking,
         CloseLabels, LocalsOK
    <3> QED BY <3>1, <3>2, PlacedFrame
  <2> QED BY <2>1, <2>2, <2>3, <2>4
<1>8. CASE Connect(c)
  <2>5. pool[c] \in Pools /\ attempt[c] <= maxBadConnRetries
    BY <1>8, <1>0 DEF Connect, At, Trying, Resting
  <2>6. PICK d \in Conns :
            /\ owner' = [owner EXCEPT ![d] = pool[c]]
            /\ inUse' = [inUse EXCEPT ![d] = TRUE]
            /\ hand' = [hand EXCEPT ![c] = d]
    BY <1>8 DEF Connect
  <2>1. LabelsOK' /\ pc'[c] = "using" /\ \A y \in Procs \ {c} : pc'[y] = pc[y]
    BY <1>8, ClientLabel DEF Connect, ClientLabels, CloseLabels, MaybeOpenLabels
  <2>2. LocalsOK'
    BY <1>8, <2>6 DEF Connect, LocalsOK
  <2>3. SharedOK'
    BY <1>8, <2>5, <2>6 DEF Connect, SharedOK
  <2>4. Located'
    <3>1. Alone(c)
      BY <1>8, <2>1, <2>6 DEF Connect, Alone, LocalsOK
    <3>2. Placed(c)'
      BY <1>8, <2>1, <2>5, <2>6 DEF Connect, Placed, Trying, Holding, Resting, Locking,
         CloseLabels, LocalsOK
    <3> QED BY <3>1, <3>2, PlacedFrame
  <2> QED BY <2>1, <2>2, <2>3, <2>4
<1>9. CASE ConnectFails(c)
  <2>5. attempt[c] <= maxBadConnRetries /\ pool[c] \in Pools
    BY <1>9, <1>0 DEF ConnectFails, At, Trying, Resting
  <2>6. /\ attempt' \in [Clients -> 0..maxBadConnRetries + 1]
        /\ \A e \in Clients \ {c} : attempt'[e] = attempt[e]
    BY <1>9, <2>5, AttemptEnds DEF ConnectFails, LocalsOK
  <2>1. LabelsOK' /\ pc'[c] = "unclaim" /\ \A y \in Procs \ {c} : pc'[y] = pc[y]
    BY <1>9, ClientLabel DEF ConnectFails, ClientLabels, CloseLabels, MaybeOpenLabels
  <2>2. LocalsOK'
    BY <1>9, <2>6 DEF ConnectFails, LocalsOK
  <2>3. SharedOK'
    BY <1>9 DEF ConnectFails, SharedOK
  <2>4. Located'
    <3>1. Alone(c)
      BY <1>9, <2>1, <2>6 DEF ConnectFails, Alone, LocalsOK
    <3>2. Placed(c)'
      BY <1>9, <1>0, <2>1, <2>5, <2>6 DEF ConnectFails, Placed, Trying, Holding, Resting, Locking,
         CloseLabels, LocalsOK, At
    <3> QED BY <3>1, <3>2, PlacedFrame
  <2> QED BY <2>1, <2>2, <2>3, <2>4
<1>10. CASE UnclaimSlot(c)
  <2>5. pool[c] \in Pools
    BY <1>10, <1>0 DEF UnclaimSlot, At, Trying, Resting
  <2>1. LabelsOK' /\ pc'[c] = "maybeOpen" /\ \A y \in Procs \ {c} : pc'[y] = pc[y]
    BY <1>10, ClientLabel DEF UnclaimSlot, ClientLabels, CloseLabels, MaybeOpenLabels
  <2>2. LocalsOK'
    BY <1>10 DEF UnclaimSlot, LocalsOK
  <2>3. SharedOK'
    BY <1>10, <2>5 DEF UnclaimSlot, SharedOK
  <2>4. Located'
    <3>1. Alone(c)
      BY <1>10, <2>1 DEF UnclaimSlot, Alone, LocalsOK
    <3>2. Placed(c)'
      BY <1>10, <2>1, <2>5 DEF UnclaimSlot, Placed, Trying, Holding, Resting, Locking,
         CloseLabels, LocalsOK
    <3> QED BY <3>1, <3>2, PlacedFrame
  <2> QED BY <2>1, <2>2, <2>3, <2>4
<1>11. CASE RegisterRequest(c)
  <2>5. pool[c] \in Pools /\ attempt[c] <= maxBadConnRetries
    BY <1>11, <1>0 DEF RegisterRequest, At, Trying, Resting
  <2>1. LabelsOK' /\ pc'[c] = "count" /\ \A y \in Procs \ {c} : pc'[y] = pc[y]
    BY <1>11, ClientLabel DEF RegisterRequest, ClientLabels, CloseLabels, MaybeOpenLabels
  <2>2. LocalsOK'
    BY <1>11 DEF RegisterRequest, LocalsOK
  <2>3. SharedOK'
    BY <1>11, <2>5 DEF RegisterRequest, SharedOK
  <2>4. Located'
    <3>1. Alone(c)
      BY <1>11, <2>1 DEF RegisterRequest, Alone, LocalsOK
    <3>2. Placed(c)'
      BY <1>11, <2>1, <2>5 DEF RegisterRequest, Placed, Trying, Holding, Resting, Locking,
         CloseLabels, LocalsOK
    <3> QED BY <3>1, <3>2, PlacedFrame
  <2> QED BY <2>1, <2>2, <2>3, <2>4
<1>12. CASE CountRequest(c)
  <2>5. pool[c] \in Pools /\ attempt[c] <= maxBadConnRetries
    BY <1>12, <1>0 DEF CountRequest, At, Trying, Resting
  <2>1. LabelsOK' /\ pc'[c] = "wait" /\ \A y \in Procs \ {c} : pc'[y] = pc[y]
    BY <1>12, ClientLabel DEF CountRequest, ClientLabels, CloseLabels, MaybeOpenLabels
  <2>2. LocalsOK'
    BY <1>12 DEF CountRequest, LocalsOK
  <2>3. SharedOK'
    BY <1>12, <2>5 DEF CountRequest, SharedOK
  <2>4. Located'
    <3>1. Alone(c)
      BY <1>12, <2>1 DEF CountRequest, Alone, LocalsOK
    <3>2. Placed(c)'
      BY <1>12, <2>1, <2>5 DEF CountRequest, Placed, Trying, Holding, Resting, Locking,
         CloseLabels, LocalsOK
    <3> QED BY <3>1, <3>2, PlacedFrame
  <2> QED BY <2>1, <2>2, <2>3, <2>4
<1>13. CASE ReceiveConn(c)
  <2>0. response[c] \in Conns /\ hand' = [hand EXCEPT ![c] = response[c]]
        /\ ResetSession(c, response[c])
    BY <1>13 DEF ReceiveConn
  <2>5. attempt[c] <= maxBadConnRetries /\ pool[c] \in Pools
    BY <1>13, <1>0 DEF ReceiveConn, At, Trying, Resting
  <2>6. /\ attempt' \in [Clients -> 0..maxBadConnRetries + 1]
        /\ \A e \in Clients \ {c} : attempt'[e] = attempt[e]
    BY <1>13, <2>0, <2>5, AttemptEnds DEF ResetSession, LocalsOK
  <2>1. LabelsOK' /\ pc'[c] \in {"using", "close"} /\ \A y \in Procs \ {c} : pc'[y] = pc[y]
    BY <1>13, ClientLabel DEF ReceiveConn, ClientLabels, CloseLabels, MaybeOpenLabels, ResetSession
  <2>2. LocalsOK'
    BY <1>13, <2>0, <2>6 DEF ReceiveConn, LocalsOK
  <2>3. SharedOK'
    BY <1>13 DEF ReceiveConn, SharedOK
  <2>4. Located'
    <3>1. Alone(c)
      BY <1>13, <2>0, <2>1, <2>5, <2>6 DEF ReceiveConn, Alone, LocalsOK
    <3>2. Placed(c)'
      <4>1. hand'[c] \in Conns /\ pool'[c] \in Pools
        BY <1>13, <2>0, <2>5 DEF ReceiveConn, LocalsOK
      <4>2. pc'[c] = "using" => attempt'[c] <= maxBadConnRetries
        BY <2>0, <2>1, <2>5, ClientLabel DEF ResetSession, ClientLabels, CloseLabels
      <4> QED BY <2>1, <4>1, <4>2 DEF Placed, Trying, Locking, CloseLabels
    <3> QED BY <3>1, <3>2, PlacedFrame
  <2> QED BY <2>1, <2>2, <2>3, <2>4
<1>14. CASE ReceiveError(c)
  <2>5. attempt[c] <= maxBadConnRetries /\ pool[c] \in Pools
    BY <1>14, <1>0 DEF ReceiveError, At, Trying, Resting
  <2>6. /\ attempt' \in [Clients -> 0..maxBadConnRetries + 1]
        /\ \A e \in Clients \ {c} : attempt'[e] = attempt[e]
    BY <1>14, <2>5, AttemptEnds DEF ReceiveError, LocalsOK
  <2>1. LabelsOK' /\ pc'[c] \in {"conn", "return"} /\ \A y \in Procs \ {c} : pc'[y] = pc[y]
    BY <1>14, ClientLabel DEF ReceiveError, ClientLabels, CloseLabels, MaybeOpenLabels, NextAttempt
  <2>2. LocalsOK'
    BY <1>14, <2>6 DEF ReceiveError, LocalsOK
  <2>3. SharedOK'
    BY <1>14 DEF ReceiveError, SharedOK
  <2>4. Located'
    <3>1. Alone(c)
      BY <1>14, <2>1, <2>6 DEF ReceiveError, Alone, LocalsOK
    <3>2. pc'[c] = "conn" => attempt'[c] <= maxBadConnRetries
      BY <1>14, <2>6, ClientLabel DEF ReceiveError, NextAttempt, ClientLabels, maxBadConnRetries
    <3>3. Placed(c)'
      BY <1>14, <1>0, <2>1, <2>5, <3>2 DEF ReceiveError, Placed, Trying, Holding, Resting, Locking,
         CloseLabels, LocalsOK, At
    <3> QED BY <3>1, <3>3, PlacedFrame
  <2> QED BY <2>1, <2>2, <2>3, <2>4
<1>15. CASE GiveUp(c)
  BY <1>15 DEF GiveUp, LabelsOK, LocalsOK, SharedOK, ClientLabels, CloseLabels,
     MaybeOpenLabels, OpenerLabels, CleanerLabels, At, Goto, Located, Placed,
     Trying, Holding, Resting, Locking, maxBadConnRetries
<1>16. CASE Withdraw(c)
  <2>5. pool[c] \in Pools /\ attempt[c] <= maxBadConnRetries
    BY <1>16, <1>0 DEF Withdraw, At, Resting, Trying
  <2>6. \/ response[c] \in Conns /\ hand' = [hand EXCEPT ![c] = response[c]]
        \/ pc'[c] = "return" /\ hand' = hand
    BY <1>16, ClientLabel DEF Withdraw, ClientLabels
  <2>1. LabelsOK' /\ pc'[c] \in {"giveBack", "return"} /\ \A y \in Procs \ {c} : pc'[y] = pc[y]
    BY <1>16, ClientLabel DEF Withdraw, ClientLabels, CloseLabels, MaybeOpenLabels
  <2>2. LocalsOK'
    BY <1>16, <2>6 DEF Withdraw, LocalsOK
  <2>3. SharedOK'
    BY <1>16, <2>5 DEF Withdraw, SharedOK
  <2>4. Located'
    <3>1. Alone(c)
      BY <1>16, <2>1, <2>6 DEF Withdraw, Alone, LocalsOK
    <3>2. Placed(c)'
      BY <1>16, <2>1, <2>5, <2>6 DEF Withdraw, Placed, Trying, Holding, Resting, Locking,
         CloseLabels, LocalsOK
    <3> QED BY <3>1, <3>2, PlacedFrame
  <2> QED BY <2>1, <2>2, <2>3, <2>4
<1>17. CASE PutConn(c)
  <2>5. pool[c] \in Pools /\ hand[c] \in Conns
    BY <1>17, <1>0 DEF PutConn, Resting, Holding
  <2>6. hand' = [hand EXCEPT ![c] = None]
    BY <1>17 DEF PutConn
  <2>1. LabelsOK' /\ pc'[c] = "return" /\ \A y \in Procs \ {c} : pc'[y] = pc[y]
    BY <1>17, ClientLabel DEF PutConn, ClientLabels, CloseLabels, MaybeOpenLabels
  <2>2. LocalsOK'
    BY <1>17, <2>6 DEF PutConn, LocalsOK
  <2>3. SharedOK'
    <3>1. broken' \in [Conns -> BOOLEAN]
      BY <1>17 DEF PutConn, SharedOK
    <3>2. PutConnection(pool[c], hand[c])
      BY <1>17 DEF PutConn
    <3> QED BY <1>17, <2>5, <3>1, <3>2, PutConnectionType DEF PutConn, SharedOK
  <2>4. Located'
    <3>1. Alone(c)
      BY <1>17, <2>1, <2>6 DEF PutConn, Alone, LocalsOK
    <3>2. Placed(c)'
      BY <1>17, <2>1, <2>5, <2>6 DEF PutConn, Placed, Trying, Holding, Resting, Locking,
         CloseLabels, LocalsOK
    <3> QED BY <3>1, <3>2, PlacedFrame
  <2> QED BY <2>1, <2>2, <2>3, <2>4
<1>18. CASE PutBadConn(c)
  <2>5. attempt[c] <= maxBadConnRetries /\ pool[c] \in Pools
    BY <1>18, <1>0 DEF PutBadConn, At, Trying, Resting
  <2>6. /\ attempt' \in [Clients -> 0..maxBadConnRetries + 1]
        /\ \A e \in Clients \ {c} : attempt'[e] = attempt[e]
    BY <1>18, <2>5, AttemptEnds DEF PutBadConn, LocalsOK
  <2>1. LabelsOK' /\ pc'[c] = "maybeOpen" /\ \A y \in Procs \ {c} : pc'[y] = pc[y]
    BY <1>18, ClientLabel DEF PutBadConn, ClientLabels, CloseLabels, MaybeOpenLabels
  <2>2. LocalsOK'
    BY <1>18, <2>6 DEF PutBadConn, LocalsOK
  <2>3. SharedOK'
    BY <1>18, <2>5 DEF PutBadConn, SharedOK
  <2>4. Located'
    <3>1. Alone(c)
      BY <1>18, <2>1, <2>6 DEF PutBadConn, Alone, LocalsOK
    <3>2. Placed(c)'
      BY <1>18, <1>0, <2>1, <2>5, <2>6 DEF PutBadConn, Placed, Trying, Holding, Resting, Locking,
         CloseLabels, LocalsOK, At
    <3> QED BY <3>1, <3>2, PlacedFrame
  <2> QED BY <2>1, <2>2, <2>3, <2>4
<1>19. CASE UnlockAndClose(c)
  BY <1>19 DEF UnlockAndClose, LabelsOK, LocalsOK, SharedOK, ClientLabels, CloseLabels,
     MaybeOpenLabels, OpenerLabels, CleanerLabels, At, Goto, Located, Placed,
     Trying, Holding, Resting, Locking, maxBadConnRetries, Crashes
<1> QED BY <1>1, <1>2, <1>3, <1>4, <1>5, <1>6, <1>7, <1>8, <1>9, <1>10, <1>11, <1>12, <1>13, <1>14, <1>15, <1>16, <1>17, <1>18, <1>19 DEF BorrowSteps,
   ReturnSteps

-----------------------------------------------------------------------------
\* The labels of a goroutine of x's kind.
LabelsOf(x) ==
    CASE x \in Clients -> ClientLabels \cup CloseLabels \cup MaybeOpenLabels
      [] x \in Pools   -> CleanerLabels \cup CloseLabels \cup MaybeOpenLabels
      [] x = Opener    -> OpenerLabels \cup MaybeOpenLabels

LEMMA ProcLabel ==
    ASSUME LabelsOK, NEW x \in Procs, NEW l \in LabelsOf(x), Goto(x, l)
    PROVE  /\ LabelsOK'
           /\ pc'[x] = l
           /\ \A y \in Procs \ {x} : pc'[y] = pc[y]
<1>1. l \in ClientLabels \cup CloseLabels \cup MaybeOpenLabels
              \cup OpenerLabels \cup CleanerLabels
  BY ProcsAssumption DEF LabelsOf, Procs
<1>2. /\ pc' \in [Procs -> ClientLabels \cup CloseLabels \cup MaybeOpenLabels
                              \cup OpenerLabels \cup CleanerLabels]
      /\ pc'[x] = l
      /\ \A y \in Procs \ {x} : pc'[y] = pc[y]
  BY <1>1 DEF LabelsOK, Goto
<1>3. \A y \in Procs : pc[y] \in LabelsOf(y)
  BY ProcsAssumption DEF LabelsOK, LabelsOf, Procs
<1>4. \A y \in Procs : pc'[y] \in LabelsOf(y)
  BY <1>2, <1>3
<1>5. LabelsOK'
  BY <1>2, <1>4, ProcsAssumption DEF LabelsOK, LabelsOf, Procs
<1> QED BY <1>2, <1>5

LEMMA TypeStepClose ==
    ASSUME TypeInv, NEW x \in Clients \cup Pools, CloseSteps(x)
    PROVE  TypeInv'
<1> USE ProcsAssumption
    DEF TypeInv, TypeOK, request, sweep, locks, facade, context, waiters, idle, conns
<1>0. x \in Procs /\ x # Opener
  BY DEF Procs
<1>00. pc[x] \in CloseLabels => pool[x] \in Pools /\ hand[x] \in Conns
  BY <1>0 DEF Located, Placed, CloseLabels, Holding, Resting
<1>000. CloseLabels \cup MaybeOpenLabels \subseteq LabelsOf(x)
  BY DEF LabelsOf
<1>1. CASE CloseConn(x)
  <2>0. hand[x] \in Conns /\ pool[x] \in Pools
    BY <1>1, <1>00 DEF CloseConn, At, CloseLabels
  <2>1. LabelsOK' /\ pc'[x] = "removeDep" /\ \A y \in Procs \ {x} : pc'[y] = pc[y]
    BY <1>1, <1>0, <1>000, ProcLabel DEF CloseConn, CloseLabels
  <2>2. LocalsOK'
    BY <1>1 DEF CloseConn, LocalsOK
  <2>3. SharedOK'
    <3>1. lruCache' \in Seq(Conns)
      <4>1. Without(lruCache, hand[x]) \in Seq(Conns)
        BY WithoutIsSeq DEF SharedOK
      <4> QED BY <1>1, <4>1 DEF CloseConn, SharedOK
    <3>2. crash' \in Crashes \cup {"none"}
      BY <1>1 DEF CloseConn, SharedOK, Crashes
    <3> QED BY <1>1, <3>1, <3>2 DEF CloseConn, SharedOK
  <2>4. Alone(x) /\ Placed(x)'
    BY <1>1, <1>0, <2>0, <2>1 DEF CloseConn, Alone, Placed, Trying, Holding, Locking,
       CloseLabels, Located
  <2> QED BY <1>0, <2>1, <2>2, <2>3, <2>4, PlacedFrame
<1>2. CASE RemoveDep(x)
  <2>0. hand[x] \in Conns /\ pool[x] \in Pools
    BY <1>2, <1>00 DEF RemoveDep, At, CloseLabels
  <2>1. LabelsOK' /\ pc'[x] = "finalClose" /\ \A y \in Procs \ {x} : pc'[y] = pc[y]
    BY <1>2, <1>0, <1>000, ProcLabel DEF RemoveDep, CloseLabels
  <2>2. LocalsOK' /\ SharedOK'
    BY <1>2 DEF RemoveDep, LocalsOK, SharedOK
  <2>4. Alone(x) /\ Placed(x)'
    BY <1>2, <1>0, <2>0, <2>1 DEF RemoveDep, Alone, Placed, Trying, Holding, Locking,
       CloseLabels, Located
  <2> QED BY <1>0, <2>1, <2>2, <2>4, PlacedFrame
<1>3. CASE FinalClose(x)
  <2>0. hand[x] \in Conns /\ pool[x] \in Pools
    BY <1>3, <1>00 DEF FinalClose, At, CloseLabels
  <2>1. LabelsOK' /\ pc'[x] = "maybeOpen" /\ \A y \in Procs \ {x} : pc'[y] = pc[y]
    BY <1>3, <1>0, <1>000, ProcLabel DEF FinalClose, MaybeOpenLabels
  <2>2. LocalsOK'
    BY <1>3 DEF FinalClose, LocalsOK
  <2>3. SharedOK'
    <3>1. inUse' \in [Conns -> BOOLEAN] /\ broken' \in [Conns -> BOOLEAN]
      BY <1>3 DEF FinalClose, SharedOK
    <3>2. numOpened' \in Int
      BY <1>3 DEF FinalClose, SharedOK
    <3> QED BY <1>3, <3>1, <3>2 DEF FinalClose, SharedOK
  <2>4. Alone(x) /\ Placed(x)'
    BY <1>3, <1>0, <2>0, <2>1 DEF FinalClose, Alone, Placed, Trying, Holding, Locking,
       CloseLabels, Located, LocalsOK
  <2> QED BY <1>0, <2>1, <2>2, <2>3, <2>4, PlacedFrame
<1> QED BY <1>1, <1>2, <1>3 DEF CloseSteps

\* x moves on inside maybeOpenNewConnections, or returns from it.
LEMMA PlacedMaybeOpen ==
    ASSUME TypeInv, NEW x \in Procs, pc[x] \in MaybeOpenLabels,
           NEW l \in MaybeOpenLabels \cup {Resume(x)}, Goto(x, l),
           l \in Locking => facadeLock' = x,
           l = "send" => tally'.commands # << >>,
           facadeLock \in {None, x} \/ UNCHANGED <<facadeLock, tally>>,
           UNCHANGED <<pool, hand, attempt>>
    PROVE  LabelsOK' /\ Located'
<1> USE ProcsAssumption DEF TypeInv, TypeOK
<1>1. /\ pool[x] \in Pools
      /\ x \in Pools => pool[x] = x
  BY DEF Located, Placed, MaybeOpenLabels, Resting
<1>2. Resume(x) \in LabelsOf(x)
  BY DEF Resume, LabelsOf, NextAttempt, ClientLabels, CleanerLabels, OpenerLabels, Procs
<1>3. LabelsOK' /\ pc'[x] = l /\ \A y \in Procs \ {x} : pc'[y] = pc[y]
  <2>1. MaybeOpenLabels \subseteq LabelsOf(x)
    BY DEF LabelsOf, Procs
  <2> QED BY <1>2, <2>1, ProcLabel
<1>4. Alone(x)
  BY <1>3 DEF Alone
<1>5. Placed(x)'
  <2>1. CASE l \in MaybeOpenLabels
    BY <1>1, <1>3, <2>1 DEF Placed, Holding, Trying, CloseLabels, MaybeOpenLabels
  <2>2. CASE l = Resume(x)
    <3>1. CASE x \in Clients
      <4>1. CASE hand[x] # None
        <5>1. hand[x] \in Conns /\ l = "discard"
          BY <2>2, <3>1, <4>1 DEF LocalsOK, Resume
        <5> QED BY <1>1, <1>3, <5>1 DEF Placed, Trying, Holding, Locking
      <4>2. CASE hand[x] = None
        <5>1. l = NextAttempt(attempt[x]) /\ attempt[x] \in 0..maxBadConnRetries + 1
          BY <2>2, <3>1, <4>2 DEF LocalsOK, Resume
        <5>2. l \in {"conn", "return"} /\ (l = "conn" => attempt[x] <= maxBadConnRetries)
          BY <5>1 DEF NextAttempt, maxBadConnRetries
        <5> QED BY <1>1, <1>3, <3>1, <5>2 DEF Placed, Trying, Holding, Locking, CloseLabels
      <4> QED BY <4>1, <4>2
    <3>2. CASE x \in Pools
      BY <1>1, <1>3, <2>2, <3>2 DEF Placed, Resume, Holding, Locking, CloseLabels
    <3>3. CASE x = Opener
      BY <1>1, <1>3, <2>2, <3>3 DEF Placed, Resume, Holding, Locking, CloseLabels
    <3> QED BY <3>1, <3>2, <3>3 DEF Procs
  <2> QED BY <2>1, <2>2
<1> QED BY <1>3, <1>4, <1>5, PlacedFrame

LEMMA TypeStepMaybeOpen ==
    ASSUME TypeInv, NEW x \in Procs, MaybeOpen(x)
    PROVE  TypeInv'
<1> USE DEF TypeInv, TypeOK, control, request, sweep, locks, facade, context,
            waiters, idle, conns, At
<1>0. NoTally \in [quota : Int, commands : Seq(Pools), victim : Conns \cup {None}]
  BY EmptySeq DEF NoTally
<1>1. CASE FindIdle(x)
  <2>1. LabelsOK' /\ Located'
    BY <1>1, PlacedMaybeOpen DEF FindIdle, MaybeOpenLabels, FacadeFree
  <2>2. LocalsOK' /\ SharedOK'
    BY <1>1 DEF FindIdle, LocalsOK, SharedOK
  <2> QED BY <2>1, <2>2
<1>9. CASE RemoveOldest(x)
  <2>0. facadeLock = x /\ pc[x] = "oldest"
    BY <1>9 DEF RemoveOldest, Located, Placed, Locking
  <2>1. CASE lruCache = << >>
    BY <1>9, <2>1 DEF RemoveOldest, LabelsOK, Located, Placed, LocalsOK, SharedOK, Crashes
  <2>2. CASE lruCache # << >>
    <3>1. LabelsOK' /\ Located'
      BY <1>9, <2>0, <2>2, PlacedMaybeOpen DEF RemoveOldest, MaybeOpenLabels
    <3>2. Head(lruCache) \in Conns /\ Tail(lruCache) \in Seq(Conns)
      BY <2>2, HeadTailProperties DEF SharedOK
    <3>3. LocalsOK'
      BY <1>9, <1>0, <2>2, <3>2 DEF RemoveOldest, LocalsOK, NoTally
    <3>4. SharedOK'
      BY <1>9, <2>2, <3>2 DEF RemoveOldest, SharedOK
    <3> QED BY <3>1, <3>3, <3>4
  <2> QED BY <2>1, <2>2
<1>2. CASE CloseOldest(x)
  <2>1. LabelsOK' /\ Located' /\ LocalsOK'
    BY <1>2 DEF CloseOldest, LabelsOK, Located, Placed, LocalsOK
  <2>2. freeConn' \in [Pools -> SUBSET Conns] /\ crash' \in Crashes \cup {"none"}
    BY <1>2 DEF CloseOldest, SharedOK, Crashes
  <2>3. SharedOK'
    BY <1>2, <2>2 DEF CloseOldest, SharedOK
  <2> QED BY <2>1, <2>3
<1>3. CASE CountNewConnections(x)
  <2> DEFINE quota == Lesser(waitCount, Limit - numOpened)
  <2>1. LabelsOK' /\ Located'
    <3>1. \/ Goto(x, Resume(x))
          \/ Goto(x, "visit") /\ facadeLock' = x
      <4>1. CASE quota = 0
        BY <1>3, <4>1 DEF CountNewConnections
      <4>2. CASE quota # 0
        BY <1>3, <4>2 DEF CountNewConnections
      <4> QED BY <4>1, <4>2
    <3>2. Resume(x) \notin Locking
      BY DEF Resume, NextAttempt, Locking, Procs
    <3> QED BY <1>3, <3>1, <3>2, PlacedMaybeOpen DEF CountNewConnections,
               MaybeOpenLabels, Locking, FacadeFree
  <2>2. quota \in Int
    BY BoundAssumption DEF SharedOK, Lesser
  <2>3. tally' \in [quota : Int, commands : Seq(Pools), victim : Conns \cup {None}]
    BY <1>3, <1>0, <2>2 DEF CountNewConnections, NoTally, LocalsOK
  <2>4. route' \in [Procs -> Seq(Pools)]
    BY <1>3, PermutationIsSeq, FiniteAssumption DEF CountNewConnections, LocalsOK
  <2>5. LocalsOK'
    BY <1>3, <2>3, <2>4 DEF CountNewConnections, LocalsOK
  <2>6. SharedOK'
    BY <1>3 DEF CountNewConnections, SharedOK
  <2> QED BY <2>1, <2>5, <2>6
<1>4. CASE VisitPool(x)
  <2> DEFINE p == Head(route[x])
             asked == Cardinality(connRequests[p])
             n == IF asked = 0 THEN 0 ELSE Lesser(asked, tally.quota)
  <2>00. facadeLock = x
    BY <1>4 DEF VisitPool, Located, Placed, Locking
  <2>0. route[x] \in Seq(Pools) /\ route[x] # << >>
    BY <1>4 DEF VisitPool, LocalsOK
  <2>1. p \in Pools /\ Tail(route[x]) \in Seq(Pools)
    BY <2>0, HeadTailProperties
  <2>2. n \in Int
    <3>1. IsFiniteSet(connRequests[p])
      BY <2>1, FiniteAssumption, FS_Subset DEF SharedOK
    <3>2. asked \in Nat /\ tally.quota \in Int
      BY <3>1, FS_CardinalityType DEF LocalsOK
    <3> HIDE DEF asked
    <3> QED BY <3>2 DEF Lesser
  <2>3. [i \in 1..n |-> p] \in Seq(Pools)
    BY <2>1, <2>2, CommandsAreSeq
  <2> HIDE DEF n
  <2>4. /\ tally' = [tally EXCEPT !.quota = @ - n,
                                  !.commands = @ \o [i \in 1..n |-> p]]
        /\ \/ Goto(x, "command") /\ route' = [route EXCEPT ![x] = << >>]
           \/ UNCHANGED pc /\ route' = [route EXCEPT ![x] = Tail(@)]
        /\ UNCHANGED <<pool, hand, request, closing, locks, facade,
                       context, waiters, idle, conns, crash>>
    BY <1>4 DEF VisitPool, n
  <2>5. LabelsOK' /\ Located'
    <3>1. CASE Goto(x, "command")
      BY <1>4, <2>4, <2>00, <3>1, PlacedMaybeOpen DEF VisitPool, MaybeOpenLabels
    <3>2. CASE UNCHANGED pc
      <4>1. \A y \in Procs : pc[y] # "send"
        BY <1>4, <2>00, ProcsAssumption DEF VisitPool, Located, Placed, Locking, Procs
      <4>2. LabelsOK' /\ UNCHANGED <<facadeLock, pool, hand, attempt>>
        BY <2>4, <3>2 DEF LabelsOK
      <4> QED BY <3>2, <4>1, <4>2 DEF Located, Placed
    <3> QED BY <2>4, <3>1, <3>2
  <2>6. tally' \in [quota : Int, commands : Seq(Pools), victim : Conns \cup {None}]
    <3>1. tally.quota \in Int /\ tally.commands \in Seq(Pools)
          /\ tally.victim \in Conns \cup {None}
      BY DEF LocalsOK
    <3>2. tally.quota - n \in Int
      BY <2>2, <3>1
    <3>3. tally.commands \o [i \in 1..n |-> p] \in Seq(Pools)
      BY <2>3, <3>1, ConcatProperties
    <3> HIDE DEF p
    <3> QED BY <2>4, <3>1, <3>2, <3>3 DEF LocalsOK
  <2>7. route' \in [Procs -> Seq(Pools)]
    BY <2>1, <2>4, EmptySeq DEF LocalsOK
  <2>8. LocalsOK'
    BY <2>4, <2>6, <2>7 DEF LocalsOK
  <2>9. SharedOK'
    BY <2>4 DEF SharedOK
  <2> QED BY <2>5, <2>8, <2>9
<1>5. CASE RequestsMissing(x)
  BY <1>5 DEF RequestsMissing, LabelsOK, Located, Placed, LocalsOK, SharedOK, Crashes
<1>6. CASE ReserveSlot(x)
  <2>1. LabelsOK' /\ Located'
    <3>1. \/ Goto(x, Resume(x))
          \/ Goto(x, "send") /\ UNCHANGED <<facadeLock, tally>>
      BY <1>6 DEF ReserveSlot
    <3>2. Resume(x) \notin Locking
      BY DEF Resume, NextAttempt, Locking, Procs
    <3>3. facadeLock = x /\ tally.commands # << >>
      BY <1>6 DEF ReserveSlot, Located, Placed, Locking
    <3> QED BY <1>6, <3>1, <3>2, <3>3, PlacedMaybeOpen DEF ReserveSlot,
               MaybeOpenLabels, Locking
  <2>2. LocalsOK'
    BY <1>6, <1>0 DEF ReserveSlot, LocalsOK
  <2>3. SharedOK'
    BY <1>6 DEF ReserveSlot, SharedOK
  <2> QED BY <2>1, <2>2, <2>3
<1>7. CASE SendCommand(x)
  <2>0. pc[x] = "send" /\ facadeLock = x /\ tally.commands # << >>
    BY <1>7 DEF SendCommand, Located, Placed, Locking
  <2>1. LabelsOK' /\ Located'
    BY <1>7, <2>0, PlacedMaybeOpen DEF SendCommand, MaybeOpenLabels
  <2>2. tally.commands \in Seq(Pools) /\ tally.commands # << >>
    BY <1>7, <2>0 DEF SendCommand, LocalsOK
  <2>3. Head(tally.commands) \in Pools /\ Tail(tally.commands) \in Seq(Pools)
    BY <2>2, HeadTailProperties
  <2>4. LocalsOK'
    BY <1>7, <2>3 DEF SendCommand, LocalsOK
  <2>5. SharedOK'
    BY <1>7, <2>3, AppendProperties DEF SendCommand, SharedOK
  <2> QED BY <2>1, <2>4, <2>5
<1>8. CASE EndMaybeOpen(x)
  <2>1. LabelsOK' /\ Located'
    <3>1. Resume(x) \notin Locking /\ facadeLock = x
      BY <1>8 DEF Resume, NextAttempt, Locking, Procs, EndMaybeOpen, Located, Placed
    <3> QED BY <1>8, <3>1, PlacedMaybeOpen DEF EndMaybeOpen, MaybeOpenLabels, Locking
  <2>2. LocalsOK'
    BY <1>8, <1>0 DEF EndMaybeOpen, LocalsOK
  <2>3. SharedOK'
    BY <1>8 DEF EndMaybeOpen, SharedOK
  <2> QED BY <2>1, <2>2, <2>3
<1> QED BY <1>1, <1>2, <1>3, <1>4, <1>5, <1>6, <1>7, <1>8, <1>9 DEF MaybeOpen

-----------------------------------------------------------------------------
LEMMA OpenerLabel ==
    ASSUME LabelsOK, NEW l \in OpenerLabels \cup MaybeOpenLabels, Goto(Opener, l)
    PROVE  /\ LabelsOK'
           /\ pc'[Opener] = l
           /\ \A y \in Procs \ {Opener} : pc'[y] = pc[y]
<1>1. Opener \in Procs /\ l \in LabelsOf(Opener)
  BY ProcsAssumption DEF Procs, LabelsOf
<1> QED BY <1>1, ProcLabel

LEMMA TypeStepOpener ==
    ASSUME TypeInv, OpenerStep
    PROVE  TypeInv'
<1> USE ProcsAssumption
    DEF TypeInv, TypeOK, control, request, sweep, locks, facade, context, waiters,
        idle, conns, At
<1>00. Opener \in Procs /\ Opener \notin Clients \cup Pools
  BY DEF Procs
<1>0. pc[Opener] \notin Resting => pool[Opener] \in Pools
  BY <1>00 DEF Located, Placed
<1>1. CASE OpenerStops
  <2>1. LabelsOK' /\ pc'[Opener] = "stopped" /\ \A y \in Procs \ {Opener} : pc'[y] = pc[y]
    BY <1>1, OpenerLabel DEF OpenerStops, OpenerLabels
  <2>2. LocalsOK' /\ SharedOK'
    BY <1>1 DEF OpenerStops, LocalsOK, SharedOK
  <2>3. Alone(Opener) /\ Placed(Opener)'
    BY <1>1, <1>00, <2>1 DEF OpenerStops, Alone, Placed, Resting, Holding, Locking, CloseLabels
  <2> QED BY <1>00, <2>1, <2>2, <2>3, PlacedFrame
<1>2. CASE TakeCommand
  <2>1. LabelsOK' /\ pc'[Opener] = "stats" /\ \A y \in Procs \ {Opener} : pc'[y] = pc[y]
    BY <1>2, OpenerLabel DEF TakeCommand, OpenerLabels
  <2>2. Head(openerChannel) \in Pools /\ Tail(openerChannel) \in Seq(Pools)
    BY <1>2, HeadTailProperties DEF TakeCommand, SharedOK
  <2>3. route' \in [Procs -> Seq(Pools)]
    BY <1>2, PermutationIsSeq, FiniteAssumption DEF TakeCommand, LocalsOK
  <2>4. LocalsOK'
    BY <1>2, <2>2, <2>3 DEF TakeCommand, LocalsOK
  <2>5. SharedOK'
    BY <1>2, <2>2 DEF TakeCommand, SharedOK
  <2>6. Alone(Opener)
    BY <1>2, <1>00, <2>1 DEF TakeCommand, Alone, LocalsOK
  <2>7. Placed(Opener)'
    BY <1>2, <1>00, <2>1, <2>2 DEF TakeCommand, Placed, Resting, Holding, Locking, CloseLabels,
       LocalsOK
  <2> QED BY <1>00, <2>1, <2>4, <2>5, <2>6, <2>7, PlacedFrame
<1>3. CASE StatsPool
  <2>1. Tail(route[Opener]) \in Seq(Pools)
    BY <1>3, <1>00, HeadTailProperties DEF StatsPool, LocalsOK
  <2>2. LocalsOK'
    BY <1>3, <2>1 DEF StatsPool, LocalsOK
  <2>3. SharedOK' /\ LabelsOK' /\ Located'
    BY <1>3 DEF StatsPool, SharedOK, LabelsOK, Located, Placed
  <2> QED BY <2>2, <2>3
<1>4. CASE StatsFacade
  <2>1. LabelsOK' /\ pc'[Opener] = "dial" /\ \A y \in Procs \ {Opener} : pc'[y] = pc[y]
    BY <1>4, OpenerLabel DEF StatsFacade, OpenerLabels
  <2>2. LocalsOK' /\ SharedOK'
    BY <1>4 DEF StatsFacade, LocalsOK, SharedOK
  <2>3. Alone(Opener) /\ Placed(Opener)'
    BY <1>4, <1>0, <1>00, <2>1 DEF StatsFacade, Alone, Placed, Resting, Holding, Locking,
       CloseLabels
  <2> QED BY <1>00, <2>1, <2>2, <2>3, PlacedFrame
<1>5. CASE Dial
  <2>0. pool[Opener] \in Pools
    BY <1>5, <1>0 DEF Dial, Resting
  <2>01. PICK d \in Conns : owner' = [owner EXCEPT ![d] = pool[Opener]]
                            /\ PutConnection(pool[Opener], d)
    BY <1>5 DEF Dial
  <2>1. LabelsOK' /\ pc'[Opener] = "listen" /\ \A y \in Procs \ {Opener} : pc'[y] = pc[y]
    BY <1>5, OpenerLabel DEF Dial, OpenerLabels
  <2>2. LocalsOK'
    BY <1>5 DEF Dial, LocalsOK
  <2>3. owner' \in [Conns -> Pools \cup {None}]
    BY <2>0, <2>01 DEF SharedOK
  <2>4. SharedOK'
    BY <1>5, <2>0, <2>01, <2>3, PutConnectionType DEF Dial, SharedOK
  <2>5. Alone(Opener) /\ Placed(Opener)'
    BY <1>5, <1>0, <1>00, <2>1 DEF Dial, Alone, Placed, Resting, Holding, Locking,
       CloseLabels
  <2> QED BY <1>00, <2>1, <2>2, <2>4, <2>5, PlacedFrame
<1>6. CASE DialFails
  <2>0. pool[Opener] \in Pools
    BY <1>6, <1>0 DEF DialFails, Resting
  <2>1. LabelsOK' /\ pc'[Opener] = "refused" /\ \A y \in Procs \ {Opener} : pc'[y] = pc[y]
    BY <1>6, OpenerLabel DEF DialFails, OpenerLabels
  <2>2. LocalsOK' /\ SharedOK'
    BY <1>6, <1>00, <2>0 DEF DialFails, LocalsOK, SharedOK
  <2>3. Alone(Opener) /\ Placed(Opener)'
    BY <1>6, <1>00, <2>0, <2>1 DEF DialFails, Alone, Placed, Holding, Locking,
       CloseLabels
  <2> QED BY <1>00, <2>1, <2>2, <2>3, PlacedFrame
<1>7. CASE ReportRefusal
  <2>0. pool[Opener] \in Pools
    BY <1>7, <1>0 DEF ReportRefusal, Resting
  <2>1. LabelsOK' /\ pc'[Opener] = "maybeOpen" /\ \A y \in Procs \ {Opener} : pc'[y] = pc[y]
    BY <1>7, OpenerLabel DEF ReportRefusal, MaybeOpenLabels
  <2>2. LocalsOK'
    BY <1>7 DEF ReportRefusal, LocalsOK
  <2>3. /\ connRequests' \in [Pools -> SUBSET Clients]
        /\ response' \in [Clients -> Conns \cup {None, Refused}]
    <3>1. AnswerRequest(pool[Opener], Refused) \/ UNCHANGED waiters
      BY <1>7 DEF ReportRefusal
    <3>2. /\ connRequests \in [Pools -> SUBSET Clients]
          /\ response \in [Clients -> Conns \cup {None, Refused}]
      BY DEF SharedOK
    <3> QED BY <2>0, <3>1, <3>2 DEF AnswerRequest
  <2>4. numOpened' \in Int /\ poolLock' \in [Pools -> Procs \cup {None}]
    <3>1. numOpened' \in Int
      BY <1>7 DEF ReportRefusal, SharedOK
    <3>2. poolLock' \in [Pools -> Procs \cup {None}]
      BY <1>7 DEF ReportRefusal, SharedOK
    <3> QED BY <3>1, <3>2
  <2>5. SharedOK'
    BY <1>7, <2>3, <2>4 DEF ReportRefusal, SharedOK
  <2>6. Alone(Opener) /\ Placed(Opener)'
    BY <1>7, <1>00, <2>0, <2>1 DEF ReportRefusal, Alone, Placed, Holding, Locking,
       CloseLabels
  <2> QED BY <1>00, <2>1, <2>2, <2>5, <2>6, PlacedFrame
<1>8. CASE DeferredUnlock
  <2>1. LabelsOK' /\ pc'[Opener] = "listen" /\ \A y \in Procs \ {Opener} : pc'[y] = pc[y]
    BY <1>8, OpenerLabel DEF DeferredUnlock, OpenerLabels
  <2>2. LocalsOK'
    BY <1>8 DEF DeferredUnlock, LocalsOK
  <2>3. SharedOK'
    BY <1>8 DEF DeferredUnlock, SharedOK, Crashes
  <2>4. Alone(Opener) /\ Placed(Opener)'
    BY <1>8, <1>00, <2>1 DEF DeferredUnlock, Alone, Placed, Resting, Holding, Locking,
       CloseLabels
  <2> QED BY <1>00, <2>1, <2>2, <2>3, <2>4, PlacedFrame
<1>9. CASE MaybeOpen(Opener)
  BY <1>9, <1>00, TypeStepMaybeOpen
<1> QED BY <1>1, <1>2, <1>3, <1>4, <1>5, <1>6, <1>7, <1>8, <1>9 DEF OpenerStep

LEMMA TypeStepCleaner ==
    ASSUME TypeInv, NEW p \in Pools, CleanerStep(p)
    PROVE  TypeInv'
<1> USE ProcsAssumption
    DEF TypeInv, TypeOK, control, request, sweep, locks, facade, context, waiters,
        idle, conns, At
<1>0. /\ p \in Procs /\ p # Opener /\ p \notin Clients
      /\ pool[p] = p
      /\ CleanerLabels \cup CloseLabels \subseteq LabelsOf(p)
  BY DEF Located, Placed, Procs, LabelsOf
<1>1. CASE CollectExpired(p)
  <2>1. LabelsOK' /\ pc'[p] = "sweep" /\ \A y \in Procs \ {p} : pc'[y] = pc[y]
    BY <1>1, <1>0, ProcLabel DEF CollectExpired, CleanerLabels
  <2>2. LocalsOK'
    BY <1>1 DEF CollectExpired, LocalsOK, SharedOK
  <2>3. SharedOK'
    BY <1>1 DEF CollectExpired, SharedOK
  <2>4. Alone(p) /\ Placed(p)'
    BY <1>1, <1>0, <2>1 DEF CollectExpired, Alone, Placed, Holding, Locking, CloseLabels
  <2> QED BY <1>0, <2>1, <2>2, <2>3, <2>4, PlacedFrame
<1>2. CASE CloseNextExpired(p)
  <2>0. PICK d \in closing[p] : hand' = [hand EXCEPT ![p] = d]
                                /\ closing' = [closing EXCEPT ![p] = @ \ {d}]
    BY <1>2 DEF CloseNextExpired
  <2>00. d \in Conns
    BY <2>0 DEF LocalsOK
  <2>1. LabelsOK' /\ pc'[p] = "close" /\ \A y \in Procs \ {p} : pc'[y] = pc[y]
    BY <1>2, <1>0, ProcLabel DEF CloseNextExpired, CloseLabels
  <2>2. LocalsOK'
    BY <1>2, <2>0, <2>00 DEF CloseNextExpired, LocalsOK
  <2>3. SharedOK'
    BY <1>2 DEF CloseNextExpired, SharedOK
  <2>4. Alone(p)
    BY <1>2, <2>0, <2>1 DEF CloseNextExpired, Alone, LocalsOK
  <2>5. Placed(p)'
    BY <1>2, <1>0, <2>0, <2>00, <2>1 DEF CloseNextExpired, Placed, Holding, Locking,
       CloseLabels, LocalsOK
  <2> QED BY <1>0, <2>1, <2>2, <2>3, <2>4, <2>5, PlacedFrame
<1>3. CASE SweepEnds(p)
  <2>1. LabelsOK' /\ pc'[p] = "sleep" /\ \A y \in Procs \ {p} : pc'[y] = pc[y]
    BY <1>3, <1>0, ProcLabel DEF SweepEnds, CleanerLabels
  <2>2. LocalsOK' /\ SharedOK'
    BY <1>3 DEF SweepEnds, LocalsOK, SharedOK
  <2>3. Alone(p) /\ Placed(p)'
    BY <1>3, <1>0, <2>1 DEF SweepEnds, Alone, Placed, Holding, Locking, CloseLabels
  <2> QED BY <1>0, <2>1, <2>2, <2>3, PlacedFrame
<1>4. CASE CloseSteps(p)
  BY <1>4, TypeStepClose
<1>5. CASE MaybeOpen(p)
  BY <1>5, <1>0, TypeStepMaybeOpen
<1> QED BY <1>1, <1>2, <1>3, <1>4, <1>5 DEF CleanerStep

LEMMA TypeStep == TypeInv /\ [Next]_vars => TypeInv'
<1> SUFFICES ASSUME TypeInv, [Next]_vars PROVE TypeInv'
  OBVIOUS
<1>1. ASSUME NEW c \in Clients, StartOperation(c) \/ ClientStep(c) PROVE TypeInv'
  <2>1. c \in Procs
    BY DEF Procs
  <2> QED BY <1>1, <2>1, TypeStepClient, TypeStepClose, TypeStepMaybeOpen DEF ClientStep
<1>2. ASSUME NEW p \in Pools, CleanerStep(p) PROVE TypeInv'
  BY <1>2, TypeStepCleaner
<1>3. CASE OpenerStep
  BY <1>3, TypeStepOpener
<1>4. CASE CloseFacade
  BY <1>4 DEF CloseFacade, TypeInv, TypeOK, LabelsOK, LocalsOK, SharedOK, Located,
     Placed, control, request, sweep, locks, facade, waiters, idle, conns
<1>5. CASE CancelContext
  BY <1>5 DEF CancelContext, TypeInv, TypeOK, LabelsOK, LocalsOK, SharedOK, Located,
     Placed, control, request, sweep, locks, facade, waiters, idle, conns
<1>6. CASE UNCHANGED vars
  BY <1>6 DEF vars, TypeInv, TypeOK, LabelsOK, LocalsOK, SharedOK, Located,
     Placed, control, request, sweep, locks, facade, context, waiters, idle, conns
<1> QED BY <1>1, <1>2, <1>3, <1>4, <1>5, <1>6 DEF Next

\* Every variable keeps its type, however many clients, pools and connections
\* there are, whatever the limit and whatever fails.
THEOREM TypeCorrect == Spec => []TypeOK
<1>1. TypeInv => TypeOK
  BY DEF TypeInv
<1> QED BY <1>1, TypeInit, TypeStep, PTL DEF Spec

-----------------------------------------------------------------------------
(* Every request for a connection is answered at most once, and is never     *)
(* lost.                                                                     *)

ReqInv == TypeInv /\ RequestOrAnswer

\* Where c's requests are registered.
AsksOf(c) == {p \in Pools : c \in connRequests[p]}

\* RequestOrAnswer for one client.
Served(c) ==
    IF Waiting(c)
    THEN AsksOf(c) = (IF response[c] = None THEN {pool[c]} ELSE {})
    ELSE AsksOf(c) = {} /\ response[c] = None

LEMMA ServedByOne == RequestOrAnswer <=> \A c \in Clients : Served(c)
BY DEF RequestOrAnswer, Served, AsksOf, Waiting

\* A step that leaves requests and answers alone and in which nobody starts or
\* stops waiting.
LEMMA ServedFrame ==
    ASSUME RequestOrAnswer, UNCHANGED waiters,
           \A c \in Clients : Waiting(c)' <=> Waiting(c),
           \A c \in Clients : Waiting(c) => pool'[c] = pool[c]
    PROVE  RequestOrAnswer'
<1>1. \A c \in Clients : Served(c)
  BY ServedByOne
<1>2. \A c \in Clients : AsksOf(c)' = AsksOf(c) /\ response'[c] = response[c]
  BY DEF AsksOf, waiters
<1>3. \A c \in Clients : Served(c)'
  BY <1>1, <1>2 DEF Served
<1> QED BY <1>3 DEF RequestOrAnswer, Served, AsksOf, Waiting

\* The moves of one goroutine among labels at which it does not wait.
LEMMA OneMoves ==
    ASSUME NEW x \in Procs, NEW l, Goto(x, l), LabelsOK,
           x \in Clients => ~Waiting(x) /\ l \notin {"count", "wait", "withdraw"},
           \A c \in Clients \ {x} : pool'[c] = pool[c]
    PROVE  /\ \A c \in Clients : Waiting(c)' <=> Waiting(c)
           /\ \A c \in Clients : Waiting(c) => pool'[c] = pool[c]
BY DEF Goto, Waiting, Procs, LabelsOK

\* The answer goes to a client that waits for one and has none.
LEMMA AnswerServes ==
    ASSUME TypeInv, RequestOrAnswer, NEW p \in Pools,
           NEW answer \in Conns \cup {Refused}, AnswerRequest(p, answer),
           \A c \in Clients : Waiting(c)' <=> Waiting(c),
           \A c \in Clients : Waiting(c) => pool'[c] = pool[c]
    PROVE  RequestOrAnswer'
<1>1. PICK c \in connRequests[p] :
            /\ connRequests' = [connRequests EXCEPT ![p] = @ \ {c}]
            /\ response' = [response EXCEPT ![c] = answer]
  BY DEF AnswerRequest
<1>2. /\ connRequests \in [Pools -> SUBSET Clients]
      /\ response \in [Clients -> Conns \cup {None, Refused}]
      /\ answer # None
  BY ProcsAssumption DEF TypeInv, TypeOK, SharedOK
<1>3. c \in Clients /\ p \in AsksOf(c)
  BY <1>1, <1>2 DEF AsksOf
<1>4. \A e \in Clients : Served(e)
  BY ServedByOne
<1>5. Waiting(c) /\ AsksOf(c) = {p}
  BY <1>3, <1>4 DEF Served
<1>6. AsksOf(c)' = {} /\ response'[c] = answer
  BY <1>1, <1>2, <1>3, <1>5 DEF AsksOf
<1>7. \A e \in Clients \ {c} : AsksOf(e)' = AsksOf(e) /\ response'[e] = response[e]
  BY <1>1, <1>2 DEF AsksOf
<1>8. \A e \in Clients : Served(e)'
  <2>1. Served(c)'
    BY <1>2, <1>3, <1>5, <1>6 DEF Served
  <2>2. \A e \in Clients \ {c} : Served(e)'
    BY <1>4, <1>7 DEF Served
  <2> QED BY <2>1, <2>2
<1> QED BY <1>8 DEF RequestOrAnswer, Served, AsksOf, Waiting

LEMMA PutServes ==
    ASSUME TypeInv, RequestOrAnswer, NEW p \in Pools, NEW d \in Conns,
           PutConnection(p, d),
           \A c \in Clients : Waiting(c)' <=> Waiting(c),
           \A c \in Clients : Waiting(c) => pool'[c] = pool[c]
    PROVE  RequestOrAnswer'
<1>1. CASE HandOver(p, d)
  BY <1>1, AnswerServes DEF HandOver
<1>2. CASE SaveAsIdle(p, d)
  BY <1>2, ServedFrame DEF SaveAsIdle
<1> QED BY <1>1, <1>2 DEF PutConnection

LEMMA RequestStepOperation ==
    ASSUME TypeInv, RequestOrAnswer, NEW c \in Clients,
           StartOperation(c) \/ EndOperation(c)
    PROVE  RequestOrAnswer'
<1> USE DEF TypeInv, TypeOK, control, request, sweep, locks, facade, context,
            waiters, idle, conns, At
<1>0. c \in Procs
  BY DEF Procs
<1>00. \A e \in Clients : Served(e)
  BY ServedByOne
<1>1. CASE StartOperation(c)
  <2>1. \A e \in Clients : Waiting(e)' <=> Waiting(e)
    BY <1>1, <1>0, OneMoves DEF StartOperation, Waiting, LabelsOK, Goto
  <2>2. \A e \in Clients : Waiting(e) => pool'[e] = pool[e]
    BY <1>1, <1>0 DEF StartOperation, Waiting, LocalsOK
  <2> QED BY <1>1, <2>1, <2>2, ServedFrame DEF StartOperation
<1>2. CASE EndOperation(c)
  <2>1. \A e \in Clients : Waiting(e)' <=> Waiting(e)
    BY <1>2, <1>0 DEF EndOperation, Waiting, LabelsOK, Goto
  <2>2. \A e \in Clients : Waiting(e) => pool'[e] = pool[e]
    BY <1>2, <1>0 DEF EndOperation, Waiting, LocalsOK
  <2> QED BY <1>2, <2>1, <2>2, ServedFrame DEF EndOperation
<1> QED BY <1>1, <1>2 

LEMMA RequestStepBorrow ==
    ASSUME TypeInv, RequestOrAnswer, NEW c \in Clients, BorrowSteps(c)
    PROVE  RequestOrAnswer'
<1> USE DEF TypeInv, TypeOK, control, request, sweep, locks, facade, context,
            waiters, idle, conns, At
<1>0. c \in Procs
  BY DEF Procs
<1>00. \A e \in Clients : Served(e)
  BY ServedByOne
<1>1. CASE ConnExpiredContext(c)
  <2>1. /\ \A e \in Clients : Waiting(e)' <=> Waiting(e)
        /\ \A e \in Clients : Waiting(e) => pool'[e] = pool[e]
    BY <1>1, <1>0, OneMoves DEF ConnExpiredContext, Waiting
  <2> QED BY <1>1, <2>1, ServedFrame DEF ConnExpiredContext
<1>2. CASE TakeFreeConn(c)
  <2>1. /\ \A e \in Clients : Waiting(e)' <=> Waiting(e)
        /\ \A e \in Clients : Waiting(e) => pool'[e] = pool[e]
    BY <1>2, <1>0, OneMoves DEF TakeFreeConn, Waiting, ResetSession
  <2> QED BY <1>2, <2>1, ServedFrame DEF TakeFreeConn
<1>3. CASE NoFreeConn(c)
  <2>1. /\ \A e \in Clients : Waiting(e)' <=> Waiting(e)
        /\ \A e \in Clients : Waiting(e) => pool'[e] = pool[e]
    BY <1>3, <1>0, OneMoves DEF NoFreeConn, Waiting
  <2> QED BY <1>3, <2>1, ServedFrame DEF NoFreeConn
<1>4. CASE CheckLimit(c)
  <2>1. /\ \A e \in Clients : Waiting(e)' <=> Waiting(e)
        /\ \A e \in Clients : Waiting(e) => pool'[e] = pool[e]
    BY <1>4, <1>0, OneMoves DEF CheckLimit, Waiting
  <2> QED BY <1>4, <2>1, ServedFrame DEF CheckLimit
<1>5. CASE ClaimSlot(c)
  <2>1. /\ \A e \in Clients : Waiting(e)' <=> Waiting(e)
        /\ \A e \in Clients : Waiting(e) => pool'[e] = pool[e]
    BY <1>5, <1>0, OneMoves DEF ClaimSlot, Waiting
  <2> QED BY <1>5, <2>1, ServedFrame DEF ClaimSlot
<1>6. CASE Connect(c)
  <2>1. /\ \A e \in Clients : Waiting(e)' <=> Waiting(e)
        /\ \A e \in Clients : Waiting(e) => pool'[e] = pool[e]
    BY <1>6, <1>0, OneMoves DEF Connect, Waiting
  <2> QED BY <1>6, <2>1, ServedFrame DEF Connect
<1>7. CASE ConnectFails(c)
  <2>1. /\ \A e \in Clients : Waiting(e)' <=> Waiting(e)
        /\ \A e \in Clients : Waiting(e) => pool'[e] = pool[e]
    BY <1>7, <1>0, OneMoves DEF ConnectFails, Waiting
  <2> QED BY <1>7, <2>1, ServedFrame DEF ConnectFails
<1>8. CASE UnclaimSlot(c)
  <2>1. /\ \A e \in Clients : Waiting(e)' <=> Waiting(e)
        /\ \A e \in Clients : Waiting(e) => pool'[e] = pool[e]
    BY <1>8, <1>0, OneMoves DEF UnclaimSlot, Waiting
  <2> QED BY <1>8, <2>1, ServedFrame DEF UnclaimSlot
<1>9. CASE RegisterRequest(c)
  <2>1. ~Waiting(c) /\ pool[c] \in Pools
    BY <1>9, <1>0 DEF RegisterRequest, Waiting, Located, Placed, Resting
  <2>2. Waiting(c)' /\ \A e \in Clients \ {c} : Waiting(e)' <=> Waiting(e)
    BY <1>9, <1>0 DEF RegisterRequest, Waiting, Goto, LabelsOK
  <2>3. /\ AsksOf(c)' = AsksOf(c) \cup {pool[c]}
        /\ \A e \in Clients \ {c} : AsksOf(e)' = AsksOf(e)
    BY <1>9, <2>1 DEF RegisterRequest, AsksOf, SharedOK
  <2>4. UNCHANGED <<pool, response>>
    BY <1>9 DEF RegisterRequest
  <2>5. \A e \in Clients : Served(e)'
    BY <1>00, <2>1, <2>2, <2>3, <2>4 DEF Served
  <2> QED BY <2>5 DEF RequestOrAnswer, Served, AsksOf, Waiting
<1>10. CASE CountRequest(c)
  <2>1. \A e \in Clients : Waiting(e)' <=> Waiting(e)
    BY <1>10, <1>0 DEF CountRequest, Waiting, LabelsOK, Goto
  <2> QED BY <1>10, <2>1, ServedFrame DEF CountRequest
<1>11. CASE GiveUp(c)
  <2>1. \A e \in Clients : Waiting(e)' <=> Waiting(e)
    BY <1>11, <1>0 DEF GiveUp, Waiting, LabelsOK, Goto
  <2> QED BY <1>11, <2>1, ServedFrame DEF GiveUp
<1>12. CASE ReceiveConn(c)
  <2>1. /\ Waiting(c) /\ ~Waiting(c)'
        /\ \A e \in Clients \ {c} : Waiting(e)' <=> Waiting(e)
    <3>1. Goto(c, "close") \/ Goto(c, "using")
      BY <1>12 DEF ReceiveConn, ResetSession
    <3>2. pc[c] = "wait"
      BY <1>12 DEF ReceiveConn
    <3>3. CASE Goto(c, "close")
      BY <1>0, <3>2, <3>3 DEF Waiting, Goto, LabelsOK
    <3>4. CASE Goto(c, "using")
      BY <1>0, <3>2, <3>4 DEF Waiting, Goto, LabelsOK
    <3> QED BY <3>1, <3>3, <3>4
  <2>2. /\ response[c] # None /\ response'[c] = None
        /\ \A e \in Clients \ {c} : response'[e] = response[e]
    BY <1>12, ProcsAssumption DEF ReceiveConn, SharedOK
  <2>3. UNCHANGED <<pool, connRequests>>
    BY <1>12 DEF ReceiveConn
  <2>4. \A e \in Clients : AsksOf(e)' = AsksOf(e)
    BY <2>3 DEF AsksOf
  <2>5. \A e \in Clients : Served(e)'
    BY <1>00, <2>1, <2>2, <2>3, <2>4 DEF Served
  <2> QED BY <2>5 DEF RequestOrAnswer, Served, AsksOf, Waiting
<1>13. CASE ReceiveError(c)
  <2>1. /\ Waiting(c) /\ ~Waiting(c)'
        /\ \A e \in Clients \ {c} : Waiting(e)' <=> Waiting(e)
    BY <1>13, <1>0 DEF ReceiveError, Waiting, Goto, LabelsOK, NextAttempt
  <2>2. /\ response[c] # None /\ response'[c] = None
        /\ \A e \in Clients \ {c} : response'[e] = response[e]
    BY <1>13, ProcsAssumption DEF ReceiveError, SharedOK
  <2>3. UNCHANGED <<pool, connRequests>>
    BY <1>13 DEF ReceiveError
  <2>4. \A e \in Clients : AsksOf(e)' = AsksOf(e)
    BY <2>3 DEF AsksOf
  <2>5. \A e \in Clients : Served(e)'
    BY <1>00, <2>1, <2>2, <2>3, <2>4 DEF Served
  <2> QED BY <2>5 DEF RequestOrAnswer, Served, AsksOf, Waiting
<1>14. CASE Withdraw(c)
  <2>1. /\ Waiting(c) /\ ~Waiting(c)'
        /\ \A e \in Clients \ {c} : Waiting(e)' <=> Waiting(e)
    <3>1. Goto(c, "giveBack") \/ Goto(c, "return")
      BY <1>14 DEF Withdraw
    <3>2. pc[c] = "withdraw"
      BY <1>14 DEF Withdraw
    <3>3. CASE Goto(c, "giveBack")
      BY <1>0, <3>2, <3>3 DEF Waiting, Goto, LabelsOK
    <3>4. CASE Goto(c, "return")
      BY <1>0, <3>2, <3>4 DEF Waiting, Goto, LabelsOK
    <3> QED BY <3>1, <3>3, <3>4
  <2>2. pool[c] \in Pools
    BY <1>14, <1>0 DEF Withdraw, Located, Placed, Resting
  <2>3. /\ AsksOf(c)' = AsksOf(c) \ {pool[c]}
        /\ \A e \in Clients \ {c} : AsksOf(e)' = AsksOf(e)
    BY <1>14, <2>2 DEF Withdraw, AsksOf, SharedOK
  <2>4. /\ response'[c] = None
        /\ \A e \in Clients \ {c} : response'[e] = response[e]
        /\ UNCHANGED pool
    BY <1>14 DEF Withdraw, SharedOK
  <2>5. \A e \in Clients : Served(e)'
    BY <1>00, <2>1, <2>3, <2>4 DEF Served
  <2> QED BY <2>5 DEF RequestOrAnswer, Served, AsksOf, Waiting
<1> QED BY <1>1, <1>2, <1>3, <1>4, <1>5, <1>6, <1>7, <1>8, <1>9, <1>10, <1>11, <1>12, <1>13, <1>14 DEF BorrowSteps

LEMMA RequestStepReturn ==
    ASSUME TypeInv, RequestOrAnswer, NEW c \in Clients, ReturnSteps(c)
    PROVE  RequestOrAnswer'
<1> USE DEF TypeInv, TypeOK, control, request, sweep, locks, facade, context,
            waiters, idle, conns, At
<1>0. c \in Procs
  BY DEF Procs
<1>00. \A e \in Clients : Served(e)
  BY ServedByOne
<1>1. CASE PutConn(c)
  <2>1. /\ \A e \in Clients : Waiting(e)' <=> Waiting(e)
        /\ \A e \in Clients : Waiting(e) => pool'[e] = pool[e]
    BY <1>1, <1>0, OneMoves DEF PutConn, Waiting
  <2>2. pool[c] \in Pools /\ hand[c] \in Conns
    BY <1>1, <1>0 DEF PutConn, Located, Placed, Resting, Holding
  <2>3. PutConnection(pool[c], hand[c])
    BY <1>1 DEF PutConn
  <2> QED BY <2>1, <2>2, <2>3, PutServes
<1>2. CASE PutBadConn(c)
  <2>1. /\ \A e \in Clients : Waiting(e)' <=> Waiting(e)
        /\ \A e \in Clients : Waiting(e) => pool'[e] = pool[e]
    BY <1>2, <1>0, OneMoves DEF PutBadConn, Waiting
  <2> QED BY <1>2, <2>1, ServedFrame DEF PutBadConn
<1>3. CASE UnlockAndClose(c)
  <2>1. /\ \A e \in Clients : Waiting(e)' <=> Waiting(e)
        /\ \A e \in Clients : Waiting(e) => pool'[e] = pool[e]
    BY <1>3, <1>0, OneMoves DEF UnlockAndClose, Waiting
  <2> QED BY <1>3, <2>1, ServedFrame DEF UnlockAndClose
<1> QED BY <1>1, <1>2, <1>3 DEF ReturnSteps

LEMMA RequestStepClose ==
    ASSUME TypeInv, RequestOrAnswer, NEW x \in Clients \cup Pools,
           CloseSteps(x)
    PROVE  RequestOrAnswer'
<1> USE DEF TypeInv, TypeOK, control, request, sweep, locks, facade, context,
            waiters, idle, conns, At
<1>0. x \in Procs
  BY DEF Procs
<1>1. CASE CloseConn(x)
  <2>1. /\ \A e \in Clients : Waiting(e)' <=> Waiting(e)
        /\ \A e \in Clients : Waiting(e) => pool'[e] = pool[e]
    BY <1>1, <1>0, OneMoves DEF CloseConn, Waiting
  <2> QED BY <1>1, <2>1, ServedFrame DEF CloseConn
<1>2. CASE RemoveDep(x)
  <2>1. /\ \A e \in Clients : Waiting(e)' <=> Waiting(e)
        /\ \A e \in Clients : Waiting(e) => pool'[e] = pool[e]
    BY <1>2, <1>0, OneMoves DEF RemoveDep, Waiting
  <2> QED BY <1>2, <2>1, ServedFrame DEF RemoveDep
<1>3. CASE FinalClose(x)
  <2>1. /\ \A e \in Clients : Waiting(e)' <=> Waiting(e)
        /\ \A e \in Clients : Waiting(e) => pool'[e] = pool[e]
    BY <1>3, <1>0, OneMoves DEF FinalClose, Waiting
  <2> QED BY <1>3, <2>1, ServedFrame DEF FinalClose
<1> QED BY <1>1, <1>2, <1>3 DEF CloseSteps

LEMMA RequestStepMaybeOpen ==
    ASSUME TypeInv, RequestOrAnswer, NEW x \in Procs, MaybeOpen(x)
    PROVE  RequestOrAnswer'
<1> USE DEF TypeInv, TypeOK, control, request, sweep, locks, facade, context,
            waiters, idle, conns, At
<1>0. x \in Procs
  OBVIOUS
<1>00. x \in Clients => Resume(x) \notin {"count", "wait", "withdraw"}
  BY DEF Resume, NextAttempt
<1>1. CASE FindIdle(x)
  <2>1. /\ \A e \in Clients : Waiting(e)' <=> Waiting(e)
        /\ \A e \in Clients : Waiting(e) => pool'[e] = pool[e]
    BY <1>1, <1>0, OneMoves DEF FindIdle, Waiting
  <2> QED BY <1>1, <2>1, ServedFrame DEF FindIdle
<1>9. CASE RemoveOldest(x)
  <2>1. Goto(x, "evict") \/ UNCHANGED pc
    BY <1>9 DEF RemoveOldest
  <2>2. UNCHANGED <<pool, waiters>> /\ ~Waiting(x)
    BY <1>9 DEF RemoveOldest, Waiting
  <2>3. CASE UNCHANGED pc
    BY <2>2, <2>3, ServedFrame DEF Waiting
  <2> QED BY <2>1, <2>2, <2>3, OneMoves, ServedFrame
<1>2. CASE CloseOldest(x)
  BY <1>2, ServedFrame DEF CloseOldest, Waiting
<1>3. CASE CountNewConnections(x)
  <2>1. Goto(x, Resume(x)) \/ Goto(x, "visit")
    BY <1>3 DEF CountNewConnections
  <2>2. UNCHANGED <<pool, waiters>> /\ ~Waiting(x)
    BY <1>3 DEF CountNewConnections, Waiting
  <2> QED BY <1>00, <2>1, <2>2, OneMoves, ServedFrame
<1>4. CASE VisitPool(x)
  <2>1. Goto(x, "command") \/ UNCHANGED pc
    BY <1>4 DEF VisitPool
  <2>2. UNCHANGED <<pool, waiters>> /\ ~Waiting(x)
    BY <1>4 DEF VisitPool, Waiting
  <2>3. CASE UNCHANGED pc
    BY <2>2, <2>3, ServedFrame DEF Waiting
  <2> QED BY <2>1, <2>2, <2>3, OneMoves, ServedFrame
<1>5. CASE RequestsMissing(x)
  BY <1>5, ServedFrame DEF RequestsMissing, Waiting
<1>6. CASE ReserveSlot(x)
  <2>1. Goto(x, Resume(x)) \/ Goto(x, "send")
    BY <1>6 DEF ReserveSlot
  <2>2. UNCHANGED <<pool, waiters>> /\ ~Waiting(x)
    BY <1>6 DEF ReserveSlot, Waiting
  <2> QED BY <1>00, <2>1, <2>2, OneMoves, ServedFrame
<1>7. CASE SendCommand(x)
  <2>1. /\ \A e \in Clients : Waiting(e)' <=> Waiting(e)
        /\ \A e \in Clients : Waiting(e) => pool'[e] = pool[e]
    BY <1>7, <1>0, OneMoves DEF SendCommand, Waiting
  <2> QED BY <1>7, <2>1, ServedFrame DEF SendCommand
<1>8. CASE EndMaybeOpen(x)
  <2>1. Goto(x, Resume(x)) /\ UNCHANGED <<pool, waiters>> /\ ~Waiting(x)
    BY <1>8 DEF EndMaybeOpen, Waiting
  <2> QED BY <1>00, <2>1, OneMoves, ServedFrame
<1> QED BY <1>1, <1>2, <1>3, <1>4, <1>5, <1>6, <1>7, <1>8, <1>9 DEF MaybeOpen

LEMMA RequestStepOpener ==
    ASSUME TypeInv, RequestOrAnswer, OpenerStep
    PROVE  RequestOrAnswer'
<1> USE DEF TypeInv, TypeOK, control, request, sweep, locks, facade, context,
            waiters, idle, conns, At
<1>0. Opener \in Procs /\ Opener \notin Clients
  BY ProcsAssumption DEF Procs
<1>00. pc[Opener] \notin Resting => pool[Opener] \in Pools
  BY <1>0 DEF Located, Placed
<1>1. CASE OpenerStops
  <2>1. /\ \A e \in Clients : Waiting(e)' <=> Waiting(e)
        /\ \A e \in Clients : Waiting(e) => pool'[e] = pool[e]
    BY <1>1, <1>0, OneMoves DEF OpenerStops, Waiting
  <2> QED BY <1>1, <2>1, ServedFrame DEF OpenerStops
<1>2. CASE TakeCommand
  <2>1. \A e \in Clients : pool'[e] = pool[e]
    BY <1>2, <1>0 DEF TakeCommand, LocalsOK, Procs
  <2>2. \A e \in Clients : Waiting(e)' <=> Waiting(e)
    BY <1>2, <1>0 DEF TakeCommand, Goto, LabelsOK, Waiting, Procs
  <2> QED BY <1>2, <2>1, <2>2, ServedFrame DEF TakeCommand
<1>3. CASE StatsPool
  BY <1>3, ServedFrame DEF StatsPool, Waiting
<1>4. CASE StatsFacade
  <2>1. /\ \A e \in Clients : Waiting(e)' <=> Waiting(e)
        /\ \A e \in Clients : Waiting(e) => pool'[e] = pool[e]
    BY <1>4, <1>0, OneMoves DEF StatsFacade, Waiting
  <2> QED BY <1>4, <2>1, ServedFrame DEF StatsFacade
<1>5. CASE Dial
  <2>1. /\ \A e \in Clients : Waiting(e)' <=> Waiting(e)
        /\ \A e \in Clients : Waiting(e) => pool'[e] = pool[e]
    BY <1>5, <1>0, OneMoves DEF Dial, Waiting
  <2>2. PICK d \in Conns : PutConnection(pool[Opener], d)
    BY <1>5 DEF Dial
  <2>3. pool[Opener] \in Pools
    BY <1>5, <1>00 DEF Dial, Resting
  <2> QED BY <2>1, <2>2, <2>3, PutServes
<1>6. CASE DialFails
  <2>1. /\ \A e \in Clients : Waiting(e)' <=> Waiting(e)
        /\ \A e \in Clients : Waiting(e) => pool'[e] = pool[e]
    BY <1>6, <1>0, OneMoves DEF DialFails, Waiting
  <2> QED BY <1>6, <2>1, ServedFrame DEF DialFails
<1>7. CASE ReportRefusal
  <2>1. /\ \A e \in Clients : Waiting(e)' <=> Waiting(e)
        /\ \A e \in Clients : Waiting(e) => pool'[e] = pool[e]
    BY <1>7, <1>0, OneMoves DEF ReportRefusal, Waiting
  <2>2. AnswerRequest(pool[Opener], Refused) \/ UNCHANGED waiters
    BY <1>7 DEF ReportRefusal
  <2>3. pool[Opener] \in Pools
    BY <1>7, <1>00 DEF ReportRefusal, Resting
  <2> QED BY <2>1, <2>2, <2>3, AnswerServes, ServedFrame
<1>8. CASE DeferredUnlock
  <2>1. /\ \A e \in Clients : Waiting(e)' <=> Waiting(e)
        /\ \A e \in Clients : Waiting(e) => pool'[e] = pool[e]
    BY <1>8, <1>0, OneMoves DEF DeferredUnlock, Waiting
  <2> QED BY <1>8, <2>1, ServedFrame DEF DeferredUnlock
<1>9. CASE MaybeOpen(Opener)
  BY <1>9, <1>0, RequestStepMaybeOpen
<1> QED BY <1>1, <1>2, <1>3, <1>4, <1>5, <1>6, <1>7, <1>8, <1>9 DEF OpenerStep

LEMMA RequestStepCleaner ==
    ASSUME TypeInv, RequestOrAnswer, NEW p \in Pools, CleanerStep(p)
    PROVE  RequestOrAnswer'
<1> USE DEF TypeInv, TypeOK, control, request, sweep, locks, facade, context,
            waiters, idle, conns, At
<1>0. p \in Procs /\ p \notin Clients
  BY ProcsAssumption DEF Procs
<1>1. CASE CollectExpired(p)
  <2>1. /\ \A e \in Clients : Waiting(e)' <=> Waiting(e)
        /\ \A e \in Clients : Waiting(e) => pool'[e] = pool[e]
    BY <1>1, <1>0, OneMoves DEF CollectExpired, Waiting
  <2> QED BY <1>1, <2>1, ServedFrame DEF CollectExpired
<1>2. CASE CloseNextExpired(p)
  <2>1. /\ \A e \in Clients : Waiting(e)' <=> Waiting(e)
        /\ \A e \in Clients : Waiting(e) => pool'[e] = pool[e]
    BY <1>2, <1>0, OneMoves DEF CloseNextExpired, Waiting
  <2> QED BY <1>2, <2>1, ServedFrame DEF CloseNextExpired
<1>3. CASE SweepEnds(p)
  <2>1. /\ \A e \in Clients : Waiting(e)' <=> Waiting(e)
        /\ \A e \in Clients : Waiting(e) => pool'[e] = pool[e]
    BY <1>3, <1>0, OneMoves DEF SweepEnds, Waiting
  <2> QED BY <1>3, <2>1, ServedFrame DEF SweepEnds
<1>4. CASE CloseSteps(p)
  BY <1>4, RequestStepClose
<1>5. CASE MaybeOpen(p)
  BY <1>5, <1>0, RequestStepMaybeOpen
<1> QED BY <1>1, <1>2, <1>3, <1>4, <1>5 DEF CleanerStep

LEMMA RequestStep == ReqInv /\ [Next]_vars => ReqInv'
<1> SUFFICES ASSUME ReqInv, [Next]_vars PROVE RequestOrAnswer'
  BY TypeStep DEF ReqInv
<1> USE DEF ReqInv
<1>1. ASSUME NEW c \in Clients, StartOperation(c) \/ ClientStep(c)
      PROVE  RequestOrAnswer'
  <2>1. c \in Procs
    BY DEF Procs
  <2> QED BY <1>1, <2>1, RequestStepOperation, RequestStepBorrow, RequestStepReturn,
             RequestStepClose, RequestStepMaybeOpen DEF ClientStep
<1>2. ASSUME NEW p \in Pools, CleanerStep(p) PROVE RequestOrAnswer'
  BY <1>2, RequestStepCleaner
<1>3. CASE OpenerStep
  BY <1>3, RequestStepOpener
<1>4. CASE CloseFacade
  BY <1>4, ServedFrame DEF CloseFacade, control, Waiting
<1>5. CASE CancelContext
  BY <1>5, ServedFrame DEF CancelContext, control, Waiting
<1>6. CASE UNCHANGED vars
  BY <1>6, ServedFrame DEF vars, control, Waiting
<1> QED BY <1>1, <1>2, <1>3, <1>4, <1>5, <1>6 DEF Next

\* A client that waits is registered or answered, never both, and nobody else
\* is: no request is answered twice, answered after it was withdrawn, or lost.
THEOREM RequestsAnsweredOnce == Spec => []RequestOrAnswer
<1>1. Init => ReqInv
  <2>1. Init => RequestOrAnswer
    BY ProcsAssumption DEF Init, RequestOrAnswer, Procs
  <2> QED BY <2>1, TypeInit DEF ReqInv
<1>2. ReqInv => RequestOrAnswer
  BY DEF ReqInv
<1> QED BY <1>1, <1>2, RequestStep, PTL DEF Spec

=============================================================================
