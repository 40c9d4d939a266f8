---------------------------- MODULE FacadeProofs ----------------------------
(***************************************************************************)
(* What the facade keeps under its own mutex: its books (what numOpened    *)
(* counts, how far the limit can be exceeded, and what a pass of           *)
(* maybeOpenNewConnections may still give out) and its LRU list (every     *)
(* idle connection can be found by an eviction, and the list has no        *)
(* connection that was closed).                                            *)
(***************************************************************************)
EXTENDS HolderProofs

-----------------------------------------------------------------------------
(* The books *)

\* QuotaFits for one goroutine; once commands are given nothing is left to
\* distribute.
Fits(x) ==
    Commanding(x) =>
       /\ facadeLock = x
       /\ tally.quota > 0 => numOpened + Len(tally.commands) + tally.quota <= Limit
       /\ numOpened + Len(tally.commands)
             <= (IF pc[x] = "send" THEN Limit + 1
                 ELSE IF tally.commands = << >> THEN numOpened ELSE Limit)
       /\ pc[x] # "visit" => tally.quota <= 0

AllFit == \A x \in Procs : Fits(x)

\* While commands are given some client waits, so not all of them are past
\* canAddNewConn; and none passes it, since the mutex is held.
NotAllClaim == tally.commands # << >> => facadeLock # None /\ Claiming # Clients

BooksInv ==
    /\ HoldInv
    /\ AllFit
    /\ NotAllClaim /\ OvershootBounded
    /\ SlotsCounted /\ IsFiniteSet(LiveConns)

-----------------------------------------------------------------------------
(* What one goroutine's change of label does *)

\* The slots x takes at label l.
Share(x, l) ==
    IF \/ x \in Clients /\ l \in {"connect", "unclaim"}
       \/ x = Opener /\ l \in {"stats", "dial", "refused"}
       \/ l = "send"
    THEN 1 ELSE 0

OpenerShare == IF OpenerBusy THEN 1 ELSE 0
Shares == Cardinality(Openings) + Cardinality(Sending) + OpenerShare

LEMMA FiniteProcs ==
    /\ IsFiniteSet(Clients) /\ IsFiniteSet(Procs)
    /\ \A T : T \subseteq Procs => IsFiniteSet(T) /\ Cardinality(T) \in Nat
<1>1. IsFiniteSet(Procs)
  BY FiniteAssumption, FS_Union, FS_Singleton DEF Procs
<1> QED  BY <1>1, FiniteAssumption, FS_Subset, FS_CardinalityType

LEMMA ShareMoves ==
    ASSUME TypeInv, NEW x \in Procs, NEW l, Goto(x, l)
    PROVE  /\ Shares \in Nat /\ Shares' \in Nat
           /\ Shares' = Shares + Share(x, l) - Share(x, pc[x])
<1>1. pc'[x] = l /\ \A y \in Procs \ {x} : pc'[y] = pc[y]
  BY OneLabel
<1>2. /\ IsFiniteSet(Openings) /\ Cardinality(Openings) \in Nat
      /\ IsFiniteSet(Sending) /\ Cardinality(Sending) \in Nat
  BY FiniteProcs DEF Openings, Sending, Procs
<1>3. Opener \in Procs /\ Opener \notin Clients
  BY ProcsAssumption DEF Procs
<1>4. Openings' = IF x \in Clients /\ l \in {"connect", "unclaim"} THEN Openings \cup {x}
                                                                   ELSE Openings \ {x}
  BY <1>1 DEF Openings, Procs
<1>5. Sending' = IF l = "send" THEN Sending \cup {x} ELSE Sending \ {x}
  BY <1>1 DEF Sending
<1>6. OpenerBusy' <=> IF x = Opener THEN l \in {"stats", "dial", "refused"} ELSE OpenerBusy
  BY <1>1, <1>3 DEF OpenerBusy
<1>7. /\ x \in Openings <=> x \in Clients /\ pc[x] \in {"connect", "unclaim"}
      /\ x \in Sending <=> pc[x] = "send"
  BY DEF Openings, Sending
<1>8. Cardinality(Openings)' = Cardinality(Openings)
         + (IF x \in Clients /\ l \in {"connect", "unclaim"} THEN 1 ELSE 0)
         - (IF x \in Openings THEN 1 ELSE 0)
  <2>1. /\ Cardinality(Openings \cup {x}) = IF x \in Openings THEN Cardinality(Openings)
                                                              ELSE Cardinality(Openings) + 1
        /\ Cardinality(Openings \ {x}) = IF x \in Openings THEN Cardinality(Openings) - 1
                                                           ELSE Cardinality(Openings)
    BY <1>2, FS_AddElement, FS_RemoveElement
  <2> QED  BY <1>2, <1>4, <2>1
<1>9. Cardinality(Sending)' = Cardinality(Sending)
         + (IF l = "send" THEN 1 ELSE 0) - (IF x \in Sending THEN 1 ELSE 0)
  <2>1. /\ Cardinality(Sending \cup {x}) = IF x \in Sending THEN Cardinality(Sending)
                                                            ELSE Cardinality(Sending) + 1
        /\ Cardinality(Sending \ {x}) = IF x \in Sending THEN Cardinality(Sending) - 1
                                                         ELSE Cardinality(Sending)
    BY <1>2, FS_AddElement, FS_RemoveElement
  <2> QED  BY <1>2, <1>5, <2>1
<1>10. Cardinality(Openings)' \in Nat /\ Cardinality(Sending)' \in Nat
  <2>1. Openings' \subseteq Procs /\ Sending' \subseteq Procs
    BY <1>4, <1>5 DEF Openings, Sending, Procs
  <2> QED  BY <2>1, FiniteProcs
<1>11. x = Opener => (OpenerBusy <=> pc[x] \in {"stats", "dial", "refused"})
  BY DEF OpenerBusy
<1>12. CASE x \in Clients
  BY <1>2, <1>3, <1>6, <1>7, <1>8, <1>9, <1>10, <1>12 DEF Shares, Share, OpenerShare
<1>13. CASE x \notin Clients
  BY <1>2, <1>6, <1>7, <1>8, <1>9, <1>10, <1>11, <1>13 DEF Shares, Share, OpenerShare
<1> QED  BY <1>12, <1>13

LEMMA FitKept ==
    ASSUME BooksInv, HoldInv', NEW x \in Procs, \A y \in Procs \ {x} : pc'[y] = pc[y],
           UNCHANGED <<tally, numOpened>> \/ facadeLock \in {None, x}, Fits(x)'
    PROVE  AllFit'
<1> SUFFICES ASSUME NEW y \in Procs \ {x}, Commanding(y)' PROVE Fits(y)'
  BY DEF AllFit, Fits
<1>1. Commanding(y) /\ pc'[y] = pc[y]
  BY DEF Commanding
<1>2. Fits(y) /\ facadeLock = y
  BY <1>1 DEF BooksInv, AllFit, Fits
<1>3. UNCHANGED <<tally, numOpened>>
  BY <1>2, ProcsAssumption DEF Procs
<1>4. facadeLock' = y
  BY <1>1 DEF Commanding, HoldInv, TypeInv, Located, Placed, Locking
<1> QED  BY <1>1, <1>2, <1>3, <1>4 DEF Fits

LEMMA RaceKept ==
    ASSUME BooksInv, NEW x \in Procs, \A y \in Procs \ {x} : pc'[y] = pc[y],
           pc'[x] # "claim", numOpened' \in Int, numOpened' <= numOpened,
           tally'.commands # << >> =>
              facadeLock' # None /\ (tally.commands # << >> \/ Claiming' # Clients)
    PROVE  NotAllClaim' /\ OvershootBounded'
<1>1. Claiming' \subseteq Claiming /\ Claiming \subseteq Clients
  BY DEF Claiming, Procs
<1>2. Cardinality(Claiming') <= Cardinality(Claiming)
  BY <1>1, FiniteProcs, FS_Subset
<1>3. /\ Cardinality(Claiming') \in Nat /\ Cardinality(Claiming) \in Nat
      /\ Cardinality(Clients) \in Nat
  BY <1>1, FiniteProcs, FS_Subset, FS_CardinalityType
<1>4. OvershootBounded'
  BY <1>2, <1>3, BoundAssumption
     DEF OvershootBounded, BooksInv, HoldInv, TypeInv, TypeOK, SharedOK
<1>5. NotAllClaim'
  BY <1>1 DEF NotAllClaim, BooksInv
<1> QED  BY <1>4, <1>5

\* What is left of numOpened when the openings under way are taken away.
Stock == Cardinality(LiveConns) + Len(openerChannel)

LEMMA SlotsSplit ==
    ASSUME TypeInv, IsFiniteSet(LiveConns)
    PROVE  SlotsInUse = Stock + Shares /\ Stock \in Int /\ Shares \in Int /\ numOpened \in Int
<1>1. /\ Cardinality(LiveConns) \in Nat /\ Len(openerChannel) \in Nat /\ OpenerShare \in Nat
      /\ Cardinality(Openings) \in Nat /\ Cardinality(Sending) \in Nat
  BY FiniteProcs, FS_CardinalityType, LenProperties
     DEF TypeInv, TypeOK, SharedOK, Openings, Sending, OpenerShare, Procs
<1>2. SlotsInUse = Cardinality(LiveConns) + Cardinality(Openings) + Len(openerChannel)
                   + Cardinality(Sending) + OpenerShare
  BY DEF SlotsInUse, OpenerShare
<1>3. numOpened \in Int
  BY DEF TypeInv, TypeOK, SharedOK
<1> QED  BY <1>1, <1>2, <1>3 DEF Shares, Stock

LEMMA SlotsSplitNext ==
    (TypeInv /\ IsFiniteSet(LiveConns)
        => SlotsInUse = Stock + Shares /\ Stock \in Int /\ Shares \in Int /\ numOpened \in Int)'
<1>1. TypeInv /\ IsFiniteSet(LiveConns)
        => SlotsInUse = Stock + Shares /\ Stock \in Int /\ Shares \in Int /\ numOpened \in Int
  BY SlotsSplit
<1> QED  BY <1>1, PTL

\* The balance of a step: e connections or commands more, f openings more; a
\* facade that was closed may count g slots that nobody has.
LEMMA SlotsKept ==
    ASSUME BooksInv, HoldInv', NEW x \in Procs, NEW l, Goto(x, l), UNCHANGED closed,
           IsFiniteSet(LiveConns)',
           NEW e \in Int, NEW f \in Int, NEW g \in Nat,
           Stock' = Stock + e, Share(x, l) = Share(x, pc[x]) + f,
           numOpened' = numOpened + e + f + g, ~closed => g = 0
    PROVE  SlotsCounted'
<1>1. /\ SlotsInUse = Stock + Shares /\ Stock \in Int /\ Shares \in Int /\ numOpened \in Int
      /\ SlotsInUse' = Stock' + Shares'
  BY SlotsSplit, SlotsSplitNext DEF BooksInv, HoldInv
<1>2. Shares' = Shares + f
  <2>1. Shares' = Shares + Share(x, l) - Share(x, pc[x])
    BY ShareMoves DEF BooksInv, HoldInv
  <2>2. Share(x, pc[x]) \in Int
    BY DEF Share
  <2>3. \A s, u \in Int : s + (u + f) - u = s + f
    OBVIOUS
  <2> QED  BY Zenon, <1>1, <2>1, <2>2, <2>3
<1>3. SlotsInUse' = (Stock + e) + (Shares + f)
  BY Zenon, <1>1, <1>2
<1>4. \A m, s, t \in Int :
         /\ m >= s + t => m + e + f + g >= (s + e) + (t + f)
         /\ m = s + t /\ g = 0 => m + e + f + g = (s + e) + (t + f)
  OBVIOUS
<1>5. numOpened >= Stock + Shares /\ (~closed => numOpened = Stock + Shares)
  BY Zenon, <1>1 DEF BooksInv, SlotsCounted
<1>6. numOpened' >= SlotsInUse'
  <2>1. numOpened + e + f + g >= (Stock + e) + (Shares + f)
    BY Zenon, <1>1, <1>4, <1>5
  <2> QED  BY Zenon, <1>3, <2>1
<1>7. ASSUME ~closed' PROVE numOpened' = SlotsInUse'
  <2>1. ~closed
    BY Zenon, <1>7
  <2>2. g = 0 /\ numOpened = Stock + Shares
    BY Zenon, <1>5, <2>1
  <2>3. numOpened + e + f + g = (Stock + e) + (Shares + f)
    BY Zenon, <1>1, <1>4, <2>2
  <2> QED  BY Zenon, <1>3, <2>3
<1> QED  BY <1>6, <1>7 DEF SlotsCounted

Booked == /\ AllFit' /\ NotAllClaim' /\ OvershootBounded'
          /\ SlotsCounted' /\ IsFiniteSet(LiveConns)'

LEMMA SlotsSame ==
    ASSUME BooksInv, HoldInv', NEW x \in Procs, NEW l, Goto(x, l),
           UNCHANGED <<numOpened, openerChannel, closed, owner>>,
           Share(x, l) = Share(x, pc[x])
    PROVE  SlotsCounted' /\ IsFiniteSet(LiveConns)'
<1>1. LiveConns' = LiveConns
  BY DEF LiveConns
<1>2. Stock' = Stock /\ Stock \in Int /\ numOpened \in Int /\ Share(x, l) \in Int
  BY <1>1, SlotsSplit DEF BooksInv, HoldInv, Stock, Share
<1>3. Stock' = Stock + 0 /\ Share(x, l) = Share(x, pc[x]) + 0
      /\ numOpened' = numOpened + 0 + 0 + 0
  BY <1>2
<1> QED  BY <1>1, <1>3, SlotsKept DEF BooksInv

\* A step of x that no book is about.
LEMMA PlainBooked ==
    ASSUME BooksInv, HoldInv', NEW x \in Procs, NEW l, Goto(x, l),
           UNCHANGED <<numOpened, openerChannel, tally, facadeLock, closed, owner>>,
           l \notin {"claim", "visit", "command", "send"},
           Share(x, l) = Share(x, pc[x])
    PROVE  Booked
<1>1. pc'[x] = l /\ \A y \in Procs \ {x} : pc'[y] = pc[y]
  BY OneLabel DEF BooksInv, HoldInv
<1>2. AllFit'
  <2>1. Fits(x)'
    BY <1>1 DEF Fits, Commanding
  <2> QED  BY <1>1, <2>1, FitKept
<1>3. NotAllClaim' /\ OvershootBounded'
  BY <1>1, RaceKept DEF BooksInv, NotAllClaim, HoldInv, TypeInv, TypeOK, SharedOK
<1> QED  BY <1>2, <1>3, SlotsSame DEF Booked

\* A step in which nobody changes his label; the facade may be closed.
LEMMA IdleBooked ==
    ASSUME BooksInv, HoldInv',
           UNCHANGED <<pc, numOpened, openerChannel, tally, facadeLock, owner>>,
           closed' = closed \/ closed' = TRUE
    PROVE  Booked
<1>1. AllFit'
  BY DEF BooksInv, AllFit, Fits, Commanding
<1>2. NotAllClaim' /\ OvershootBounded'
  BY DEF BooksInv, NotAllClaim, OvershootBounded, Claiming
<1>3. SlotsCounted' /\ IsFiniteSet(LiveConns)'
  BY DEF BooksInv, SlotsCounted, SlotsInUse, LiveConns, Openings, Sending, OpenerBusy
<1> QED  BY <1>1, <1>2, <1>3 DEF Booked

-----------------------------------------------------------------------------
(* The steps that book slots *)

\* While the facade's mutex is free no command is under way.
LEMMA NoCommands ==
    ASSUME BooksInv, FacadeFree
    PROVE  tally.commands = << >>
BY DEF BooksInv, NotAllClaim, FacadeFree

\* canAddNewConn: each client that is past it was let through below the limit.
LEMMA CheckLimitBooked ==
    ASSUME BooksInv, HoldInv', NEW c \in Clients, CheckLimit(c)
    PROVE  Booked
<1>0. c \in Procs /\ c # Opener /\ None \notin Procs
  BY ProcsAssumption DEF Procs
<1>1. /\ pc[c] = "check" /\ FacadeFree
      /\ UNCHANGED <<numOpened, openerChannel, tally, facadeLock, closed, owner>>
  BY DEF CheckLimit, At, sweep, locks, facade, context, conns
<1>2. CASE Goto(c, "register")
  BY <1>0, <1>1, <1>2, PlainBooked DEF Share
<1>3. CASE numOpened < Limit /\ Goto(c, "claim")
  <2>1. pc'[c] = "claim" /\ \A y \in Procs \ {c} : pc'[y] = pc[y]
    BY <1>0, <1>3, OneLabel DEF BooksInv, HoldInv
  <2>2. AllFit'
    BY <1>0, <1>1, <2>1, FitKept DEF Fits, Commanding
  <2>3. OvershootBounded'
    <3>1. Cardinality(Claiming') <= Cardinality(Clients)
      BY FiniteProcs, FS_Subset DEF Claiming
    <3>2. Cardinality(Claiming') \in Nat /\ Cardinality(Clients) \in Nat
      BY FiniteProcs, FS_Subset, FS_CardinalityType DEF Claiming, Procs
    <3>3. numOpened \in Int /\ Limit \in Int
      BY BoundAssumption DEF BooksInv, HoldInv, TypeInv, TypeOK, SharedOK
    <3>4. \A m, k, n, a \in Int : m < a /\ k <= n => m + k < a + n
      OBVIOUS
    <3> QED  BY <1>1, <1>3, <3>1, <3>2, <3>3, <3>4 DEF OvershootBounded
  <2>4. NotAllClaim'
    BY <1>1, NoCommands DEF NotAllClaim
  <2>5. SlotsCounted' /\ IsFiniteSet(LiveConns)'
    BY <1>0, <1>1, <1>3, SlotsSame DEF Share
  <2> QED  BY <2>2, <2>3, <2>4, <2>5 DEF Booked
<1> QED  BY <1>2, <1>3 DEF CheckLimit

\* incrementNumOpened: the client trades its claim for a slot.
LEMMA ClaimSlotBooked ==
    ASSUME BooksInv, HoldInv', NEW c \in Clients, ClaimSlot(c)
    PROVE  Booked
<1>0. c \in Procs /\ c # Opener /\ None \notin Procs
  BY ProcsAssumption DEF Procs
<1>1. /\ pc[c] = "claim" /\ FacadeFree /\ numOpened' = numOpened + 1 /\ Goto(c, "connect")
      /\ UNCHANGED <<openerChannel, tally, facadeLock, closed, owner>>
  BY DEF ClaimSlot, At, sweep, locks, context, conns
<1>2. pc'[c] = "connect" /\ \A y \in Procs \ {c} : pc'[y] = pc[y]
  BY <1>0, <1>1, OneLabel DEF BooksInv, HoldInv
<1>3. AllFit'
  BY <1>0, <1>1, <1>2, FitKept DEF FacadeFree, Fits, Commanding
<1>4. OvershootBounded'
  <2>1. Claiming' = Claiming \ {c} /\ c \in Claiming /\ Claiming \subseteq Clients
    BY <1>0, <1>1, <1>2 DEF Claiming, Procs
  <2>2. Cardinality(Claiming') = Cardinality(Claiming) - 1
    BY <2>1, FiniteProcs, FS_Subset, FS_RemoveElement
  <2>3. /\ Cardinality(Claiming) \in Nat /\ Cardinality(Clients) \in Nat
        /\ numOpened \in Int /\ Limit \in Int
    BY <2>1, FiniteProcs, FS_Subset, FS_CardinalityType, BoundAssumption
       DEF BooksInv, HoldInv, TypeInv, TypeOK, SharedOK
  <2>4. \A m, k : m \in Int /\ k \in Int => (m + 1) + (k - 1) = m + k
    OBVIOUS
  <2> QED  BY <1>1, <2>2, <2>3, <2>4 DEF OvershootBounded, BooksInv
<1>5. NotAllClaim'
  BY <1>1, NoCommands DEF NotAllClaim
<1>6. SlotsCounted' /\ IsFiniteSet(LiveConns)'
  <2>1. LiveConns' = LiveConns
    BY <1>1 DEF LiveConns
  <2>2. Stock' = Stock + 0 /\ Share(c, "connect") = Share(c, pc[c]) + 1
    BY <1>0, <1>1, <2>1, SlotsSplit DEF BooksInv, HoldInv, Stock, Share
  <2>3. numOpened' = numOpened + 0 + 1 + 0
    BY <1>1, SlotsSplit DEF BooksInv, HoldInv
  <2> QED  BY <1>0, <1>1, <2>1, <2>2, <2>3, SlotsKept DEF BooksInv
<1> QED  BY <1>3, <1>4, <1>5, <1>6 DEF Booked

\* A step of x after which the books are right, by the balance of SlotsKept.
LEMMA SlotsMoved ==
    ASSUME BooksInv, HoldInv', NEW x \in Procs, NEW l, Goto(x, l),
           l \notin {"claim", "visit", "command", "send"},
           UNCHANGED <<tally, facadeLock, closed>>,
           numOpened' <= numOpened, UNCHANGED numOpened \/ FacadeFree,
           IsFiniteSet(LiveConns)', NEW e \in Int, NEW f \in Int,
           Stock' = Stock + e, Share(x, l) = Share(x, pc[x]) + f,
           numOpened' = numOpened + e + f + 0
    PROVE  Booked
<1>1. pc'[x] = l /\ \A y \in Procs \ {x} : pc'[y] = pc[y]
  BY OneLabel DEF BooksInv, HoldInv
<1>2. AllFit'
  BY <1>1, FitKept DEF FacadeFree, Fits, Commanding
<1>3. NotAllClaim' /\ OvershootBounded'
  BY <1>1, RaceKept DEF BooksInv, NotAllClaim, HoldInv, TypeInv, TypeOK, SharedOK
<1>4. SlotsCounted'
  BY SlotsKept
<1> QED  BY <1>2, <1>3, <1>4 DEF Booked

\* A driverConn is made for d, or d is closed for good.
LEMMA LiveMoves ==
    ASSUME BooksInv, NEW d \in Conns, NEW o, owner' = [owner EXCEPT ![d] = o]
    PROVE  /\ owner[d] = None /\ o # None =>
                 IsFiniteSet(LiveConns)' /\ Cardinality(LiveConns)' = Cardinality(LiveConns) + 1
           /\ owner[d] # None /\ o = None =>
                 IsFiniteSet(LiveConns)' /\ Cardinality(LiveConns)' = Cardinality(LiveConns) - 1
<1>1. owner'[d] = o /\ \A e \in Conns \ {d} : owner'[e] = owner[e]
  BY DEF BooksInv, HoldInv, TypeInv, TypeOK, SharedOK
<1>2. CASE owner[d] = None /\ o # None
  <2>1. LiveConns' = LiveConns \cup {d} /\ d \notin LiveConns
    BY <1>1, <1>2 DEF LiveConns
  <2> QED  BY <1>2, <2>1, FS_AddElement DEF BooksInv
<1>3. CASE owner[d] # None /\ o = None
  <2>1. LiveConns' = LiveConns \ {d} /\ d \in LiveConns
    BY <1>1, <1>3 DEF LiveConns
  <2> QED  BY <1>3, <2>1, FS_RemoveElement DEF BooksInv
<1> QED  BY <1>2, <1>3

LEMMA ConnectBooked ==
    ASSUME BooksInv, HoldInv', NEW c \in Clients, Connect(c)
    PROVE  Booked
<1>0. c \in Procs /\ c # Opener
  BY ProcsAssumption DEF Procs
<1>1. /\ pc[c] = "connect" /\ Goto(c, "using")
      /\ UNCHANGED <<numOpened, openerChannel, tally, facadeLock, closed>>
  BY DEF Connect, At, sweep, locks, facade, context
<1>2. PICK d \in Conns : owner[d] = None /\ owner' = [owner EXCEPT ![d] = pool[c]]
  BY DEF Connect
<1>3. pool[c] # None
  BY <1>0, <1>1, ProcsAssumption DEF BooksInv, HoldInv, TypeInv, Located, Placed, Resting
<1>4. IsFiniteSet(LiveConns)' /\ Cardinality(LiveConns)' = Cardinality(LiveConns) + 1
  BY <1>2, <1>3, LiveMoves
<1>5. Stock' = Stock + 1
  BY <1>1, <1>4, FS_CardinalityType, LenProperties
     DEF Stock, BooksInv, HoldInv, TypeInv, TypeOK, SharedOK
<1>6. Share(c, "using") = Share(c, pc[c]) + (-1)
  BY <1>0, <1>1 DEF Share
<1>7. numOpened' = numOpened + 1 + (-1) + 0 /\ numOpened' <= numOpened
  BY <1>1, SlotsSplit DEF BooksInv, HoldInv
<1> QED  BY <1>0, <1>1, <1>4, <1>5, <1>6, <1>7, SlotsMoved

LEMMA UnclaimSlotBooked ==
    ASSUME BooksInv, HoldInv', NEW c \in Clients, UnclaimSlot(c)
    PROVE  Booked
<1>0. c \in Procs /\ c # Opener
  BY ProcsAssumption DEF Procs
<1>1. /\ pc[c] = "unclaim" /\ FacadeFree /\ numOpened' = numOpened - 1 /\ Goto(c, "maybeOpen")
      /\ UNCHANGED <<openerChannel, tally, facadeLock, closed, owner>>
  BY DEF UnclaimSlot, At, sweep, locks, context, conns
<1>2. LiveConns' = LiveConns
  BY <1>1 DEF LiveConns
<1>3. Stock' = Stock + 0 /\ Share(c, "maybeOpen") = Share(c, pc[c]) + (-1)
  BY <1>0, <1>1, <1>2, SlotsSplit DEF BooksInv, HoldInv, Stock, Share
<1>4. numOpened' = numOpened + 0 + (-1) + 0 /\ numOpened' <= numOpened
  BY <1>1, SlotsSplit DEF BooksInv, HoldInv
<1> QED  BY <1>0, <1>1, <1>2, <1>3, <1>4, SlotsMoved DEF BooksInv

\* finalClose: the slot of a connection that was open is given up.
LEMMA FinalCloseBooked ==
    ASSUME BooksInv, HoldInv', NEW x \in Clients \cup Pools, FinalClose(x)
    PROVE  Booked
<1>0. x \in Procs /\ x # Opener
  BY ProcsAssumption DEF Procs
<1>1. /\ pc[x] = "finalClose" /\ FacadeFree /\ numOpened' = numOpened - 1 /\ Goto(x, "maybeOpen")
      /\ owner' = [owner EXCEPT ![hand[x]] = None]
      /\ UNCHANGED <<openerChannel, tally, facadeLock, closed>>
  BY DEF FinalClose, At, sweep, locks, context
<1>2. hand[x] \in Conns /\ Sound(hand[x])
  BY <1>0, <1>1 DEF BooksInv, HoldInv, TypeInv, Located, Placed, Holding, CloseLabels
<1>3. owner[hand[x]] # None
  BY <1>0, <1>2, FoundInHand, ProcsAssumption
<1>4. IsFiniteSet(LiveConns)' /\ Cardinality(LiveConns)' = Cardinality(LiveConns) - 1
  BY <1>1, <1>2, <1>3, LiveMoves
<1>5. Stock' = Stock + (-1)
  BY <1>1, <1>4, FS_CardinalityType, LenProperties
     DEF Stock, BooksInv, HoldInv, TypeInv, TypeOK, SharedOK
<1>6. Share(x, "maybeOpen") = Share(x, pc[x]) + 0
  BY <1>0, <1>1 DEF Share
<1>7. numOpened' = numOpened + (-1) + 0 + 0 /\ numOpened' <= numOpened
  BY <1>1, SlotsSplit DEF BooksInv, HoldInv
<1> QED  BY <1>0, <1>1, <1>4, <1>5, <1>6, <1>7, SlotsMoved

-----------------------------------------------------------------------------
(* The opener *)

LEMMA OpenerBooked ==
    ASSUME BooksInv, HoldInv',
           \/ OpenerStops \/ TakeCommand \/ StatsPool \/ StatsFacade
           \/ Dial \/ DialFails \/ ReportRefusal \/ DeferredUnlock
    PROVE  Booked
<1>0. Opener \in Procs /\ Opener \notin Clients
  BY ProcsAssumption DEF Procs
<1>1. CASE OpenerStops \/ StatsFacade \/ DialFails
  <2>1. PICK l \in {"stopped", "dial", "refused"} :
           /\ Goto(Opener, l)
           /\ \/ l = "stopped" /\ pc[Opener] = "listen"
              \/ l = "dial" /\ pc[Opener] = "stats"
              \/ l = "refused" /\ pc[Opener] = "dial"
    BY <1>1 DEF OpenerStops, StatsFacade, DialFails, At
  <2>2. UNCHANGED <<numOpened, openerChannel, tally, facadeLock, closed, owner>>
    BY <1>1 DEF OpenerStops, StatsFacade, DialFails, sweep, locks, facade, context, conns
  <2> QED  BY <1>0, <2>1, <2>2, PlainBooked DEF Share
<1>2. CASE StatsPool
  BY <1>2, IdleBooked DEF StatsPool, control, locks, facade, context, conns
<1>3. CASE DeferredUnlock
  <2>1. /\ pc[Opener] = "unlock" /\ Goto(Opener, "listen")
        /\ UNCHANGED <<numOpened, openerChannel, tally, facadeLock, closed, owner>>
    BY Zenon, <1>3 DEF DeferredUnlock, At, sweep, facade, context, conns
  <2> QED  BY <1>0, <2>1, PlainBooked DEF Share
<1>4. CASE TakeCommand
  <2>1. /\ pc[Opener] = "listen" /\ Goto(Opener, "stats")
        /\ openerChannel # << >> /\ openerChannel' = Tail(openerChannel)
        /\ UNCHANGED <<numOpened, tally, facadeLock, closed, owner>>
    BY <1>4 DEF TakeCommand, At, locks, context, conns
  <2>2. LiveConns' = LiveConns
    BY <2>1 DEF LiveConns
  <2>3. Stock' = Stock + (-1)
    <3>1. Len(openerChannel') = Len(openerChannel) - 1 /\ Len(openerChannel) \in Nat
      BY <2>1, HeadTailProperties, LenProperties
         DEF BooksInv, HoldInv, TypeInv, TypeOK, SharedOK
    <3> QED  BY <2>2, <3>1, FS_CardinalityType DEF Stock, BooksInv
  <2>4. Share(Opener, "stats") = Share(Opener, pc[Opener]) + 1
    BY <1>0, <2>1 DEF Share
  <2>5. numOpened' = numOpened + (-1) + 1 + 0 /\ numOpened' <= numOpened
    BY <2>1, SlotsSplit DEF BooksInv, HoldInv
  <2> QED  BY <1>0, <2>1, <2>2, <2>3, <2>4, <2>5, SlotsMoved DEF BooksInv
<1>5. CASE Dial
  <2>1. /\ pc[Opener] = "dial" /\ Goto(Opener, "listen")
        /\ UNCHANGED <<numOpened, openerChannel, tally, facadeLock, closed>>
    BY <1>5 DEF Dial, At, sweep, locks, facade, context
  <2>2. PICK d \in Conns : owner[d] = None /\ owner' = [owner EXCEPT ![d] = pool[Opener]]
    BY <1>5 DEF Dial
  <2>3. pool[Opener] # None
    BY <1>0, <2>1, ProcsAssumption DEF BooksInv, HoldInv, TypeInv, Located, Placed, Resting
  <2>4. IsFiniteSet(LiveConns)' /\ Cardinality(LiveConns)' = Cardinality(LiveConns) + 1
    BY <2>2, <2>3, LiveMoves
  <2>5. Stock' = Stock + 1
    BY <2>1, <2>4, FS_CardinalityType, LenProperties
       DEF Stock, BooksInv, HoldInv, TypeInv, TypeOK, SharedOK
  <2>6. Share(Opener, "listen") = Share(Opener, pc[Opener]) + (-1)
    BY <1>0, <2>1 DEF Share
  <2>7. numOpened' = numOpened + 1 + (-1) + 0 /\ numOpened' <= numOpened
    BY <2>1, SlotsSplit DEF BooksInv, HoldInv
  <2> QED  BY <1>0, <2>1, <2>4, <2>5, <2>6, <2>7, SlotsMoved
<1>6. CASE ReportRefusal
  <2>1. /\ pc[Opener] = "refused" /\ FacadeFree /\ numOpened' = numOpened - 1
        /\ Goto(Opener, "maybeOpen")
        /\ UNCHANGED <<openerChannel, tally, facadeLock, closed, owner>>
    BY <1>6 DEF ReportRefusal, At, sweep, context, conns
  <2>2. LiveConns' = LiveConns
    BY <2>1 DEF LiveConns
  <2>3. Stock' = Stock + 0 /\ Share(Opener, "maybeOpen") = Share(Opener, pc[Opener]) + (-1)
    BY <1>0, <2>1, <2>2, SlotsSplit DEF BooksInv, HoldInv, Stock, Share
  <2>4. numOpened' = numOpened + 0 + (-1) + 0 /\ numOpened' <= numOpened
    BY <2>1, SlotsSplit DEF BooksInv, HoldInv
  <2> QED  BY <1>0, <2>1, <2>2, <2>3, <2>4, SlotsMoved DEF BooksInv
<1> QED  BY <1>1, <1>2, <1>3, <1>4, <1>5, <1>6

-----------------------------------------------------------------------------
(* maybeOpenNewConnections *)

LEMMA ResumeLabel ==
    ASSUME NEW x \in Procs
    PROVE  Resume(x) \in {"discard", "return", "conn", "sweep", "unlock"}
BY ProcsAssumption DEF Resume, NextAttempt, Procs

\* A step of the goroutine that has the facade's mutex, or takes it, and that
\* books no slot.
LEMMA PassBooked ==
    ASSUME BooksInv, HoldInv', NEW x \in Procs, NEW l, Goto(x, l), l # "claim",
           UNCHANGED <<numOpened, openerChannel, closed, owner>>,
           facadeLock \in {None, x}, Share(x, l) = Share(x, pc[x]), Fits(x)',
           tally'.commands # << >> =>
              facadeLock' # None /\ (tally.commands # << >> \/ Claiming' # Clients)
    PROVE  Booked
<1>1. pc'[x] = l /\ \A y \in Procs \ {x} : pc'[y] = pc[y]
  BY OneLabel DEF BooksInv, HoldInv
<1>2. AllFit'
  BY <1>1, FitKept
<1>3. NotAllClaim' /\ OvershootBounded'
  <2>1. numOpened' \in Int /\ numOpened' <= numOpened
    BY DEF BooksInv, HoldInv, TypeInv, TypeOK, SharedOK
  <2> QED  BY <1>1, <2>1, RaceKept
<1> QED  BY <1>2, <1>3, SlotsSame DEF Booked

LEMMA EvictBooked ==
    ASSUME BooksInv, HoldInv', NEW x \in Procs,
           FindIdle(x) \/ RemoveOldest(x) \/ CloseOldest(x) \/ RequestsMissing(x)
    PROVE  Booked
<1>1. CASE FindIdle(x)
  <2>1. /\ pc[x] = "maybeOpen" /\ facadeLock = None /\ facadeLock' = x /\ Goto(x, "oldest")
        /\ UNCHANGED <<numOpened, openerChannel, tally, closed, owner>>
    BY <1>1 DEF FindIdle, At, FacadeFree, sweep, facade, context, conns
  <2>2. pc'[x] = "oldest"
    BY <2>1, OneLabel DEF BooksInv, HoldInv
  <2>3. Fits(x)' /\ tally'.commands = << >>
    BY <2>1, <2>2, NoCommands DEF Fits, Commanding, FacadeFree
  <2> QED  BY <2>1, <2>3, PassBooked DEF Share
<1>2. CASE RemoveOldest(x)
  <2>1. /\ pc[x] = "oldest"
        /\ UNCHANGED <<numOpened, openerChannel, facadeLock, closed, owner>>
        /\ \/ UNCHANGED <<pc, tally>>
           \/ Goto(x, "evict") /\ tally' = [NoTally EXCEPT !.victim = Head(lruCache)]
    BY Zenon, <1>2 DEF RemoveOldest, At, locks, facade, context, conns
  <2>2. facadeLock = x
    BY <2>1 DEF BooksInv, HoldInv, TypeInv, Located, Placed, Locking
  <2>3. CASE UNCHANGED <<pc, tally>>
    BY <2>1, <2>3, IdleBooked
  <2>4. CASE Goto(x, "evict") /\ tally' = [NoTally EXCEPT !.victim = Head(lruCache)]
    <3>1. pc'[x] = "evict" /\ tally'.commands = << >>
      BY <2>4, OneLabel DEF BooksInv, HoldInv, NoTally
    <3>2. Fits(x)'
      BY <3>1 DEF Fits, Commanding
    <3> QED  BY <2>1, <2>2, <2>4, <3>1, <3>2, PassBooked DEF Share
  <2> QED  BY <2>1, <2>3, <2>4
<1>3. CASE CloseOldest(x) \/ RequestsMissing(x)
  <2>1. UNCHANGED <<pc, numOpened, openerChannel, tally, facadeLock, owner, closed>>
    BY Zenon, <1>3 DEF CloseOldest, RequestsMissing, control, sweep, locks, facade, context, conns
  <2> QED  BY <2>1, IdleBooked
<1> QED  BY <1>1, <1>2, <1>3

LEMMA LesserIs ==
    ASSUME NEW a \in Int, NEW b \in Int
    PROVE  Lesser(a, b) \in Int /\ Lesser(a, b) <= a /\ Lesser(a, b) <= b /\ Lesser(a, b) \in {a, b}
BY DEF Lesser

LEMMA CountBooked ==
    ASSUME BooksInv, HoldInv', NEW x \in Procs, CountNewConnections(x)
    PROVE  Booked
<1> DEFINE quota == Lesser(waitCount, Limit - numOpened)
<1>1. /\ pc[x] = "maybeOpen" /\ facadeLock = None
      /\ UNCHANGED <<numOpened, openerChannel, closed, owner>>
  BY DEF CountNewConnections, At, FacadeFree, facade, context, conns
<1>2. tally.commands = << >>
  BY <1>1, NoCommands DEF FacadeFree
<1>3. CASE quota = 0
  <2>1. Goto(x, Resume(x)) /\ UNCHANGED <<facadeLock, tally>>
    BY <1>3 DEF CountNewConnections
  <2>2. pc'[x] = Resume(x)
    BY <2>1, OneLabel DEF BooksInv, HoldInv
  <2>3. Fits(x)'
    BY <2>2, ResumeLabel DEF Fits, Commanding
  <2>4. Share(x, Resume(x)) = Share(x, pc[x])
    BY <1>1, ResumeLabel DEF Share
  <2> QED  BY <1>1, <1>2, <2>1, <2>3, <2>4, ResumeLabel, PassBooked
<1>4. CASE quota # 0
  <2>1. /\ Goto(x, "visit") /\ facadeLock' = x
        /\ tally' = [NoTally EXCEPT !.quota = quota]
    BY <1>4 DEF CountNewConnections
  <2>2. pc'[x] = "visit"
    BY <2>1, OneLabel DEF BooksInv, HoldInv
  <2>3. tally'.quota = quota /\ tally'.commands = << >>
    BY <2>1 DEF NoTally
  <2>4. numOpened \in Int /\ Limit \in Int /\ waitCount \in Int
    BY BoundAssumption DEF BooksInv, HoldInv, TypeInv, TypeOK, SharedOK
  <2>5. numOpened + 0 + quota <= Limit /\ numOpened + 0 <= numOpened
    <3>1. \A m, a, w \in Int : m + 0 + Lesser(w, a - m) <= a /\ m + 0 <= m
      BY LesserIs
    <3> QED  BY <2>4, <3>1
  <2>6. Len(<< >>) = 0
    OBVIOUS
  <2> HIDE DEF quota
  <2>7. Fits(x)'
    BY <1>1, <2>1, <2>2, <2>3, <2>5, <2>6 DEF Fits
  <2> QED  BY <1>1, <2>1, <2>3, <2>7, PassBooked DEF Share
<1> QED  BY <1>3, <1>4

LEMMA EndBooked ==
    ASSUME BooksInv, HoldInv', NEW x \in Procs, EndMaybeOpen(x)
    PROVE  Booked
<1>1. /\ pc[x] = "command" /\ Goto(x, Resume(x)) /\ tally' = NoTally
      /\ UNCHANGED <<numOpened, openerChannel, closed, owner>>
  BY DEF EndMaybeOpen, At, facade, context, conns
<1>2. facadeLock = x /\ tally'.commands = << >>
  BY <1>1 DEF BooksInv, HoldInv, TypeInv, Located, Placed, Locking, NoTally
<1>3. Fits(x)' /\ Share(x, Resume(x)) = Share(x, pc[x])
  BY <1>1, OneLabel, ResumeLabel DEF BooksInv, HoldInv, Fits, Commanding, Share
<1> QED  BY <1>1, <1>2, <1>3, ResumeLabel, PassBooked

\* The commands for one pool.
LEMMA CommandsAdded ==
    ASSUME NEW s \in Seq(Pools), NEW p \in Pools, NEW n \in Int
    PROVE  /\ s \o [i \in 1..n |-> p] \in Seq(Pools)
           /\ Len(s \o [i \in 1..n |-> p]) = IF n > 0 THEN Len(s) + n ELSE Len(s)
           /\ n <= 0 /\ s = << >> => s \o [i \in 1..n |-> p] = << >>
<1> DEFINE q == [i \in 1..n |-> p]
<1>1. q \in Seq(Pools) /\ DOMAIN q = 1..n
  BY CommandsAreSeq
<1> HIDE DEF q
<1>2. Len(q) \in Nat /\ 1..Len(q) = 1..n
  BY <1>1, LenProperties
<1>3. Len(q) = IF n > 0 THEN n ELSE 0
  <2>1. \A m \in Nat : 1 \in 1..m <=> m > 0
    OBVIOUS
  <2>2. CASE n > 0
    BY <1>2, <2>2
  <2>3. CASE n <= 0
    <3>1. 1 \notin 1..n
      BY <2>3
    <3> QED  BY <1>2, <2>1, <2>3, <3>1
  <2> QED  BY <2>2, <2>3
<1>4. s \o q \in Seq(Pools) /\ Len(s \o q) = Len(s) + Len(q) /\ Len(s) \in Nat
  BY <1>1, ConcatProperties, LenProperties
<1>5. Len(s \o q) = IF n > 0 THEN Len(s) + n ELSE Len(s)
  BY <1>3, <1>4
<1>6. ASSUME n <= 0, s = << >> PROVE s \o q = << >>
  <2>1. Len(s \o q) = 0
    BY <1>5, <1>6
  <2> QED  BY <1>4, <2>1, EmptySeq
<1> QED  BY <1>4, <1>5, <1>6 DEF q

\* A pool in which somebody asks: not all clients are past canAddNewConn.
LEMMA AskedNotAllClaim ==
    ASSUME BooksInv, NEW p \in Pools, Cardinality(connRequests[p]) # 0
    PROVE  Claiming # Clients
<1>1. connRequests[p] # {}
  BY FS_EmptySet
<1>2. PICK c \in connRequests[p] : c \in Clients
  BY <1>1 DEF BooksInv, HoldInv, TypeInv, TypeOK, SharedOK
<1>3. pc[c] # "claim"
  BY <1>2 DEF BooksInv, HoldInv, RequestOrAnswer
<1> QED  BY <1>2, <1>3 DEF Claiming

\* n of a quota of q are given out after m + k slots.
LEMMA QuotaSpent ==
    ASSUME NEW m \in Int, NEW k \in Nat, NEW q \in Int, NEW n \in Int,
           n = 0 \/ n <= q, n >= 0 \/ n = q, q > 0 => m + k + q <= Limit
    PROVE  /\ n <= 0 /\ q - n > 0 => m + k + (q - n) <= Limit
           /\ n > 0 => m + (k + n) + (q - n) <= Limit /\ m + (k + n) <= Limit
BY BoundAssumption

\* A pool is visited: what it is given is taken from the quota.
LEMMA VisitPoolBooked ==
    ASSUME BooksInv, HoldInv', NEW x \in Procs, VisitPool(x)
    PROVE  Booked
<1> DEFINE p     == Head(route[x])
           asked == Cardinality(connRequests[p])
           n     == IF asked = 0 THEN 0 ELSE Lesser(asked, tally.quota)
           given == tally.commands \o [i \in 1..n |-> p]
<1>1. /\ pc[x] = "visit" /\ route[x] # << >>
      /\ tally' = [tally EXCEPT !.quota = @ - n, !.commands = given]
      /\ UNCHANGED <<numOpened, openerChannel, facadeLock, closed, owner>>
      /\ \/ Goto(x, "command") /\ tally.quota = n
         \/ UNCHANGED pc
  BY DEF VisitPool, At, locks, facade, context, conns
<1>2. /\ numOpened \in Int /\ tally.quota \in Int /\ tally.commands \in Seq(Pools)
      /\ p \in Pools /\ asked \in Nat
      /\ tally \in [quota : Int, commands : Seq(Pools), victim : Conns \cup {None}]
  <2>1. /\ numOpened \in Int /\ connRequests \in [Pools -> SUBSET Clients]
        /\ tally \in [quota : Int, commands : Seq(Pools), victim : Conns \cup {None}]
        /\ route[x] \in Seq(Pools)
    BY DEF BooksInv, HoldInv, TypeInv, TypeOK, SharedOK, LocalsOK
  <2>2. p \in Pools
    BY <1>1, <2>1, HeadTailProperties
  <2>3. asked \in Nat
    BY <2>1, <2>2, FiniteProcs DEF Procs
  <2> QED  BY <2>1, <2>2, <2>3
<1>3. n \in Int /\ (n = 0 \/ (n <= tally.quota /\ asked # 0 /\ n \in {asked, tally.quota}))
  <2>1. CASE asked = 0
    BY <2>1
  <2>2. CASE asked # 0
    BY <1>2, <2>2, LesserIs
  <2> QED  BY <2>1, <2>2
<1>4. n > 0 => asked # 0
  BY <1>3
<1> HIDE DEF n, asked
<1>5. /\ Len(given) = IF n > 0 THEN Len(tally.commands) + n ELSE Len(tally.commands)
      /\ n <= 0 /\ tally.commands = << >> => given = << >>
      /\ Len(tally.commands) \in Nat
  BY <1>2, <1>3, CommandsAdded, LenProperties
<1> HIDE DEF given
<1>6. /\ facadeLock = x
      /\ tally.quota > 0 => numOpened + Len(tally.commands) + tally.quota <= Limit
      /\ tally.commands # << >> => numOpened + Len(tally.commands) <= Limit
  BY <1>1 DEF BooksInv, AllFit, Fits, Commanding
<1>7. tally'.quota = tally.quota - n /\ tally'.commands = given
  BY <1>1, <1>2
<1>8. PICK l \in {"visit", "command"} :
         Goto(x, l) /\ pc'[x] = l /\ (l = "command" => tally.quota = n)
  <2>1. pc \in [Procs -> ClientLabels \cup CloseLabels \cup MaybeOpenLabels
                         \cup OpenerLabels \cup CleanerLabels]
    BY DEF BooksInv, HoldInv, TypeInv, TypeOK, LabelsOK
  <2>2. CASE UNCHANGED pc
    <3>1. pc' = [pc EXCEPT ![x] = "visit"]
      BY <1>1, <2>1, <2>2
    <3> QED  BY <1>1, <2>2, <3>1 DEF Goto
  <2>3. CASE Goto(x, "command") /\ tally.quota = n
    BY <2>1, <2>3 DEF Goto
  <2> QED  BY <1>1, <2>2, <2>3
<1>9. Claiming' = Claiming
  <2>1. \A y \in Procs \ {x} : pc'[y] = pc[y]
    BY <1>8, OneLabel DEF BooksInv, HoldInv
  <2>2. \A c \in Clients : pc'[c] = "claim" <=> pc[c] = "claim"
    BY <1>1, <1>8, <2>1 DEF Procs
  <2> QED  BY <2>2 DEF Claiming
<1>10. Fits(x)'
  <2>0. /\ n = 0 \/ n <= tally.quota
        /\ n >= 0 \/ n = tally.quota
    BY <1>2, <1>3
  <2>1. /\ n <= 0 /\ tally.quota - n > 0
              => numOpened + Len(tally.commands) + (tally.quota - n) <= Limit
        /\ n > 0 => /\ numOpened + (Len(tally.commands) + n) + (tally.quota - n) <= Limit
                    /\ numOpened + (Len(tally.commands) + n) <= Limit
    BY <1>2, <1>3, <1>5, <1>6, <2>0, QuotaSpent
  <2>2. tally'.quota > 0 => numOpened' + Len(tally'.commands) + tally'.quota <= Limit
    <3>1. CASE n > 0
      BY <1>1, <1>5, <1>7, <2>1, <3>1
    <3>2. CASE n <= 0
      <4>1. ~(n > 0)
        BY <1>3, <3>2
      <4> QED  BY <1>1, <1>5, <1>7, <2>1, <3>2, <4>1
    <3> QED  BY <1>3, <3>1, <3>2
  <2>3. numOpened' + Len(tally'.commands)
          <= (IF tally'.commands = << >> THEN numOpened' ELSE Limit)
    <3>1. CASE n > 0
      <4>1. Len(tally'.commands) = Len(tally.commands) + n /\ Len(tally'.commands) > 0
        BY <1>3, <1>5, <1>7, <3>1
      <4>2. tally'.commands # << >>
        BY <4>1
      <4> QED  BY <1>1, <2>1, <3>1, <4>1, <4>2
    <3>2. CASE n <= 0
      <4>1. Len(tally'.commands) = Len(tally.commands)
        BY <1>3, <1>5, <1>7, <3>2
      <4>2. CASE tally'.commands = << >>
        BY <1>1, <1>2, <4>2
      <4>3. CASE tally'.commands # << >>
        BY <1>1, <1>5, <1>6, <1>7, <3>2, <4>1, <4>3
      <4> QED  BY <4>2, <4>3
    <3> QED  BY <1>3, <3>1, <3>2
  <2>4. l = "command" => tally'.quota <= 0
    BY <1>2, <1>3, <1>7, <1>8
  <2> QED  BY <1>1, <1>6, <1>8, <2>2, <2>3, <2>4 DEF Fits
<1>11. tally'.commands # << >> => tally.commands # << >> \/ Claiming' # Clients
  <2>1. n > 0 => Claiming # Clients
    BY <1>2, <1>4, AskedNotAllClaim DEF asked
  <2> QED  BY <1>3, <1>5, <1>7, <1>9, <2>1
<1>12. facadeLock' # None
  BY <1>1, <1>6, ProcsAssumption DEF Procs
<1> QED  BY <1>1, <1>6, <1>8, <1>10, <1>11, <1>12, PassBooked DEF Share

\* Some client is not past canAddNewConn, so one more slot may be taken.
LEMMA RoomForOne ==
    ASSUME BooksInv, Claiming # Clients, numOpened < Limit, numOpened' = numOpened + 1,
           Claiming' \subseteq Claiming
    PROVE  OvershootBounded'
<1>1. Claiming \subseteq Clients
  BY DEF Claiming
<1>2. /\ Cardinality(Claiming') \in Nat /\ Cardinality(Claiming) \in Nat
      /\ Cardinality(Clients) \in Nat
      /\ Cardinality(Claiming') <= Cardinality(Claiming)
      /\ Cardinality(Claiming) < Cardinality(Clients)
  BY <1>1, FiniteProcs, FS_Subset, FS_CardinalityType
<1>3. numOpened \in Int /\ Limit \in Int
  BY BoundAssumption DEF BooksInv, HoldInv, TypeInv, TypeOK, SharedOK
<1>4. \A m, a, k, k1, n \in Int : m < a /\ k1 <= k /\ k < n => (m + 1) + k1 < a + n
  OBVIOUS
<1> QED  BY <1>2, <1>3, <1>4 DEF OvershootBounded

\* numOpened++ for a command, which a closed facade then drops.
LEMMA ReserveSlotBooked ==
    ASSUME BooksInv, HoldInv', NEW x \in Procs, ReserveSlot(x)
    PROVE  Booked
<1>1. /\ pc[x] = "command" /\ tally.commands # << >> /\ numOpened' = numOpened + 1
      /\ UNCHANGED <<openerChannel, closed, owner>>
      /\ \/ closed /\ Goto(x, Resume(x)) /\ facadeLock' = None /\ tally' = NoTally
         \/ Goto(x, "send") /\ UNCHANGED <<facadeLock, tally>>
  BY DEF ReserveSlot, At, context, conns
<1>2. PICK l \in {"send", Resume(x)} :
         /\ Goto(x, l)
         /\ \/ closed /\ l = Resume(x) /\ facadeLock' = None /\ tally' = NoTally
            \/ l = "send" /\ UNCHANGED <<facadeLock, tally>>
  BY <1>1
<1>3. pc'[x] = l /\ l # "claim" /\ \A y \in Procs \ {x} : pc'[y] = pc[y]
  BY <1>2, OneLabel, ResumeLabel DEF BooksInv, HoldInv
<1>4. /\ facadeLock = x /\ tally.quota <= 0 /\ numOpened + Len(tally.commands) <= Limit
  BY <1>1 DEF BooksInv, AllFit, Fits, Commanding
<1>5. /\ numOpened \in Int /\ Len(tally.commands) \in Nat \ {0} /\ tally.quota \in Int
      /\ Limit \in Int
  BY <1>1, EmptySeq, BoundAssumption
     DEF BooksInv, HoldInv, TypeInv, TypeOK, SharedOK, LocalsOK
<1>6. numOpened < Limit
  BY <1>4, <1>5
<1>7. Fits(x)'
  <2>1. CASE l = Resume(x)
    BY <1>3, <2>1, ResumeLabel DEF Fits, Commanding
  <2>2. CASE l = "send" /\ UNCHANGED <<facadeLock, tally>>
    <3>1. ~(tally'.quota > 0) /\ tally'.quota <= 0
      BY <1>4, <1>5, <2>2
    <3>2. numOpened' + Len(tally'.commands) <= Limit + 1
      <4>1. \A m, k, a \in Int : m + k <= a => (m + 1) + k <= a + 1
        OBVIOUS
      <4>2. (numOpened + 1) + Len(tally.commands) <= Limit + 1
        <5>1. Len(tally.commands) \in Int
          BY <1>5
        <5> QED  BY Zenon, <1>4, <1>5, <4>1, <5>1
      <4> QED  BY <1>1, <2>2, <4>2
    <3> QED  BY <1>3, <1>4, <2>2, <3>1, <3>2 DEF Fits
  <2> QED  BY <1>2, <2>1, <2>2
<1>8. AllFit'
  BY <1>3, <1>4, <1>7, FitKept
<1>9. OvershootBounded'
  <2>1. Claiming' \subseteq Claiming
    BY <1>3 DEF Claiming, Procs
  <2>2. Claiming # Clients
    BY <1>1 DEF BooksInv, NotAllClaim
  <2> QED  BY <1>1, <1>6, <2>1, <2>2, RoomForOne
<1>10. NotAllClaim'
  <2>1. CASE tally' = NoTally
    BY <2>1 DEF NotAllClaim, NoTally
  <2>2. CASE l = "send" /\ UNCHANGED <<facadeLock, tally>>
    <3>1. Claiming' = Claiming
      BY <1>1, <1>3 DEF Claiming, Procs
    <3> QED  BY <2>2, <3>1 DEF BooksInv, NotAllClaim
  <2> QED  BY <1>2, <2>1, <2>2
<1>11. SlotsCounted' /\ IsFiniteSet(LiveConns)'
  <2>1. LiveConns' = LiveConns
    BY <1>1 DEF LiveConns
  <2>2. Stock' = Stock + 0
    BY <1>1, <2>1, SlotsSplit DEF BooksInv, HoldInv, Stock
  <2>3. CASE closed /\ l = Resume(x)
    <3>1. Share(x, l) = Share(x, pc[x]) + 0
      BY <1>1, <2>3, ResumeLabel DEF Share
    <3>2. numOpened' = numOpened + 0 + 0 + 1
      BY <1>1, <1>5
    <3> QED  BY <1>1, <1>2, <2>1, <2>2, <2>3, <3>1, <3>2, SlotsKept DEF BooksInv
  <2>4. CASE l = "send"
    <3>1. Share(x, l) = Share(x, pc[x]) + 1
      BY <1>1, <2>4 DEF Share
    <3>2. numOpened' = numOpened + 0 + 1 + 0
      BY <1>1, <1>5
    <3> QED  BY <1>1, <1>2, <2>1, <2>2, <3>1, <3>2, SlotsKept DEF BooksInv
  <2> QED  BY <1>2, <2>3, <2>4
<1> QED  BY <1>8, <1>9, <1>10, <1>11 DEF Booked

LEMMA SendCommandBooked ==
    ASSUME BooksInv, HoldInv', NEW x \in Procs, SendCommand(x)
    PROVE  Booked
<1>1. /\ pc[x] = "send" /\ Goto(x, "command")
      /\ openerChannel' = Append(openerChannel, Head(tally.commands))
      /\ tally' = [tally EXCEPT !.commands = Tail(@)]
      /\ UNCHANGED <<numOpened, facadeLock, closed, owner>>
  BY DEF SendCommand, At, locks, context, conns
<1>2. pc'[x] = "command" /\ \A y \in Procs \ {x} : pc'[y] = pc[y]
  BY <1>1, OneLabel DEF BooksInv, HoldInv
<1>3. facadeLock = x /\ tally.quota <= 0 /\ numOpened + Len(tally.commands) <= Limit + 1
  BY <1>1 DEF BooksInv, AllFit, Fits, Commanding
<1>4. /\ numOpened \in Int /\ tally.quota \in Int /\ Limit \in Int
      /\ tally.commands \in Seq(Pools) /\ tally.commands # << >>
      /\ tally \in [quota : Int, commands : Seq(Pools), victim : Conns \cup {None}]
      /\ openerChannel \in Seq(Pools)
  BY <1>1, BoundAssumption
     DEF BooksInv, HoldInv, TypeInv, TypeOK, SharedOK, LocalsOK, Located, Placed
<1>5. /\ Len(tally.commands) \in Nat /\ Len(Tail(tally.commands)) = Len(tally.commands) - 1
      /\ Head(tally.commands) \in Pools
  BY <1>4, HeadTailProperties, LenProperties
<1>6. tally'.quota = tally.quota /\ tally'.commands = Tail(tally.commands)
  BY <1>1, <1>4
<1>7. Fits(x)'
  <2>1. ~(tally'.quota > 0) /\ tally'.quota <= 0
    BY <1>3, <1>4, <1>6
  <2>2. numOpened' + Len(tally'.commands)
          <= (IF tally'.commands = << >> THEN numOpened' ELSE Limit)
    <3>1. CASE tally'.commands = << >>
      <4>1. numOpened + 0 <= numOpened
        BY <1>4
      <4> QED  BY <1>1, <3>1, <4>1
    <3>2. CASE tally'.commands # << >>
      <4>1. \A m, k, a \in Int : m + k <= a + 1 => m + (k - 1) <= a
        OBVIOUS
      <4>2. numOpened + (Len(tally.commands) - 1) <= Limit
        BY <1>3, <1>4, <1>5, <4>1
      <4> QED  BY <1>1, <1>5, <1>6, <3>2, <4>2
    <3> QED  BY <3>1, <3>2
  <2> QED  BY <1>1, <1>2, <1>3, <2>1, <2>2 DEF Fits
<1>8. AllFit'
  BY <1>2, <1>3, <1>7, FitKept
<1>9. NotAllClaim' /\ OvershootBounded'
  <2>1. facadeLock' # None /\ numOpened' \in Int /\ numOpened' <= numOpened
    BY <1>1, <1>3, <1>4, ProcsAssumption DEF Procs
  <2> QED  BY <1>2, <1>4, <2>1, RaceKept
<1>10. SlotsCounted' /\ IsFiniteSet(LiveConns)'
  <2>1. LiveConns' = LiveConns
    BY <1>1 DEF LiveConns
  <2>2. Stock' = Stock + 1
    <3>1. Len(openerChannel') = Len(openerChannel) + 1 /\ Len(openerChannel) \in Nat
      BY <1>1, <1>4, <1>5, AppendProperties, LenProperties
    <3> QED  BY <2>1, <3>1, FS_CardinalityType DEF Stock, BooksInv
  <2>3. Share(x, "command") = Share(x, pc[x]) + (-1)
    BY <1>1 DEF Share
  <2>4. numOpened' = numOpened + 1 + (-1) + 0
    BY <1>1, <1>4
  <2> QED  BY <1>1, <2>1, <2>2, <2>3, <2>4, SlotsKept DEF BooksInv
<1> QED  BY <1>8, <1>9, <1>10 DEF Booked

-----------------------------------------------------------------------------
(* Every step *)

\* A step of x at labels that no book is about, whatever x is.
Plain(x) ==
    \E l \in {"return", "conn", "using", "check", "register", "count", "wait", "withdraw",
              "giveBack", "close", "discard", "removeDep", "finalClose", "idle", "maybeOpen",
              "sleep", "sweep"} :
       /\ Goto(x, l)
       /\ UNCHANGED <<numOpened, openerChannel, tally, facadeLock, closed, owner>>

LEMMA ClientPlain ==
    ASSUME NEW c \in Clients,
           \/ StartOperation(c) \/ EndOperation(c) \/ ReturnSteps(c)
           \/ ConnExpiredContext(c) \/ TakeFreeConn(c) \/ NoFreeConn(c)
           \/ RegisterRequest(c) \/ CountRequest(c)
           \/ ReceiveConn(c) \/ ReceiveError(c) \/ GiveUp(c) \/ Withdraw(c)
    PROVE  /\ Plain(c)
           /\ pc[c] \notin {"connect", "unclaim", "send"}
<1> USE DEF Plain, At, sweep, locks, facade, context, conns
<1>1. CASE StartOperation(c) \/ EndOperation(c) \/ ConnExpiredContext(c) \/ NoFreeConn(c)
  BY <1>1 DEF StartOperation, EndOperation, ConnExpiredContext, NoFreeConn
<1>2. CASE TakeFreeConn(c)
  BY <1>2 DEF TakeFreeConn, ResetSession
<1>3. CASE RegisterRequest(c) \/ CountRequest(c) \/ GiveUp(c) \/ Withdraw(c)
  BY <1>3 DEF RegisterRequest, CountRequest, GiveUp, Withdraw
<1>4. CASE ReceiveConn(c) \/ ReceiveError(c)
  BY <1>4 DEF ReceiveConn, ReceiveError, ResetSession, NextAttempt
<1>5. CASE PutConn(c) \/ PutBadConn(c)
  BY <1>5 DEF PutConn, PutBadConn
<1>6. CASE UnlockAndClose(c)
  BY Zenon, <1>6 DEF UnlockAndClose
<1> QED  BY <1>1, <1>2, <1>3, <1>4, <1>5, <1>6 DEF ReturnSteps

LEMMA CloserPlain ==
    ASSUME NEW x \in Procs,
           \/ CloseConn(x) \/ RemoveDep(x)
           \/ CollectExpired(x) \/ CloseNextExpired(x) \/ SweepEnds(x)
    PROVE  /\ Plain(x)
           /\ pc[x] \notin {"connect", "unclaim", "send"}
<1> USE DEF Plain, At, sweep, locks, facade, context, conns
<1>1. CASE CloseConn(x)
  BY Zenon, <1>1 DEF CloseConn
<1>2. CASE RemoveDep(x) \/ CollectExpired(x) \/ CloseNextExpired(x) \/ SweepEnds(x)
  BY <1>2 DEF RemoveDep, CollectExpired, CloseNextExpired, SweepEnds
<1> QED  BY <1>1, <1>2

LEMMA PlainIsBooked ==
    ASSUME BooksInv, HoldInv', NEW x \in Procs, x # Opener, Plain(x),
           pc[x] \notin {"connect", "unclaim", "send"}
    PROVE  Booked
<1>1. PICK l \in {"return", "conn", "using", "check", "register", "count", "wait", "withdraw",
                  "giveBack", "close", "discard", "removeDep", "finalClose", "idle", "maybeOpen",
                  "sleep", "sweep"} :
         /\ Goto(x, l)
         /\ UNCHANGED <<numOpened, openerChannel, tally, facadeLock, closed, owner>>
  BY DEF Plain
<1>2. Share(x, l) = Share(x, pc[x])
  BY DEF Share
<1> QED  BY <1>1, <1>2, PlainBooked

LEMMA MaybeOpenBooked ==
    ASSUME BooksInv, HoldInv', NEW x \in Procs, MaybeOpen(x)
    PROVE  Booked
BY EvictBooked, CountBooked, VisitPoolBooked, ReserveSlotBooked, SendCommandBooked, EndBooked
   DEF MaybeOpen

LEMMA NextBooked == BooksInv /\ HoldInv' /\ [Next]_vars => Booked
<1> SUFFICES ASSUME BooksInv, HoldInv', [Next]_vars PROVE Booked
  OBVIOUS
<1>1. ASSUME NEW c \in Clients, StartOperation(c) \/ ClientStep(c) PROVE Booked
  <2>1. c \in Procs /\ c # Opener
    BY ProcsAssumption DEF Procs
  <2>2. CASE StartOperation(c) \/ EndOperation(c) \/ ReturnSteps(c)
    BY <2>1, <2>2, ClientPlain, PlainIsBooked
  <2>3. CASE BorrowSteps(c)
    <3>1. CASE ConnectFails(c)
      <4>1. /\ pc[c] = "connect" /\ Goto(c, "unclaim")
            /\ UNCHANGED <<numOpened, openerChannel, tally, facadeLock, closed, owner>>
        BY <3>1 DEF ConnectFails, At, sweep, locks, facade, context, conns
      <4> QED  BY <2>1, <4>1, PlainBooked DEF Share
    <3>2. CASE \/ ConnExpiredContext(c) \/ TakeFreeConn(c) \/ NoFreeConn(c)
               \/ RegisterRequest(c) \/ CountRequest(c)
               \/ ReceiveConn(c) \/ ReceiveError(c) \/ GiveUp(c) \/ Withdraw(c)
      BY <2>1, <3>2, ClientPlain, PlainIsBooked
    <3> QED  BY <2>3, <3>1, <3>2, CheckLimitBooked, ClaimSlotBooked, ConnectBooked,
                UnclaimSlotBooked DEF BorrowSteps
  <2>4. CASE CloseSteps(c)
    BY <2>1, <2>4, CloserPlain, PlainIsBooked, FinalCloseBooked DEF CloseSteps
  <2> QED  BY <1>1, <2>1, <2>2, <2>3, <2>4, MaybeOpenBooked DEF ClientStep
<1>2. ASSUME NEW p \in Pools, CleanerStep(p) PROVE Booked
  <2>1. p \in Procs /\ p # Opener
    BY ProcsAssumption DEF Procs
  <2> QED  BY <1>2, <2>1, CloserPlain, PlainIsBooked, FinalCloseBooked, MaybeOpenBooked
              DEF CleanerStep, CloseSteps
<1>3. CASE OpenerStep
  <2>1. Opener \in Procs
    BY DEF Procs
  <2> QED  BY <1>3, <2>1, OpenerBooked, MaybeOpenBooked DEF OpenerStep
<1>4. CASE CloseFacade \/ CancelContext
  BY <1>4, IdleBooked DEF CloseFacade, CancelContext, control, sweep, locks, facade, conns
<1>5. CASE UNCHANGED vars
  BY <1>5, IdleBooked DEF vars, control, sweep, locks, facade, context, conns
<1> QED  BY <1>1, <1>2, <1>3, <1>4, <1>5 DEF Next

LEMMA BooksInit == Init => BooksInv
<1> SUFFICES ASSUME Init PROVE BooksInv
  OBVIOUS
<1>1. HoldInv
  BY HoldInit
<1>2. /\ \A x \in Procs : pc[x] \in {"idle", "sleep", "listen"}
      /\ tally.commands = << >> /\ numOpened = 0 /\ openerChannel = << >>
  BY ProcsAssumption DEF Init, Procs, NoTally
<1>3. AllFit /\ NotAllClaim
  BY <1>2 DEF AllFit, Fits, Commanding, NotAllClaim
<1>4. LiveConns = {} /\ Openings = {} /\ Sending = {} /\ Claiming = {} /\ ~OpenerBusy
  <2>1. LiveConns = {}
    BY DEF Init, LiveConns
  <2> QED  BY <1>2, <2>1 DEF Openings, Sending, Claiming, OpenerBusy, Procs
<1>5. IsFiniteSet({}) /\ Cardinality({}) = 0 /\ Len(<< >>) = 0
  BY FS_EmptySet
<1>6. SlotsCounted
  <2>1. SlotsInUse = 0
    BY <1>2, <1>4, <1>5 DEF SlotsInUse
  <2> QED  BY <1>2, <2>1 DEF SlotsCounted
<1>7. OvershootBounded
  <2>1. Cardinality(Clients) \in Nat
    BY FiniteProcs DEF Procs
  <2> QED  BY <1>2, <1>4, <1>5, <2>1, BoundAssumption DEF OvershootBounded
<1> QED  BY <1>1, <1>3, <1>4, <1>5, <1>6, <1>7 DEF BooksInv

LEMMA BooksStep == BooksInv /\ [Next]_vars => BooksInv'
BY HoldStep, NextBooked DEF BooksInv, Booked

LEMMA BooksAlways == Spec => []BooksInv
BY BooksInit, BooksStep, PTL DEF Spec

-----------------------------------------------------------------------------
(* What follows for the invariants of ConnPool *)

\* While a pass of maybeOpenNewConnections has the facade's mutex, the commands
\* it has still to give and the slots taken fit in the limit.
THEOREM QuotaAlwaysFits == Spec => []QuotaFits
<1>1. BooksInv => QuotaFits
  BY DEF BooksInv, AllFit, Fits, QuotaFits
<1> QED  BY <1>1, BooksAlways, PTL

\* The race between canAddNewConn and incrementNumOpened exceeds the limit by
\* less than the number of clients.
THEOREM LimitOvershoot == Spec => []OvershootBounded
<1>1. BooksInv => OvershootBounded
  BY DEF BooksInv
<1> QED  BY <1>1, BooksAlways, PTL

\* numOpened counts the connections, the openings under way and the commands
\* on their way to the opener, until the facade is closed exactly.
THEOREM SlotsAlwaysCounted == Spec => []SlotsCounted
<1>1. BooksInv => SlotsCounted
  BY DEF BooksInv
<1> QED  BY <1>1, BooksAlways, PTL

-----------------------------------------------------------------------------
(* The LRU list *)

NoDup(s) == \A i, j \in 1..Len(s) : s[i] = s[j] => i = j

InLru == ToSet(lruCache)
ListOK == NoDup(lruCache) /\ InLru \subseteq LiveConns

\* What an eviction took out of the list is its victim until it crashes.
Findable ==
    crash = "none" => \A p \in Pools : freeConn[p] \subseteq InLru \cup {tally.victim}
VictimHeld ==
    crash = "none" /\ tally.victim # None => \E x \in Procs : pc[x] = "evict"

\* A connection that removeConnFromLru took out is not put back before it is
\* closed for good.
Struck ==
    crash = "none" =>
       \A x \in Procs : pc[x] \in {"removeDep", "finalClose"} => hand[x] \notin InLru

LruInv == HoldInv /\ ListOK /\ Findable /\ VictimHeld /\ Struck

-----------------------------------------------------------------------------
(* What the operations of the list do to its elements *)

LEMMA Elements ==
    ASSUME NEW S, NEW s \in Seq(S)
    PROVE  /\ ToSet(s) = {s[i] : i \in 1..Len(s)} /\ Len(s) \in Nat
           /\ \A e : Contains(s, e) <=> e \in ToSet(s)
BY LenProperties DEF ToSet, Contains

LEMMA TailElements ==
    ASSUME NEW S, NEW s \in Seq(S), s # << >>, NoDup(s)
    PROVE  /\ Tail(s) \in Seq(S) /\ NoDup(Tail(s))
           /\ ToSet(Tail(s)) = ToSet(s) \ {Head(s)} /\ Head(s) \in ToSet(s)
<1> DEFINE t == Tail(s)
<1>1. /\ t \in Seq(S) /\ Len(t) = Len(s) - 1 /\ Head(s) = s[1] /\ Len(s) \in Nat \ {0}
      /\ \A i \in 1..Len(t) : t[i] = s[i + 1]
  BY HeadTailProperties, EmptySeq
<1> HIDE DEF t
<1>2. ToSet(t) = {t[i] : i \in 1..Len(t)} /\ ToSet(s) = {s[i] : i \in 1..Len(s)}
  BY <1>1, Elements
<1>3. NoDup(t)
  BY <1>1 DEF NoDup
<1>4. ToSet(t) \subseteq ToSet(s) \ {Head(s)}
  BY <1>1, <1>2 DEF NoDup
<1>5. ASSUME NEW e \in ToSet(s) \ {Head(s)} PROVE e \in ToSet(t)
  <2>1. PICK i \in 1..Len(s) : s[i] = e /\ i # 1
    BY <1>1, <1>2
  <2>2. i - 1 \in 1..Len(t) /\ t[i - 1] = e
    BY <1>1, <2>1
  <2> QED  BY <1>2, <2>2
<1>6. Head(s) \in ToSet(s)
  BY <1>1, <1>2
<1> QED  BY <1>1, <1>3, <1>4, <1>5, <1>6 DEF t

LEMMA AppendElements ==
    ASSUME NEW S, NEW s \in Seq(S), NEW d \in S, NoDup(s), d \notin ToSet(s)
    PROVE  /\ Append(s, d) \in Seq(S) /\ NoDup(Append(s, d)) /\ Append(s, d) # << >>
           /\ ToSet(Append(s, d)) = ToSet(s) \cup {d}
<1> DEFINE t == Append(s, d)
<1>1. /\ t \in Seq(S) /\ Len(t) = Len(s) + 1 /\ Len(s) \in Nat
      /\ \A i \in 1..Len(s) : t[i] = s[i]
      /\ t[Len(s) + 1] = d
  BY AppendProperties, LenProperties
<1> HIDE DEF t
<1>2. ToSet(t) = {t[i] : i \in 1..Len(t)} /\ ToSet(s) = {s[i] : i \in 1..Len(s)}
  BY <1>1, Elements
<1>3. 1..Len(t) = 1..Len(s) \cup {Len(s) + 1}
  BY <1>1
<1>4. NoDup(t)
  BY <1>1, <1>2, <1>3 DEF NoDup
<1>5. ToSet(t) = ToSet(s) \cup {d}
  BY <1>1, <1>2, <1>3
<1>6. t # << >>
  BY <1>1, EmptySeq
<1> QED  BY <1>1, <1>4, <1>5, <1>6 DEF t

LEMMA WithoutElements ==
    ASSUME NEW S, NEW s \in Seq(S), NEW d, NoDup(s)
    PROVE  /\ Without(s, d) \in Seq(S) /\ NoDup(Without(s, d))
           /\ ToSet(Without(s, d)) = ToSet(s) \ {d}
<1>1. CASE ~Contains(s, d)
  BY <1>1, Elements DEF Without
<1>2. CASE Contains(s, d)
  <2> DEFINE k == CHOOSE i \in 1..Len(s) : s[i] = d
             t == RemoveAt(s, k)
  <2>1. k \in 1..Len(s) /\ s[k] = d /\ Len(s) \in Nat
    BY <1>2, LenProperties DEF Contains
  <2>2. t = Without(s, d) /\ t \in Seq(S)
    BY <1>2, WithoutIsSeq DEF Without
  <2> HIDE DEF k
  <2>3. /\ Len(t) = Len(s) - 1
        /\ \A i \in 1..Len(t) : t[i] = IF i < k THEN s[i] ELSE s[i + 1]
    <3> DEFINE a == SubSeq(s, 1, k - 1)
               b == SubSeq(s, k + 1, Len(s))
    <3>1. /\ a \in Seq(S) /\ Len(a) = k - 1
          /\ \A i \in 1..(k - 1) : a[i] = s[i]
      <4>1. \A i \in 1..(k - 1) : s[i] \in S
        BY <2>1, ElementOfSeq
      <4>2. 1 \in Int /\ k - 1 \in Int /\ k - 1 - 1 + 1 = k - 1
        BY <2>1
      <4>3. /\ a \in Seq(S) /\ Len(a) = (IF 1 <= k - 1 THEN k - 1 - 1 + 1 ELSE 0)
            /\ \A i \in 1..(k - 1 - 1 + 1) : a[i] = s[1 + i - 1]
        BY <4>1, <4>2, SubSeqProperties
      <4> HIDE DEF a
      <4> QED  BY <2>1, <4>2, <4>3
    <3>2. /\ b \in Seq(S) /\ Len(b) = Len(s) - k
          /\ \A i \in 1..(Len(s) - k) : b[i] = s[k + i]
      <4>1. \A i \in (k + 1)..Len(s) : s[i] \in S
        BY <2>1, ElementOfSeq
      <4>2. k + 1 \in Int /\ Len(s) \in Int /\ Len(s) - (k + 1) + 1 = Len(s) - k
        BY <2>1
      <4>3. /\ b \in Seq(S)
            /\ Len(b) = (IF k + 1 <= Len(s) THEN Len(s) - (k + 1) + 1 ELSE 0)
            /\ \A i \in 1..(Len(s) - (k + 1) + 1) : b[i] = s[k + 1 + i - 1]
        BY <4>1, <4>2, SubSeqProperties
      <4> HIDE DEF b
      <4>4. Len(b) = Len(s) - k
        BY <2>1, <4>3
      <4>5. \A i \in 1..(Len(s) - k) : b[i] = s[k + i]
        <5> SUFFICES ASSUME NEW i \in 1..(Len(s) - k) PROVE b[i] = s[k + i]
          OBVIOUS
        <5>1. k + 1 + i - 1 = k + i
          BY <2>1
        <5> QED  BY <4>2, <4>3, <5>1
      <4> QED  BY <4>3, <4>4, <4>5
    <3>3. t = a \o b
      BY DEF RemoveAt
    <3> HIDE DEF a, b, t
    <3>4. /\ Len(t) = Len(a) + Len(b)
          /\ \A i \in 1..Len(a) + Len(b) : t[i] = IF i <= Len(a) THEN a[i] ELSE b[i - Len(a)]
      BY <3>1, <3>2, <3>3, ConcatProperties
    <3>5. Len(t) = Len(s) - 1
      BY <2>1, <3>1, <3>2, <3>4
    <3>6. ASSUME NEW i \in 1..Len(t) PROVE t[i] = IF i < k THEN s[i] ELSE s[i + 1]
      <4>1. CASE i < k
        BY <2>1, <3>1, <3>2, <3>4, <3>5, <4>1
      <4>2. CASE i >= k
        <5>1. i - (k - 1) \in 1..(Len(s) - k) /\ k + (i - (k - 1)) = i + 1
          BY <2>1, <3>5, <4>2
        <5>2. t[i] = b[i - (k - 1)]
          BY <2>1, <3>1, <3>2, <3>4, <3>5, <4>2
        <5>3. b[i - (k - 1)] = s[k + (i - (k - 1))]
          BY <3>2, <5>1
        <5>4. t[i] = s[i + 1]
          BY <5>1, <5>2, <5>3
        <5> QED  BY <2>1, <4>2, <5>4
      <4> QED  BY <2>1, <4>1, <4>2
    <3> QED  BY <3>5, <3>6
  <2> HIDE DEF t
  <2>4. ToSet(t) = {t[i] : i \in 1..Len(t)} /\ ToSet(s) = {s[i] : i \in 1..Len(s)}
    BY <2>2, Elements
  <2>5. NoDup(t)
    <3> DEFINE at(i) == IF i < k THEN i ELSE i + 1
    <3>1. /\ \A i \in 1..Len(t) : at(i) \in 1..Len(s) /\ t[i] = s[at(i)]
          /\ \A i, j \in 1..Len(t) : at(i) = at(j) => i = j
      BY <2>1, <2>3
    <3> HIDE DEF at
    <3> QED  BY <3>1 DEF NoDup
  <2>6. ToSet(t) \subseteq ToSet(s) \ {d}
    BY <2>1, <2>3, <2>4 DEF NoDup
  <2>7. ASSUME NEW e \in ToSet(s) \ {d} PROVE e \in ToSet(t)
    <3>1. PICK i \in 1..Len(s) : s[i] = e /\ i # k
      BY <2>1, <2>4
    <3>2. CASE i < k
      <4>1. i \in 1..Len(t) /\ t[i] = e
        BY <2>1, <2>3, <3>1, <3>2
      <4> QED  BY <2>4, <4>1
    <3>3. CASE i > k
      <4>1. i - 1 \in 1..Len(t) /\ t[i - 1] = e
        BY <2>1, <2>3, <3>1, <3>3
      <4> QED  BY <2>4, <4>1
    <3> QED  BY <2>1, <3>1, <3>2, <3>3
  <2> QED  BY <2>2, <2>5, <2>6, <2>7
<1> QED  BY <1>1, <1>2

-----------------------------------------------------------------------------
(* Steps that leave the list alone *)

Listed == ListOK' /\ Findable' /\ VictimHeld' /\ Struck'

\* Only x moves.
Others(x) == \A y \in Procs \ {x} : pc'[y] = pc[y] /\ hand'[y] = hand[y]

LEMMA ListStays ==
    ASSUME LruInv, crash = "none", NEW x \in Procs, Others(x), UNCHANGED lruCache,
           \A p \in Pools : freeConn'[p] \subseteq freeConn[p],
           \A d \in InLru : owner'[d] # None,
           crash' = "none" =>
              /\ tally'.victim = tally.victim /\ pc[x] # "evict"
              /\ pc'[x] \in {"removeDep", "finalClose"} => hand'[x] \notin InLru
    PROVE  Listed
<1>1. InLru' = InLru
  BY DEF InLru
<1>2. ListOK'
  BY <1>1 DEF LruInv, ListOK, LiveConns, NoDup
<1>3. Findable'
  BY <1>1 DEF LruInv, Findable
<1>4. VictimHeld'
  BY DEF LruInv, VictimHeld, Others
<1>5. Struck'
  BY <1>1 DEF LruInv, Struck, Others
<1> QED  BY <1>2, <1>3, <1>4, <1>5 DEF Listed

\* Nobody evicts unless he has the facade's mutex.
LEMMA NoVictim ==
    ASSUME LruInv, crash = "none", NEW x, facadeLock \in {None, x}, pc[x] # "evict"
    PROVE  tally.victim = None
<1> SUFFICES ASSUME NEW y \in Procs, pc[y] = "evict" PROVE FALSE
  BY DEF LruInv, VictimHeld
<1>1. facadeLock = y
  BY DEF LruInv, HoldInv, TypeInv, Located, Placed, Locking
<1> QED  BY <1>1, ProcsAssumption DEF Procs

LEMMA LiveStays ==
    ASSUME LruInv
    PROVE  /\ \A d \in InLru : d \in Conns /\ owner[d] # None
           /\ UNCHANGED owner => \A d \in InLru : owner'[d] # None
BY DEF LruInv, ListOK, LiveConns

\* x goes on to l and the connections stay, but for what it has in hand.
Onward(x, l) ==
    /\ crash = "none" /\ Goto(x, l) /\ UNCHANGED <<lruCache, owner, freeConn>>
    /\ UNCHANGED hand \/ \E h : hand' = [hand EXCEPT ![x] = h]
    /\ UNCHANGED tally \/ (facadeLock \in {None, x} /\ tally'.victim = None)

LEMMA OnwardListed ==
    ASSUME LruInv, NEW x \in Procs, NEW l, Onward(x, l), pc[x] # "evict",
           l \notin {"removeDep", "finalClose"}
    PROVE  Listed
<1>1. pc'[x] = l /\ \A y \in Procs \ {x} : pc'[y] = pc[y]
  BY OneLabel DEF LruInv, HoldInv, Onward
<1>2. Others(x)
  BY <1>1 DEF Others, Onward, LruInv, HoldInv, TypeInv, TypeOK, LocalsOK
<1>3. tally'.victim = tally.victim
  BY NoVictim DEF Onward
<1> QED  BY <1>1, <1>2, <1>3, ListStays, LiveStays DEF Onward

LEMMA ClientOnward ==
    ASSUME NEW c \in Clients,
           \/ StartOperation(c) \/ EndOperation(c)
           \/ ConnExpiredContext(c) \/ NoFreeConn(c) \/ CheckLimit(c) \/ ClaimSlot(c)
           \/ ConnectFails(c) \/ UnclaimSlot(c) \/ RegisterRequest(c) \/ CountRequest(c)
           \/ ReceiveConn(c) \/ ReceiveError(c) \/ GiveUp(c) \/ Withdraw(c)
           \/ PutBadConn(c) \/ UnlockAndClose(c)
    PROVE  \E l \in ClientLabels \cup {"close", "maybeOpen"} : Onward(c, l) /\ pc[c] # "evict"
<1> USE DEF Onward, At, sweep, idle, conns, waiters, ClientLabels
<1>1. CASE \/ StartOperation(c) \/ EndOperation(c) \/ ConnExpiredContext(c) \/ NoFreeConn(c)
           \/ CheckLimit(c) \/ ClaimSlot(c)
  BY <1>1 DEF StartOperation, EndOperation, ConnExpiredContext, NoFreeConn, CheckLimit, ClaimSlot
<1>2. CASE \/ ConnectFails(c) \/ UnclaimSlot(c) \/ RegisterRequest(c) \/ CountRequest(c) \/ GiveUp(c)
  BY <1>2 DEF ConnectFails, UnclaimSlot, RegisterRequest, CountRequest, GiveUp
<1>3. CASE ReceiveConn(c) \/ ReceiveError(c) \/ Withdraw(c)
  BY <1>3 DEF ReceiveConn, ReceiveError, ResetSession, NextAttempt, Withdraw
<1>4. CASE PutBadConn(c)
  BY <1>4 DEF PutBadConn
<1>5. CASE UnlockAndClose(c)
  BY Zenon, <1>5 DEF UnlockAndClose
<1> QED  BY <1>1, <1>2, <1>3, <1>4, <1>5

LEMMA TakeListed ==
    ASSUME LruInv, NEW c \in Clients, TakeFreeConn(c)
    PROVE  Listed
<1>0. c \in Procs
  BY DEF Procs
<1>1. /\ pc[c] = "conn" /\ crash = "none" /\ UNCHANGED <<lruCache, owner, tally>>
      /\ \E d : hand' = [hand EXCEPT ![c] = d]
      /\ \E d : freeConn' = [freeConn EXCEPT ![pool[c]] = @ \ {d}]
      /\ Goto(c, "using") \/ Goto(c, "close")
  BY DEF TakeFreeConn, ResetSession, At, sweep, conns
<1>2. pc'[c] \in {"using", "close"} /\ \A y \in Procs \ {c} : pc'[y] = pc[y]
  BY <1>0, <1>1, OneLabel DEF LruInv, HoldInv
<1>3. Others(c)
  BY <1>1, <1>2 DEF Others, LruInv, HoldInv, TypeInv, TypeOK, LocalsOK
<1>4. \A p \in Pools : freeConn'[p] \subseteq freeConn[p]
  BY <1>1 DEF LruInv, HoldInv, TypeInv, TypeOK, SharedOK
<1> QED  BY <1>0, <1>1, <1>2, <1>3, <1>4, ListStays, LiveStays

LEMMA ConnectListed ==
    ASSUME LruInv, NEW c \in Clients, Connect(c)
    PROVE  Listed
<1>0. c \in Procs
  BY DEF Procs
<1>1. /\ pc[c] = "connect" /\ crash = "none" /\ Goto(c, "using")
      /\ UNCHANGED <<lruCache, freeConn, tally>>
  BY DEF Connect, At, sweep, idle
<1>2. PICK d \in Conns : /\ owner[d] = None /\ owner' = [owner EXCEPT ![d] = pool[c]]
                         /\ hand' = [hand EXCEPT ![c] = d]
  BY DEF Connect
<1>3. pc'[c] = "using" /\ Others(c)
  BY <1>0, <1>1, <1>2, OneLabel DEF Others, LruInv, HoldInv, TypeInv, TypeOK, LocalsOK
<1>4. \A e \in InLru : owner'[e] # None
  BY <1>2, LiveStays DEF LruInv, HoldInv, TypeInv, TypeOK, SharedOK
<1> QED  BY <1>0, <1>1, <1>3, <1>4, ListStays

\* finalClose: the list has forgotten the connection before.
LEMMA FinalCloseListed ==
    ASSUME LruInv, NEW x \in Procs, FinalClose(x)
    PROVE  Listed
<1>1. /\ pc[x] = "finalClose" /\ crash = "none" /\ Goto(x, "maybeOpen")
      /\ owner' = [owner EXCEPT ![hand[x]] = None]
      /\ hand' = [hand EXCEPT ![x] = None]
      /\ UNCHANGED <<lruCache, freeConn, tally>>
  BY DEF FinalClose, At, sweep, idle
<1>2. pc'[x] = "maybeOpen" /\ Others(x)
  BY <1>1, OneLabel DEF Others, LruInv, HoldInv, TypeInv, TypeOK, LocalsOK
<1>3. hand[x] \notin InLru
  BY <1>1 DEF LruInv, Struck
<1>4. \A e \in InLru : owner'[e] # None
  BY <1>1, <1>3, LiveStays DEF LruInv, HoldInv, TypeInv, TypeOK, SharedOK
<1> QED  BY <1>1, <1>2, <1>4, ListStays

LEMMA CleanerListed ==
    ASSUME LruInv, NEW p \in Pools,
           CollectExpired(p) \/ CloseNextExpired(p) \/ SweepEnds(p)
    PROVE  Listed
<1>0. p \in Procs
  BY DEF Procs
<1>1. CASE CollectExpired(p)
  <2>1. /\ pc[p] = "sleep" /\ crash = "none" /\ Goto(p, "sweep")
        /\ UNCHANGED <<lruCache, owner, tally, hand>>
        /\ \E D : freeConn' = [freeConn EXCEPT ![p] = @ \ D]
    BY <1>1 DEF CollectExpired, At, conns
  <2>2. pc'[p] = "sweep" /\ Others(p)
    BY <1>0, <2>1, OneLabel DEF Others, LruInv, HoldInv
  <2>3. \A q \in Pools : freeConn'[q] \subseteq freeConn[q]
    BY <2>1 DEF LruInv, HoldInv, TypeInv, TypeOK, SharedOK
  <2> QED  BY <1>0, <2>1, <2>2, <2>3, ListStays, LiveStays
<1>2. CASE CloseNextExpired(p) \/ SweepEnds(p)
  <2>1. PICK l \in {"close", "sleep"} : Onward(p, l) /\ pc[p] = "sweep"
    BY <1>2 DEF CloseNextExpired, SweepEnds, Onward, At, sweep, idle, conns
  <2> QED  BY <1>0, <2>1, OnwardListed
<1> QED  BY <1>1, <1>2

-----------------------------------------------------------------------------
(* Steps that change the list *)

\* tryToSaveConnectionAsIdleLocked: nobody has d in hand any more.
LEMMA SaveListed ==
    ASSUME LruInv, crash = "none", NEW x \in Procs, Others(x),
           NEW p \in Pools, NEW d \in Conns, SaveAsIdle(p, d),
           owner'[d] # None, \A e \in InLru : owner'[e] # None, UNCHANGED tally,
           \A y \in Procs \ {x} : hand[y] # d,
           pc[x] # "evict", pc'[x] \notin {"removeDep", "finalClose"}
    PROVE  Listed
<1> DEFINE added == Append(Without(lruCache, d), d)
<1>1. freeConn' = [freeConn EXCEPT ![p] = @ \cup {d}] /\ PutConnToLru(d)
  BY DEF SaveAsIdle
<1>2. \/ lruCache' = added
      \/ lruCache' = Tail(added) /\ crash' # "none"
  BY Zenon, <1>1 DEF PutConnToLru
<1>3. lruCache \in Seq(Conns) /\ NoDup(lruCache) /\ InLru \subseteq Conns
  BY LiveStays DEF LruInv, ListOK, HoldInv, TypeInv, TypeOK, SharedOK
<1>4. /\ added \in Seq(Conns) /\ NoDup(added) /\ added # << >>
      /\ ToSet(added) = InLru \cup {d}
  <2>1. /\ Without(lruCache, d) \in Seq(Conns) /\ NoDup(Without(lruCache, d))
        /\ ToSet(Without(lruCache, d)) = InLru \ {d}
    BY <1>3, WithoutElements DEF InLru
  <2> QED  BY <2>1, AppendElements
<1> HIDE DEF added
<1>5. \/ InLru' = InLru \cup {d}
      \/ InLru' \subseteq InLru \cup {d} /\ crash' # "none"
  BY <1>2, <1>4, TailElements DEF InLru
<1>6. NoDup(lruCache')
  BY <1>2, <1>4, TailElements
<1>7. ListOK'
  BY <1>3, <1>5, <1>6 DEF ListOK, LiveConns, NoDup
<1>8. Findable'
  <2>1. \A q \in Pools : freeConn'[q] \subseteq freeConn[q] \cup {d}
    BY <1>1 DEF LruInv, HoldInv, TypeInv, TypeOK, SharedOK
  <2> QED  BY <1>5, <2>1 DEF LruInv, Findable
<1>9. VictimHeld'
  BY DEF LruInv, VictimHeld, Others
<1>10. Struck'
  BY <1>5 DEF LruInv, Struck, Others
<1> QED  BY <1>7, <1>8, <1>9, <1>10 DEF Listed

LEMMA PutListed ==
    ASSUME LruInv, NEW c \in Clients, PutConn(c)
    PROVE  Listed
<1>0. c \in Procs /\ None \notin Pools
  BY ProcsAssumption DEF Procs
<1>1. /\ pc[c] \in {"using", "giveBack"} /\ crash = "none" /\ Goto(c, "return")
      /\ PutConnection(pool[c], hand[c]) /\ hand' = [hand EXCEPT ![c] = None]
      /\ UNCHANGED <<owner, tally>>
  BY DEF PutConn, sweep
<1>2. pc'[c] = "return" /\ Others(c)
  BY <1>0, <1>1, OneLabel DEF Others, LruInv, HoldInv, TypeInv, TypeOK, LocalsOK
<1>3. hand[c] \in Conns /\ pool[c] \in Pools
  BY <1>0, <1>1 DEF LruInv, HoldInv, TypeInv, Located, Placed, Holding, Resting
<1>4. owner[hand[c]] \in Pools /\ HandOf(hand[c]) = {c}
  BY <1>0, <1>3, FoundInHand DEF LruInv, HoldInv, Found
<1>5. CASE HandOver(pool[c], hand[c])
  BY <1>0, <1>1, <1>2, <1>5, ListStays, LiveStays DEF HandOver, idle
<1>6. CASE SaveAsIdle(pool[c], hand[c])
  <2>1. \A y \in Procs \ {c} : hand[y] # hand[c]
    BY <1>4 DEF HandOf
  <2> QED  BY <1>0, <1>1, <1>2, <1>3, <1>4, <1>6, <2>1, SaveListed, LiveStays
<1> QED  BY <1>1, <1>5, <1>6 DEF PutConnection

LEMMA DialListed ==
    ASSUME LruInv, Dial
    PROVE  Listed
<1>0. Opener \in Procs /\ None \notin Pools
  BY ProcsAssumption DEF Procs
<1>1. /\ pc[Opener] = "dial" /\ crash = "none" /\ Goto(Opener, "listen")
      /\ UNCHANGED <<hand, tally>>
  BY DEF Dial, At, sweep
<1>2. PICK d \in Conns : /\ owner[d] = None /\ owner' = [owner EXCEPT ![d] = pool[Opener]]
                         /\ PutConnection(pool[Opener], d)
  BY DEF Dial
<1>3. pc'[Opener] = "listen" /\ Others(Opener)
  BY <1>0, <1>1, OneLabel DEF Others, LruInv, HoldInv
<1>4. pool[Opener] \in Pools
  BY <1>0, <1>1 DEF LruInv, HoldInv, TypeInv, Located, Placed, Resting
<1>5. owner'[d] # None /\ \A e \in InLru : owner'[e] # None
  BY <1>0, <1>2, <1>4, LiveStays DEF LruInv, HoldInv, TypeInv, TypeOK, SharedOK
<1>6. CASE HandOver(pool[Opener], d)
  BY <1>0, <1>1, <1>3, <1>5, <1>6, ListStays DEF HandOver, idle
<1>7. CASE SaveAsIdle(pool[Opener], d)
  <2>1. \A y \in Procs \ {Opener} : hand[y] # d
    BY <1>2, FoundNowhere DEF LruInv, HoldInv, Absent, Found, HandOf
  <2> QED  BY <1>0, <1>1, <1>3, <1>4, <1>5, <1>7, <2>1, SaveListed
<1> QED  BY <1>2, <1>6, <1>7 DEF PutConnection

\* removeConnFromLru: d, in the hand of x, leaves the list and is not idle.
LEMMA CloseConnListed ==
    ASSUME LruInv, NEW x \in Clients \cup Pools, CloseConn(x)
    PROVE  Listed
<1>0. x \in Procs
  BY DEF Procs
<1>1. /\ pc[x] = "close" /\ crash = "none" /\ Goto(x, "removeDep")
      /\ UNCHANGED <<hand, owner, tally, freeConn>>
      /\ \/ lruCache' = Without(lruCache, hand[x]) /\ UNCHANGED crash
         \/ crash' # "none" /\ UNCHANGED lruCache
  BY Zenon DEF CloseConn, At, sweep, conns
<1>2. pc'[x] = "removeDep" /\ Others(x)
  BY <1>0, <1>1, OneLabel DEF Others, LruInv, HoldInv
<1>3. CASE crash' # "none" /\ UNCHANGED lruCache
  BY <1>0, <1>1, <1>2, <1>3, ListStays, LiveStays
<1>4. CASE lruCache' = Without(lruCache, hand[x]) /\ UNCHANGED crash
  <2>1. lruCache \in Seq(Conns) /\ NoDup(lruCache)
    BY DEF LruInv, ListOK, HoldInv, TypeInv, TypeOK, SharedOK
  <2>2. NoDup(lruCache') /\ InLru' = InLru \ {hand[x]}
    BY <1>4, <2>1, WithoutElements DEF InLru
  <2>3. ListOK'
    BY <1>1, <2>2 DEF LruInv, ListOK, LiveConns, NoDup
  <2>4. \A p \in Pools : hand[x] \notin freeConn[p]
    <3>1. hand[x] \in Conns
      BY <1>0, <1>1 DEF LruInv, HoldInv, TypeInv, Located, Placed, Holding, CloseLabels
    <3>2. ShelvesOf(hand[x]) = {}
      BY <1>0, <3>1, FoundInHand DEF LruInv, HoldInv, Found
    <3> QED  BY <3>2 DEF ShelvesOf
  <2>5. Findable'
    BY <1>1, <2>2, <2>4 DEF LruInv, Findable
  <2>6. VictimHeld'
    BY <1>1, <1>2 DEF LruInv, VictimHeld, Others
  <2>7. Struck'
    BY <1>1, <1>2, <2>2 DEF LruInv, Struck, Others
  <2> QED  BY <2>3, <2>5, <2>6, <2>7 DEF Listed
<1> QED  BY <1>1, <1>3, <1>4

LEMMA RemoveDepListed ==
    ASSUME LruInv, NEW x \in Procs, RemoveDep(x)
    PROVE  Listed
<1>1. /\ pc[x] = "removeDep" /\ crash = "none" /\ Goto(x, "finalClose")
      /\ UNCHANGED <<hand, lruCache, owner, tally, freeConn>>
  BY DEF RemoveDep, At, sweep, idle, conns
<1>2. Others(x) /\ hand'[x] \notin InLru
  BY <1>1, OneLabel DEF Others, LruInv, Struck, HoldInv
<1> QED  BY <1>1, <1>2, ListStays, LiveStays

\* The oldest entry becomes the victim; there was none before.
LEMMA RemoveOldestListed ==
    ASSUME LruInv, NEW x \in Procs, RemoveOldest(x)
    PROVE  Listed
<1>1. /\ pc[x] = "oldest" /\ crash = "none" /\ UNCHANGED <<hand, owner, freeConn>>
      /\ \/ crash' # "none" /\ UNCHANGED <<pc, tally, lruCache>>
         \/ /\ lruCache # << >> /\ tally' = [NoTally EXCEPT !.victim = Head(lruCache)]
            /\ lruCache' = Tail(lruCache) /\ Goto(x, "evict")
  BY Zenon DEF RemoveOldest, At, conns
<1>2. facadeLock = x
  BY <1>1 DEF LruInv, HoldInv, TypeInv, Located, Placed, Locking
<1>3. CASE crash' # "none" /\ UNCHANGED <<pc, tally, lruCache>>
  BY <1>1, <1>3, ListStays, LiveStays DEF Others
<1>4. CASE /\ lruCache # << >> /\ tally' = [NoTally EXCEPT !.victim = Head(lruCache)]
           /\ lruCache' = Tail(lruCache) /\ Goto(x, "evict")
  <2>1. lruCache \in Seq(Conns) /\ NoDup(lruCache) /\ lruCache # << >>
    BY <1>4 DEF LruInv, ListOK, HoldInv, TypeInv, TypeOK, SharedOK
  <2>2. NoDup(lruCache') /\ InLru' = InLru \ {Head(lruCache)}
    BY <1>4, <2>1, TailElements DEF InLru
  <2>3. pc'[x] = "evict" /\ Others(x) /\ tally'.victim = Head(lruCache)
    BY <1>1, <1>4, OneLabel DEF Others, LruInv, HoldInv, NoTally
  <2>4. ListOK'
    BY <1>1, <2>2 DEF LruInv, ListOK, LiveConns, NoDup
  <2>5. Findable'
    <3>1. \A p \in Pools : freeConn[p] \subseteq InLru
      <4>1. tally.victim = None
        BY <1>1, <1>2, NoVictim
      <4> QED  BY <1>1, <4>1, ProcsAssumption
              DEF LruInv, Findable, HoldInv, TypeInv, TypeOK, SharedOK
    <3> QED  BY <1>1, <2>2, <2>3, <3>1 DEF Findable
  <2>6. VictimHeld'
    BY <2>3 DEF VictimHeld
  <2>7. Struck'
    BY <1>1, <2>2, <2>3 DEF LruInv, Struck, Others
  <2> QED  BY <2>4, <2>5, <2>6, <2>7 DEF Listed
<1> QED  BY <1>1, <1>3, <1>4

LEMMA MaybeOpenListed ==
    ASSUME LruInv, NEW x \in Procs, MaybeOpen(x)
    PROVE  Listed
<1>1. CASE CloseOldest(x) \/ RequestsMissing(x)
  <2>1. crash = "none" /\ crash' # "none" /\ UNCHANGED <<pc, hand, lruCache, owner>>
    BY Zenon, <1>1 DEF CloseOldest, RequestsMissing, At, control, idle, conns
  <2>2. \A p \in Pools : freeConn'[p] \subseteq freeConn[p]
    <3>1. CASE CloseOldest(x)
      <4>1. \E p, d : freeConn' = [freeConn EXCEPT ![p] = @ \ {d}]
        BY Zenon, <3>1 DEF CloseOldest
      <4> QED  BY <4>1 DEF LruInv, HoldInv, TypeInv, TypeOK, SharedOK
    <3>2. CASE RequestsMissing(x)
      BY Zenon, <3>2 DEF RequestsMissing, idle
    <3> QED  BY <1>1, <3>1, <3>2
  <2> QED  BY <2>1, <2>2, ListStays, LiveStays DEF Others
<1>2. CASE VisitPool(x)
  <2>1. /\ pc[x] = "visit" /\ crash = "none"
        /\ UNCHANGED <<hand, lruCache, owner, freeConn>>
        /\ UNCHANGED pc \/ Goto(x, "command")
        /\ \E q, s : tally' = [tally EXCEPT !.quota = q, !.commands = s]
    BY <1>2 DEF VisitPool, At, idle, conns
  <2>2. tally'.victim = tally.victim
    BY <2>1 DEF LruInv, HoldInv, TypeInv, TypeOK, LocalsOK
  <2>3. Others(x) /\ pc'[x] \in {"visit", "command"}
    BY <2>1, OneLabel DEF Others, LruInv, HoldInv
  <2> QED  BY <2>1, <2>2, <2>3, ListStays, LiveStays
<1>3. CASE SendCommand(x)
  <2>1. /\ pc[x] = "send" /\ crash = "none" /\ Goto(x, "command")
        /\ UNCHANGED <<hand, lruCache, owner, freeConn>>
        /\ tally' = [tally EXCEPT !.commands = Tail(@)]
    BY <1>3 DEF SendCommand, At, idle, conns
  <2>2. tally'.victim = tally.victim
    BY <2>1 DEF LruInv, HoldInv, TypeInv, TypeOK, LocalsOK
  <2>3. Others(x) /\ pc'[x] = "command"
    BY <2>1, OneLabel DEF Others, LruInv, HoldInv
  <2> QED  BY <2>1, <2>2, <2>3, ListStays, LiveStays
<1>4. CASE FindIdle(x) \/ CountNewConnections(x) \/ ReserveSlot(x) \/ EndMaybeOpen(x)
  <2>1. PICK l \in {"oldest", "visit", "send", Resume(x)} :
           /\ crash = "none" /\ Goto(x, l) /\ UNCHANGED <<hand, lruCache, owner, freeConn>>
           /\ UNCHANGED tally \/ tally'.victim = None
           /\ pc[x] = "command" \/ (pc[x] = "maybeOpen" /\ facadeLock = None)
    BY <1>4 DEF FindIdle, CountNewConnections, ReserveSlot, EndMaybeOpen, At, FacadeFree,
       NoTally, sweep, idle, conns
  <2>2. facadeLock \in {None, x} /\ pc[x] # "evict"
    BY <2>1 DEF LruInv, HoldInv, TypeInv, Located, Placed, Locking
  <2>3. l \notin {"removeDep", "finalClose"}
    BY ProcsAssumption DEF Resume, NextAttempt, Procs
  <2> QED  BY <2>1, <2>2, <2>3, OnwardListed DEF Onward
<1> QED  BY <1>1, <1>2, <1>3, <1>4, RemoveOldestListed DEF MaybeOpen

-----------------------------------------------------------------------------
(* Every step *)

LEMMA OpenerListed ==
    ASSUME LruInv, OpenerStep
    PROVE  Listed
<1>0. Opener \in Procs
  BY DEF Procs
<1>1. CASE \/ OpenerStops \/ TakeCommand \/ StatsFacade
           \/ DialFails \/ ReportRefusal
  <2>1. PICK l \in OpenerLabels \cup {"maybeOpen"} : Onward(Opener, l) /\ pc[Opener] # "evict"
    BY <1>1 DEF OpenerStops, TakeCommand, StatsFacade, DialFails, ReportRefusal, Onward, At,
       OpenerLabels, sweep, idle, conns
  <2> QED  BY <1>0, <2>1, OnwardListed DEF OpenerLabels
<1>2. CASE DeferredUnlock
  <2>1. Onward(Opener, "listen") /\ pc[Opener] # "evict"
    BY Zenon, <1>2 DEF DeferredUnlock, Onward, At, sweep, idle, conns
  <2> QED  BY <1>0, <2>1, OnwardListed
<1>3. CASE StatsPool
  <2>1. /\ crash = "none" /\ pc[Opener] = "stats"
        /\ UNCHANGED <<pc, hand, lruCache, owner, freeConn, tally>>
    BY <1>3 DEF StatsPool, At, control, idle, conns
  <2> QED  BY <1>0, <2>1, ListStays, LiveStays DEF Others
<1> QED  BY <1>0, <1>1, <1>2, <1>3, DialListed, MaybeOpenListed DEF OpenerStep

LEMMA NobodyListed ==
    ASSUME LruInv, UNCHANGED <<pc, hand, lruCache, owner, freeConn, tally, crash>>
    PROVE  Listed
<1>1. InLru' = InLru
  BY DEF InLru
<1> QED  BY <1>1 DEF LruInv, Listed, ListOK, NoDup, LiveConns, Findable, VictimHeld, Struck

LEMMA NextListed == LruInv /\ [Next]_vars => Listed
<1> SUFFICES ASSUME LruInv, [Next]_vars PROVE Listed
  OBVIOUS
<1>1. ASSUME NEW x \in Clients \cup Pools, CloseSteps(x) PROVE Listed
  BY <1>1, CloseConnListed, RemoveDepListed, FinalCloseListed DEF CloseSteps, Procs
<1>2. ASSUME NEW c \in Clients, StartOperation(c) \/ ClientStep(c) PROVE Listed
  <2>1. c \in Procs
    BY DEF Procs
  <2>2. ASSUME NEW l \in ClientLabels \cup {"close", "maybeOpen"}, Onward(c, l), pc[c] # "evict"
        PROVE  Listed
    BY <2>1, <2>2, OnwardListed DEF ClientLabels
  <2>3. CASE StartOperation(c) \/ EndOperation(c)
    BY <2>2, <2>3, ClientOnward
  <2>4. CASE BorrowSteps(c) \/ ReturnSteps(c)
    BY <2>2, <2>4, ClientOnward, TakeListed, ConnectListed, PutListed DEF BorrowSteps, ReturnSteps
  <2> QED  BY <1>1, <1>2, <2>1, <2>3, <2>4, MaybeOpenListed DEF ClientStep
<1>3. ASSUME NEW p \in Pools, CleanerStep(p) PROVE Listed
  BY <1>1, <1>3, CleanerListed, MaybeOpenListed DEF CleanerStep, Procs
<1>4. CASE CloseFacade \/ CancelContext
  BY <1>4, NobodyListed DEF CloseFacade, CancelContext, control, sweep, idle, conns
<1>5. CASE UNCHANGED vars
  BY <1>5, NobodyListed DEF vars, control, sweep, idle, conns
<1> QED  BY <1>2, <1>3, <1>4, <1>5, OpenerListed DEF Next

LEMMA LruInit == Init => LruInv
<1> SUFFICES ASSUME Init PROVE LruInv
  OBVIOUS
<1>1. /\ lruCache = << >> /\ tally.victim = None /\ \A p \in Pools : freeConn[p] = {}
      /\ \A x \in Procs : pc[x] \in {"idle", "sleep", "listen"}
  BY ProcsAssumption DEF Init, Procs, NoTally
<1>2. InLru = {} /\ NoDup(lruCache)
  <2>0. lruCache \in Seq(Conns) /\ Len(lruCache) = 0
    BY <1>1, EmptySeq
  <2>1. 1..Len(lruCache) = {} /\ ToSet(lruCache) = {lruCache[i] : i \in 1..Len(lruCache)}
    <3>1. ToSet(lruCache) = {lruCache[i] : i \in 1..Len(lruCache)}
      BY <2>0, Elements
    <3> QED  BY <2>0, <3>1
  <2> QED  BY <2>1 DEF InLru, NoDup
<1> QED  BY <1>1, <1>2, HoldInit
         DEF LruInv, ListOK, Findable, VictimHeld, Struck

LEMMA LruStep == LruInv /\ [Next]_vars => LruInv'
BY HoldStep, NextListed DEF LruInv, Listed

\* putConnToLru and closeLruIdleConnections agree: as long as the process runs,
\* each idle connection is in the LRU list or about to be evicted; no
\* connection is in the list twice, and none that finalClose has closed.
THEOREM IdleAlwaysEvictable == Spec => []IdleIsEvictable
<1>1. ASSUME LruInv PROVE IdleIsEvictable
  <2>1. \A d : Contains(lruCache, d) <=> d \in InLru
    BY <1>1, Elements DEF InLru, LruInv, HoldInv, TypeInv, TypeOK, SharedOK
  <2>2. \A p \in Pools : \A d \in freeConn[p] :
           Contains(lruCache, d) \/ tally.victim = d \/ crash # "none"
    BY <1>1, <2>1 DEF LruInv, Findable
  <2> QED  BY <1>1, <2>2 DEF LruInv, ListOK, NoDup, InLru, LiveConns, IdleIsEvictable
<1>2. Spec => []LruInv
  BY LruInit, LruStep, PTL DEF Spec
<1> QED  BY <1>1, <1>2, PTL

=============================================================================
