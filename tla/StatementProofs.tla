--------------------------- MODULE StatementProofs ---------------------------
(***************************************************************************)
(* A statement of the pool, for any number of goroutines, connections,     *)
(* driver statements and attempts: what is used is open, what was closed   *)
(* leaves nothing behind, and nothing is closed too late or twice.         *)
(*                                                                         *)
(* While a goroutine holds a connection, nobody else closes a driver       *)
(* statement on it: the final close puts those off that are in use, and    *)
(* keeps the pool's mutex while it closes the others.  So a statement      *)
(* that was open when it was found in css stays open until its connection  *)
(* is returned.  That it was open then is the mutex of the statement: css  *)
(* lists closed ones only of connections that are closed too, except under *)
(* the mutex.  And nothing is left behind because what is open on an open  *)
(* connection is in css, put off, or in the hands of a transaction.        *)
(***************************************************************************)
EXTENDS Statements, FiniteSetTheorems, SequenceTheorems, TLAPS

(* Types *)

CallPcs  == {"connStmt", "sweep", "conn", "find", "prepare", "run", "rows", "put",
             "closing", "leave"}
Finals   == {"final", "unused", "closeDs", "removeOpen"}
ClosePcs == {"close", "undep", "panic"} \cup Finals
TxPcs    == {"txPrepare", "txFind", "txShare", "txDep"}
UserPcs  == {"idle"} \cup CallPcs \cup ClosePcs \cup TxPcs
Ops      == {"exec", "query", "rows", "close", "txClose", "commit"}
UserType ==
    [pc : UserPcs, op : Ops, dc : Conns \cup {None}, ds : Nat, attempt : Nat,
     bad : BOOLEAN, seen : Nat, todo : SUBSET Nat, tx : BOOLEAN,
     txs : {"none", "own", "parent"}, txds : Nat]

\* Once the Close of a connection has begun.
Shut == {"closed", "listed", "closing", "final", "gone"}
ConnType ==
    [pc : {"none", "open"} \cup Shut, inUse : BOOLEAN, onPut : SUBSET Nat,
     openStmt : SUBSET Nat, todo : SUBSET Nat]
StmtType ==
    [css : SUBSET Nat, closed : BOOLEAN, lastNumClosed : Nat, readers : SUBSET Users,
     writer : Users \cup {None}, mu : Users \cup {None}]
DsType == [dc : Conns, closed : BOOLEAN, late : BOOLEAN]

Tokens == {Own} \cup (Users \X {"rows"}) \cup (Conns \X {"tx"})

Types ==
    /\ user \in [Users -> UserType] /\ conn \in [Conns -> ConnType]
    /\ stmt \in StmtType /\ ds \in Seq(DsType) /\ dep \subseteq Tokens
    /\ pool \in [numClosed : Nat, mu : Users \cup {None}]

Ids == DOMAIN ds

(* Connections *)

\* Who has a connection, and what it is doing then.
Placed(u) ==
    LET r == user[u] IN
    /\ r.dc # None => r.tx \/ r.pc \in {"find", "prepare", "run", "rows", "put", "closing"}
    /\ r.tx \/ r.pc \in {"find", "prepare", "run", "rows", "put", "closing"} => r.dc # None
    /\ r.tx => r.pc \notin {"connStmt", "conn", "find", "prepare", "run", "rows", "leave"}
    /\ r.pc \in TxPcs => r.tx /\ r.txs = "none"
    /\ r.txs # "none" => r.tx /\ r.pc \notin {"put", "closing", "sweep"}
    /\ r.pc \in {"connStmt", "conn", "find", "prepare", "run", "leave"} =>
          r.op \in {"exec", "query"}
    /\ r.pc = "sweep" => r.tx \/ r.op \in {"exec", "query"}
    /\ r.pc = "rows" => r.op = "rows"
    /\ r.pc \in {"put", "closing"} => r.op \in (IF r.tx THEN {"commit"} ELSE {"exec", "query", "rows"})
    /\ r.pc = "close" => r.op = "close"
    /\ r.pc \in {"undep"} \cup Finals =>
          \/ r.op = "close"
          \/ r.op = "rows" /\ ~r.tx
          \/ r.op \in {"txClose", "commit"} /\ r.txs = "parent"

AllPlaced == \A u \in Users : Placed(u)

\* A connection in use has one user, which alone returns it.
Held ==
    /\ \A u \in Users :
          /\ user[u].dc # None /\ user[u].pc # "closing" =>
                conn[user[u].dc].inUse /\ conn[user[u].dc].pc = "open"
          /\ user[u].pc = "closing" => conn[user[u].dc].pc \in Shut
    /\ \A u, v \in Users : user[u].dc # None /\ user[u].dc = user[v].dc => u = v
    /\ \A c \in Conns :
          /\ conn[c].inUse => \E u \in Users : user[u].dc = c /\ user[u].pc # "closing"
          /\ ~conn[c].inUse => conn[c].onPut = {}

(* Mutexes and dependencies *)

\* Those inside Stmt.closemu, and those with Stmt.mu.
Inside(u) ==
    \/ user[u].pc \in {"connStmt", "conn", "find", "prepare", "run", "leave"}
    \/ user[u].pc = "sweep" /\ ~user[u].tx
    \/ user[u].pc \in {"put", "closing"} /\ user[u].op \in {"exec", "query"}
Closing(u) ==
    user[u].pc = "close" \/ (user[u].pc \in {"undep"} \cup Finals /\ user[u].op = "close")
Finalizers == {u \in Users : user[u].pc \in {"unused", "closeDs", "removeOpen"}}

Locks ==
    /\ \A u \in Users :
          /\ Inside(u) => u \in stmt.readers
          /\ Closing(u) => stmt.writer = u
          /\ user[u].pc \in {"sweep", "txFind", "unused", "closeDs", "removeOpen"} => stmt.mu = u
          /\ user[u].pc = "closeDs" => pool.mu = u
    /\ stmt.writer # None => stmt.readers = {}

\* A closed statement is not executed anew.
ClosedStays ==
    stmt.closed => \A u \in Users :
        /\ user[u].pc \notin {"conn", "find", "prepare", "run"}
        /\ user[u].pc = "sweep" => user[u].tx

\* The statement depends on itself until it is closed, on the Rows that are
\* read, and on the transactions that have adopted it.
Depends ==
    /\ ~stmt.closed => Own \in dep
    /\ Own \in dep /\ stmt.closed => \E u \in Users : user[u].pc = "undep" /\ user[u].op = "close"
    /\ \A u \in Users :
          /\ user[u].pc = "undep" /\ user[u].op = "close" => Own \in dep /\ stmt.closed
          /\ user[u].pc \in Finals => stmt.closed
          /\ <<u, "rows">> \in dep <=>
                \/ user[u].pc = "rows"
                \/ user[u].pc \in {"put", "closing", "undep"} /\ user[u].op = "rows"
          /\ user[u].txs = "parent" =>
                (<<user[u].dc, "tx">> \notin dep <=>
                    user[u].pc \in Finals /\ user[u].op \in {"txClose", "commit"})
    /\ \A c \in Conns : <<c, "tx">> \in dep =>
          \/ conn[c].pc \in Shut
          \/ \E u \in Users :
                /\ user[u].dc = c
                /\ user[u].txs = "parent" \/ (user[u].pc = "put" /\ user[u].bad)

(* Driver statements *)

On(d, c) == d \in Ids /\ ds[d].dc = c

\* What connections and the statement list.
Lists ==
    /\ stmt.css \subseteq Ids
    /\ \A d \in Ids : conn[ds[d].dc].pc # "none"
    /\ \A c \in Conns :
          /\ \A d \in conn[c].onPut \cup conn[c].openStmt \cup conn[c].todo : On(d, c)
          /\ conn[c].pc \in {"closing", "final", "gone"} => conn[c].openStmt = {}
          /\ conn[c].pc # "closing" => conn[c].todo = {}
    /\ \A d \in stmt.css :
          \/ ds[d].closed
          \/ d \in conn[ds[d].dc].openStmt \cup conn[ds[d].dc].todo \cup conn[ds[d].dc].onPut

\* Listed statements are usable unless the final close has begun with them.
CssUsable ==
    \A d \in stmt.css :
        (ds[d].closed /\ conn[ds[d].dc].pc = "open") \/ d \in conn[ds[d].dc].onPut
            => Finalizers # {}

\* What a goroutine works with is open, on its connection.
Mine(u, d) == On(d, user[u].dc) /\ ~ds[d].closed
InHand ==
    \A u \in Users :
        /\ user[u].pc \in {"run", "rows", "txDep"} => Mine(u, user[u].ds)
        /\ user[u].txs # "none" => Mine(u, user[u].txds)
        /\ user[u].txs = "own" => user[u].txds \notin stmt.css

\* The final close of the statement: what it has done and what it has to do.
Gone(d) == ds[d].closed \/ d \in conn[ds[d].dc].onPut
FinalProgress ==
    \A u \in Finalizers :
        /\ user[u].todo \subseteq stmt.css
        /\ \A d \in stmt.css \ user[u].todo : Gone(d)
        /\ user[u].pc \in {"closeDs", "removeOpen"} => user[u].ds \in user[u].todo
        /\ user[u].pc = "closeDs" => ~conn[ds[user[u].ds].dc].inUse
        /\ user[u].pc = "removeOpen" => Gone(user[u].ds)

\* What is open on an open connection is not forgotten.
Remembered ==
    \A d \in Ids :
        \/ Gone(d) \/ conn[ds[d].dc].pc # "open" \/ d \in stmt.css
        \/ \E u \in Users :
              \/ user[u].txs = "own" /\ user[u].txds = d
              \/ user[u].dc = ds[d].dc /\ user[u].pc = "put" /\ user[u].bad

\* Somebody will close what is listed.
Emptied ==
    dep = {} /\ stmt.css # {} =>
        \E u \in Users : user[u].pc \in Finals \cup {"txDep"}

\* Sweeping
Stale == {c \in Conns : conn[c].pc = "gone" /\ Listed(c) # {}}
Swept ==
    /\ stmt.lastNumClosed <= pool.numClosed
    /\ \A u \in Users : user[u].pc = "sweep" => user[u].seen <= pool.numClosed
    /\ IsFiniteSet(Stale) /\ Cardinality(Stale) <= pool.numClosed - stmt.lastNumClosed

StInv ==
    /\ Types /\ AllPlaced /\ Held /\ Locks /\ ClosedStays /\ Depends /\ Lists
    /\ CssUsable /\ InHand /\ FinalProgress /\ Remembered /\ Emptied /\ Swept
    /\ ClosedInTime

-----------------------------------------------------------------------------
(* What the operators of Statements do to the driver statements and to the   *)
(* goroutines *)

UserStep(u) == CallStep(u) \/ CloseStep(u) \/ TxStep(u)

\* CloseAll closes and changes nothing else.
LEMMA ClosesThem ==
    ASSUME Types, NEW ids, ds' = CloseAll(ids)
    PROVE  /\ ds' \in Seq(DsType) /\ Ids' = Ids
           /\ \A d \in Ids :
                 /\ ds'[d].dc = ds[d].dc
                 /\ ds'[d].closed <=> ds[d].closed \/ d \in ids
                 /\ ds'[d].late => \/ ds[d].late
                                   \/ d \in ids /\ ~ds[d].closed /\ conn[ds[d].dc].pc \in {"final", "gone"}
<1> USE DEF Types
<1>1. Len(ds) \in Nat /\ DOMAIN ds = 1..Len(ds) /\ \A d \in Ids : ds[d] \in DsType
  BY LenProperties, ElementOfSeq DEF Ids
<1>2. \A d \in Ids :
        /\ DsClosed(ds[d]) \in DsType
        /\ DsClosed(ds[d]).dc = ds[d].dc
        /\ DsClosed(ds[d]).closed
        /\ DsClosed(ds[d]).late =>
              \/ ds[d].late
              \/ ~ds[d].closed /\ conn[ds[d].dc].pc \in {"final", "gone"}
  <2> SUFFICES ASSUME NEW d \in Ids
               PROVE  /\ DsClosed(ds[d]) \in DsType
                      /\ DsClosed(ds[d]).dc = ds[d].dc
                      /\ DsClosed(ds[d]).closed
                      /\ DsClosed(ds[d]).late =>
                            \/ ds[d].late
                            \/ ~ds[d].closed /\ conn[ds[d].dc].pc \in {"final", "gone"}
    OBVIOUS
  <2>0. (conn[ds[d].dc].pc \in {"final", "gone"}) \in BOOLEAN
    OBVIOUS
  <2> DEFINE l == conn[ds[d].dc].pc \in {"final", "gone"}
  <2>1. l \in BOOLEAN
    BY <2>0
  <2>2. DsClosed(ds[d]) = IF ds[d].closed THEN ds[d]
                          ELSE [ds[d] EXCEPT !.closed = TRUE, !.late = l]
    BY DEF DsClosed
  <2>3. ds[d] \in [dc : Conns, closed : BOOLEAN, late : BOOLEAN]
    BY <1>1 DEF DsType
  <2> HIDE DEF l
  <2>4. /\ DsClosed(ds[d]) \in DsType
        /\ DsClosed(ds[d]).dc = ds[d].dc
        /\ DsClosed(ds[d]).closed
        /\ DsClosed(ds[d]).late => ds[d].late \/ (~ds[d].closed /\ l)
    BY <2>1, <2>2, <2>3 DEF DsType
  <2> QED  BY <2>4 DEF l
<1>3. ds' = [i \in 1..Len(ds) |-> IF i \in ids THEN DsClosed(ds[i]) ELSE ds[i]]
  BY <1>1 DEF CloseAll
<1>4. \A i \in 1..Len(ds) : (IF i \in ids THEN DsClosed(ds[i]) ELSE ds[i]) \in DsType
  BY <1>1, <1>2 DEF Ids
<1>5. ds' \in Seq(DsType)
  BY <1>1, <1>3, <1>4, IsASeq
<1>6. Ids' = Ids
  BY <1>1, <1>3 DEF Ids
<1>7. \A d \in Ids : ds'[d] = IF d \in ids THEN DsClosed(ds[d]) ELSE ds[d]
  BY <1>1, <1>3 DEF Ids
<1> QED  BY <1>2, <1>5, <1>6, <1>7

\* A new driver statement gets the next number.
LEMMA PreparesOne ==
    ASSUME Types, NEW c \in Conns, ds' = Prepared(c)
    PROVE  /\ ds' \in Seq(DsType)
           /\ Len(ds) + 1 \in Nat \ Ids /\ Ids' = Ids \cup {Len(ds) + 1}
           /\ \A d \in Ids : ds'[d] = ds[d]
           /\ ds'[Len(ds) + 1] = [dc |-> c, closed |-> FALSE, late |-> FALSE]
<1> DEFINE e == [dc |-> c, closed |-> FALSE, late |-> FALSE]
<1>1. e \in DsType
  BY DEF DsType
<1>2. ds \in Seq(DsType) /\ ds' = Append(ds, e)
  BY DEF Types, Prepared
<1> HIDE DEF e
<1>3. /\ ds' \in Seq(DsType) /\ Len(ds') = Len(ds) + 1 /\ Len(ds) \in Nat
      /\ \A i \in 1..Len(ds) : ds'[i] = ds[i]
      /\ ds'[Len(ds) + 1] = e
  BY <1>1, <1>2, AppendProperties, LenProperties
<1>4. Ids = 1..Len(ds) /\ Ids' = 1..Len(ds')
  BY <1>2, <1>3, LenProperties DEF Ids
<1> QED  BY <1>3, <1>4 DEF e

LEMMA IdsAreNumbers == Types => Ids \subseteq Nat /\ \A d \in Ids : ds[d] \in DsType
BY LenProperties, ElementOfSeq DEF Types, Ids

LEMMA SetIsTyped ==
    ASSUME Types, NEW u \in Users, NEW r \in UserType, Set(u, r)
    PROVE  user' \in [Users -> UserType]
BY DEF Types, Set

LEMMA TakeIsTyped ==
    ASSUME Types, NEW u \in Users, NEW l \in UserPcs, NEW tx \in BOOLEAN, NEW new \in BOOLEAN,
           Take(u, l, tx, new)
    PROVE  Types'
<1>1. PICK c \in Conns :
        /\ conn' = [conn EXCEPT ![c].pc = "open", ![c].inUse = TRUE]
        /\ Set(u, [user[u] EXCEPT !.pc = l, !.dc = c, !.tx = tx])
  BY DEF Take
<1>0. user[u] \in UserType
  BY DEF Types
<1>2. [user[u] EXCEPT !.pc = l, !.dc = c, !.tx = tx] \in UserType
  BY <1>0 DEF UserType
<1>3. user' \in [Users -> UserType]
  BY <1>1, <1>2, SetIsTyped
<1>4. conn \in [Conns -> ConnType]
  BY DEF Types
<1>5. conn' \in [Conns -> ConnType]
  BY <1>1, <1>4 DEF ConnType
<1> QED  BY <1>3, <1>5 DEF Take, Types

LEMMA PrepareIsTyped ==
    ASSUME Types, NEW u \in Users, user[u].dc \in Conns, NEW l \in UserPcs, PrepareOnConn(u, l)
    PROVE  Types'
<1> DEFINE d == Len(ds) + 1
<1>1. ds' \in Seq(DsType) /\ d \in Nat
  BY PreparesOne DEF PrepareOnConn
<1>0. user[u] \in UserType /\ conn[user[u].dc] \in ConnType
  BY DEF Types
<1>2. [user[u] EXCEPT !.pc = l, !.ds = d] \in UserType
  BY <1>0, <1>1 DEF UserType
<1>3. user' \in [Users -> UserType]
  BY <1>2, SetIsTyped DEF PrepareOnConn
<1>4. conn' \in [Conns -> ConnType]
  <2> DEFINE c == user[u].dc
             r == [conn[c] EXCEPT !.openStmt = @ \cup {d}]
  <2>1. conn' = [conn EXCEPT ![c] = r]
    BY DEF PrepareOnConn, Types
  <2>2. r \in ConnType
    BY <1>0, <1>1 DEF ConnType
  <2> HIDE DEF r
  <2> QED  BY <2>1, <2>2 DEF Types
<1>5. stmt' \in StmtType
  BY <1>1 DEF PrepareOnConn, Types, StmtType
<1> QED  BY <1>1, <1>3, <1>4, <1>5 DEF PrepareOnConn, Types

LEMMA GoIsTyped ==
    ASSUME Types, NEW u \in Users, NEW l \in UserPcs, Go(u, l)
    PROVE  user' \in [Users -> UserType]
<1>0. user[u] \in UserType
  BY DEF Types
<1>1. [user[u] EXCEPT !.pc = l] \in UserType
  BY <1>0 DEF UserType
<1> QED  BY <1>1, SetIsTyped DEF Go

\* The user that has just been served, or has another try.
LEMMA AfterPutIsTyped ==
    ASSUME Types, NEW u \in Users
    PROVE  /\ AfterPut(u) \in UserType
           /\ AfterPut(u).pc \in {"connStmt", "undep", "idle", "leave"}
           /\ AfterPut(u).op = user[u].op /\ AfterPut(u).ds = user[u].ds
           /\ AfterPut(u).dc = None /\ ~AfterPut(u).tx
           /\ AfterPut(u).txs = user[u].txs /\ AfterPut(u).txds = user[u].txds
           /\ AfterPut(u).todo = user[u].todo
           /\ AfterPut(u).pc = "connStmt" => user[u].op \in {"exec", "query"}
           /\ AfterPut(u).pc = "undep" <=> user[u].op = "rows"
           /\ AfterPut(u).pc = "leave" => user[u].op \notin {"rows", "commit"}
           /\ AfterPut(u).pc = "idle" <=> user[u].op = "commit"
<1> DEFINE again == user[u].op \in {"exec", "query"} /\ user[u].bad /\ user[u].attempt < Attempts
           l == CASE again -> "connStmt"
                  [] user[u].op = "rows" -> "undep"
                  [] user[u].op = "commit" -> "idle"
                  [] OTHER -> "leave"
           n == IF again THEN user[u].attempt + 1 ELSE user[u].attempt
<1>1. user[u] \in UserType
  BY DEF Types
<1>2. n \in Nat
  BY <1>1 DEF UserType
<1>3. /\ l \in {"connStmt", "undep", "idle", "leave"}
      /\ l = "connStmt" => user[u].op \in {"exec", "query"}
      /\ l = "undep" <=> user[u].op = "rows"
      /\ l = "idle" <=> user[u].op = "commit"
      /\ l = "leave" => user[u].op \notin {"rows", "commit"}
  OBVIOUS
<1>4. AfterPut(u) = [user[u] EXCEPT !.pc = l, !.attempt = n, !.dc = None, !.bad = FALSE, !.tx = FALSE]
  BY DEF AfterPut
<1> HIDE DEF again, l, n
<1>5. l \in UserPcs
  BY <1>3 DEF UserPcs, CallPcs, ClosePcs
<1> QED  BY <1>1, <1>2, <1>3, <1>4, <1>5 DEF UserType

LEMMA CallTypes ==
    ASSUME Types, AllPlaced, NEW u \in Users, CallStep(u)
    PROVE  Types'
<1>0. user[u] \in UserType /\ Placed(u)
  BY DEF Types, AllPlaced
<1> USE DEF UserPcs, CallPcs, ClosePcs, TxPcs, Finals
<1>1. CASE StartCall(u)
  <2>1. PICK op \in {"exec", "query"} : Set(u, [user[u] EXCEPT !.pc = "connStmt", !.op = op, !.attempt = 1])
    BY <1>1 DEF StartCall
  <2>2. [user[u] EXCEPT !.pc = "connStmt", !.op = op, !.attempt = 1] \in UserType
    BY <1>0 DEF UserType, Ops
  <2>3. stmt' \in StmtType
    BY <1>1 DEF StartCall, Types, StmtType
  <2> QED  BY <1>1, <2>1, <2>2, <2>3, SetIsTyped DEF StartCall, Types
<1>2. CASE ConnStmt(u)
  <2>1. stmt' \in StmtType
    BY <1>2 DEF ConnStmt, Types, StmtType
  <2>2. [user[u] EXCEPT !.pc = "sweep", !.seen = pool.numClosed] \in UserType
    BY <1>0 DEF UserType, Types
  <2>3. user' \in [Users -> UserType]
    BY <1>2, <2>2, SetIsTyped, GoIsTyped DEF ConnStmt
  <2> QED  BY <1>2, <2>1, <2>3 DEF ConnStmt, Types
<1>3. CASE Sweep(u)
  <2> DEFINE mu == IF user[u].tx THEN u ELSE None
  <2>a. Remaining \in SUBSET Nat /\ stmt \in StmtType
    BY DEF Types, StmtType, Remaining
  <2>b. user[u].seen \in Nat /\ mu \in Users \cup {None}
    BY <1>0 DEF UserType
  <2>c. stmt' = [stmt EXCEPT !.css = Remaining, !.lastNumClosed = user[u].seen, !.mu = mu]
    BY <1>3 DEF Sweep
  <2> HIDE DEF mu
  <2>1. stmt' \in StmtType
    BY <2>a, <2>b, <2>c DEF StmtType
  <2>2. user' \in [Users -> UserType]
    BY <1>3, GoIsTyped DEF Sweep
  <2> QED  BY <1>3, <2>1, <2>2 DEF Sweep, Types
<1>4. CASE GetConn(u)
  BY <1>4, TakeIsTyped DEF GetConn
<1>5. CASE NoConn(u)
  BY <1>5, GoIsTyped DEF NoConn, Types
<1>6. CASE Find(u)
  <2>1. \A d \in Listed(user[u].dc) : [user[u] EXCEPT !.pc = "run", !.ds = d] \in UserType
    BY <1>0 DEF Listed, UserType, Types, StmtType
  <2>2. user' \in [Users -> UserType]
    BY <1>6, <2>1, SetIsTyped, GoIsTyped DEF Find
  <2> QED  BY <1>6, <2>2 DEF Find, Types
<1>7. CASE Prepare(u)
  <2>1. ASSUME NEW bad \in BOOLEAN
        PROVE  [user[u] EXCEPT !.pc = "put", !.bad = bad] \in UserType
    BY <1>0 DEF UserType
  <2>2. CASE PrepareOnConn(u, "run")
    BY <1>0, <1>7, <2>2, PrepareIsTyped DEF Prepare, Placed, UserType
  <2>3. CASE ~PrepareOnConn(u, "run")
    <3>1. user' \in [Users -> UserType]
      BY <1>7, <2>1, <2>3, SetIsTyped DEF Prepare
    <3> QED  BY <1>7, <2>3, <3>1 DEF Prepare, Types
  <2> QED  BY <2>2, <2>3
<1>8. CASE Run(u)
  <2>1. ASSUME NEW bad \in BOOLEAN
        PROVE  [user[u] EXCEPT !.pc = "put", !.bad = bad] \in UserType
    BY <1>0 DEF UserType
  <2>2. [user[u] EXCEPT !.pc = "rows", !.op = "rows"] \in UserType
    BY <1>0 DEF UserType, Ops
  <2>3. user' \in [Users -> UserType]
    BY <1>8, <2>1, <2>2, SetIsTyped DEF Run
  <2>4. dep' \subseteq Tokens /\ stmt' \in StmtType
    <3>1. CASE UNCHANGED <<stmt, dep>>
      BY <3>1 DEF Types
    <3>2. CASE dep' = dep \cup {<<u, "rows">>} /\ stmt' = [stmt EXCEPT !.readers = @ \ {u}]
      <4>1. <<u, "rows">> \in Tokens
        BY DEF Tokens
      <4>2. dep' \subseteq Tokens
        BY <3>2, <4>1 DEF Types
      <4>3. stmt' \in StmtType
        BY <3>2 DEF Types, StmtType
      <4> QED  BY <4>2, <4>3
    <3> QED  BY <1>8, <3>1, <3>2 DEF Run
  <2> QED  BY <1>8, <2>3, <2>4 DEF Run, Types
<1>9. CASE CloseRows(u)
  <2>1. ASSUME NEW bad \in BOOLEAN
        PROVE  [user[u] EXCEPT !.pc = "put", !.bad = bad] \in UserType
    BY <1>0 DEF UserType
  <2>2. user' \in [Users -> UserType]
    BY <1>9, <2>1, SetIsTyped DEF CloseRows
  <2> QED  BY <1>9, <2>2 DEF CloseRows, Types
<1>10. CASE Put(u)
  <2>1. user' \in [Users -> UserType]
    BY <1>10, AfterPutIsTyped, SetIsTyped, GoIsTyped DEF Put
  <2>2. conn' \in [Conns -> ConnType]
    <3> DEFINE c == user[u].dc
               l == IF user[u].bad THEN "closed" ELSE conn[c].pc
               r == [conn[c] EXCEPT !.inUse = FALSE, !.onPut = {}, !.pc = l]
    <3>1. conn \in [Conns -> ConnType] /\ c \in Conns
      BY <1>0, <1>10 DEF Put, Types, Placed, UserType
    <3>2. conn' = [conn EXCEPT ![c] = r]
      BY <1>10, <3>1 DEF Put
    <3>3. l \in {"none", "open"} \cup Shut /\ conn[c] \in ConnType
      BY <3>1 DEF ConnType, Shut
    <3> HIDE DEF c, l
    <3>4. r \in ConnType
      BY <3>3 DEF ConnType
    <3> HIDE DEF r
    <3> QED  BY <3>1, <3>2, <3>4
  <2>3. ds' \in Seq(DsType)
    BY <1>10, ClosesThem DEF Put
  <2> QED  BY <1>10, <2>1, <2>2, <2>3 DEF Put, Types
<1>11. CASE PutBad(u)
  <2>1. user' \in [Users -> UserType]
    BY <1>11, AfterPutIsTyped, SetIsTyped DEF PutBad
  <2> QED  BY <1>11, <2>1 DEF PutBad, Types
<1>12. CASE Leave(u)
  <2>1. stmt' \in StmtType
    BY <1>12 DEF Leave, Types, StmtType
  <2>2. user' \in [Users -> UserType]
    BY <1>12, GoIsTyped DEF Leave
  <2> QED  BY <1>12, <2>1, <2>2 DEF Leave, Types
<1> QED  BY <1>1, <1>2, <1>3, <1>4, <1>5, <1>6, <1>7, <1>8, <1>9, <1>10, <1>11, <1>12
         DEF CallStep

\* TxEnd with what Commit or Rollback returned.
EndWith(u, bad, errBadConn) ==
    /\ errBadConn => bad
    /\ IF user[u].txs = "parent" /\ ~errBadConn
       THEN /\ Set(u, [user[u] EXCEPT !.op = "commit", !.bad = bad, !.pc = "undep"])
            /\ UNCHANGED ds
       ELSE /\ Set(u, [user[u] EXCEPT !.op = "commit", !.bad = bad, !.pc = "put", !.txs = "none", !.txds = 0])
            /\ ds' = IF user[u].txs = "own" /\ ~errBadConn THEN CloseAll({user[u].txds}) ELSE ds

LEMMA EndsWith ==
    ASSUME NEW u, TxEnd(u)
    PROVE  \E bad \in BOOLEAN, errBadConn \in BOOLEAN : EndWith(u, bad, errBadConn)
BY DEF TxEnd, EndWith

LEMMA DoneIsTyped ==
    ASSUME Types, NEW u \in Users
    PROVE  /\ Done(u) \in UserType
           /\ Done(u).pc = (IF user[u].op = "commit" THEN "put" ELSE "idle")
           /\ Done(u).txs = (IF user[u].op = "close" THEN user[u].txs ELSE "none")
           /\ Done(u).txds = (IF user[u].op = "close" THEN user[u].txds ELSE 0)
           /\ Done(u).dc = user[u].dc /\ Done(u).op = user[u].op /\ Done(u).tx = user[u].tx
           /\ Done(u).bad = user[u].bad /\ Done(u).todo = user[u].todo
<1> DEFINE l == IF user[u].op = "commit" THEN "put" ELSE "idle"
           t == IF user[u].op = "close" THEN user[u].txs ELSE "none"
           d == IF user[u].op = "close" THEN user[u].txds ELSE 0
<1>1. user[u] \in UserType
  BY DEF Types
<1>2. l \in UserPcs /\ t \in {"none", "own", "parent"} /\ d \in Nat
  BY <1>1 DEF UserPcs, CallPcs, UserType
<1>3. Done(u) = [user[u] EXCEPT !.pc = l, !.ds = 0, !.txs = t, !.txds = d]
  BY DEF Done
<1> HIDE DEF l, t, d
<1>4. /\ Done(u) \in UserType
      /\ Done(u).pc = l /\ Done(u).txs = t /\ Done(u).txds = d
      /\ Done(u).dc = user[u].dc /\ Done(u).op = user[u].op /\ Done(u).tx = user[u].tx
      /\ Done(u).bad = user[u].bad /\ Done(u).todo = user[u].todo
  <2>1. Done(u) \in UserType
    <3>1. [user[u] EXCEPT !.pc = l, !.ds = 0, !.txs = t, !.txds = d] \in UserType
      BY <1>1, <1>2 DEF UserType
    <3> QED  BY <1>3, <3>1
  <2>2. Done(u).pc = l /\ Done(u).txs = t /\ Done(u).txds = d
    BY <1>1, <1>3 DEF UserType
  <2>3. Done(u).dc = user[u].dc /\ Done(u).op = user[u].op /\ Done(u).todo = user[u].todo
    BY <1>1, <1>3 DEF UserType
  <2>4. Done(u).bad = user[u].bad /\ Done(u).tx = user[u].tx
    BY <1>1, <1>3 DEF UserType
  <2> QED  BY <2>1, <2>2, <2>3, <2>4
<1> QED  BY <1>4 DEF l, t, d

LEMMA CloseTypes ==
    ASSUME Types, AllPlaced, FinalProgress, NEW u \in Users, CloseStep(u)
    PROVE  Types'
<1>0. user[u] \in UserType /\ Placed(u)
  BY DEF Types, AllPlaced
<1> USE DEF UserPcs, CallPcs, ClosePcs, TxPcs, Finals
<1>1. CASE StartClose(u)
  <2>1. [user[u] EXCEPT !.pc = "close", !.op = "close"] \in UserType
    BY <1>0 DEF UserType, Ops
  <2>2. stmt' \in StmtType
    BY <1>1 DEF StartClose, Types, StmtType
  <2> QED  BY <1>1, <2>1, <2>2, SetIsTyped DEF StartClose, Types
<1>2. CASE CloseStmt(u)
  <2>1. stmt' \in StmtType
    BY <1>2 DEF CloseStmt, Types, StmtType
  <2>2. user' \in [Users -> UserType]
    BY <1>2, GoIsTyped DEF CloseStmt
  <2> QED  BY <1>2, <2>1, <2>2 DEF CloseStmt, Types
<1>3. CASE Undep(u)
  <2>1. user' \in [Users -> UserType]
    BY <1>3, DoneIsTyped, SetIsTyped, GoIsTyped DEF Undep
  <2>2. stmt' \in StmtType
    BY <1>3 DEF Undep, Types, StmtType, Released
  <2> QED  BY <1>3, <2>1, <2>2 DEF Undep, Types
<1>4. CASE FinalClose(u)
  <2>1. [user[u] EXCEPT !.pc = "unused", !.todo = stmt.css] \in UserType
    BY <1>0 DEF UserType, Types, StmtType
  <2>2. stmt' \in StmtType
    BY <1>4 DEF FinalClose, Types, StmtType
  <2> QED  BY <1>4, <2>1, <2>2, SetIsTyped DEF FinalClose, Types
<1>5. CASE NoteUnused(u)
  <2>1. PICK d \in user[u].todo :
          LET c == ds[d].dc IN
          IF CloseNow(c, d)
          THEN /\ pool' = [pool EXCEPT !.mu = u]
               /\ Set(u, [user[u] EXCEPT !.pc = "closeDs", !.ds = d])
               /\ UNCHANGED conn
          ELSE /\ conn' = PutOff(c, d)
               /\ Set(u, [user[u] EXCEPT !.pc = "removeOpen", !.ds = d])
               /\ UNCHANGED pool
    BY <1>5 DEF NoteUnused
  <2>2. d \in Nat
    BY <1>0 DEF UserType
  <2>3. /\ [user[u] EXCEPT !.pc = "closeDs", !.ds = d] \in UserType
        /\ [user[u] EXCEPT !.pc = "removeOpen", !.ds = d] \in UserType
    BY <1>0, <2>2 DEF UserType
  <2>4. user' \in [Users -> UserType]
    BY <2>1, <2>3, SetIsTyped
  <2>5. conn \in [Conns -> ConnType] /\ pool \in [numClosed : Nat, mu : Users \cup {None}]
    BY DEF Types
  <2>6. conn' \in [Conns -> ConnType]
    BY <2>1, <2>2, <2>5 DEF PutOff, ConnType
  <2>7. pool' \in [numClosed : Nat, mu : Users \cup {None}]
    BY <2>1, <2>5
  <2> QED  BY <1>5, <2>4, <2>6, <2>7 DEF NoteUnused, Types
<1>6. CASE CloseDs(u)
  <2>1. user' \in [Users -> UserType]
    BY <1>6, GoIsTyped DEF CloseDs
  <2>2. ds' \in Seq(DsType)
    BY <1>6, ClosesThem DEF CloseDs
  <2>3. pool' \in [numClosed : Nat, mu : Users \cup {None}]
    BY <1>6 DEF CloseDs, Types
  <2> QED  BY <1>6, <2>1, <2>2, <2>3 DEF CloseDs, Types
<1>7. CASE RemoveOpenStmt(u)
  <2>1. [user[u] EXCEPT !.pc = "unused", !.todo = @ \ {user[u].ds}] \in UserType
    BY <1>0 DEF UserType
  <2>2. user' \in [Users -> UserType]
    BY <1>7, <2>1, SetIsTyped DEF RemoveOpenStmt
  <2>3. conn \in [Conns -> ConnType]
    BY DEF Types
  <2>4. conn' \in [Conns -> ConnType]
    BY <1>7, <2>3 DEF RemoveOpenStmt, ConnType
  <2> QED  BY <1>7, <2>2, <2>4 DEF RemoveOpenStmt, Types
<1>8. CASE AllUnused(u)
  <2>1. user' \in [Users -> UserType]
    BY <1>8, DoneIsTyped, SetIsTyped DEF AllUnused
  <2>2. stmt' \in StmtType
    BY <1>8 DEF AllUnused, Types, StmtType, Released
  <2> QED  BY <1>8, <2>1, <2>2 DEF AllUnused, Types
<1> QED  BY <1>1, <1>2, <1>3, <1>4, <1>5, <1>6, <1>7, <1>8 DEF CloseStep

LEMMA TxTypes ==
    ASSUME Types, AllPlaced, NEW u \in Users, TxStep(u)
    PROVE  Types'
<1>0. user[u] \in UserType /\ Placed(u)
  BY DEF Types, AllPlaced
<1> USE DEF UserPcs, CallPcs, ClosePcs, TxPcs, Finals
<1>1. CASE Begin(u)
  BY <1>1, TakeIsTyped DEF Begin
<1>2. CASE StmtContext(u)
  <2>1. /\ [user[u] EXCEPT !.pc = "sweep", !.seen = pool.numClosed] \in UserType
        /\ [user[u] EXCEPT !.pc = "txFind", !.seen = pool.numClosed] \in UserType
    BY <1>0 DEF UserType, Types
  <2>2. user' \in [Users -> UserType]
    BY <1>2, <2>1, SetIsTyped, GoIsTyped DEF StmtContext
  <2>3. stmt' \in StmtType
    BY <1>2 DEF StmtContext, Types, StmtType
  <2> QED  BY <1>2, <2>2, <2>3 DEF StmtContext, Types
<1>3. CASE TxFind(u)
  <2>1. \A d \in Listed(user[u].dc) : [user[u] EXCEPT !.pc = "txDep", !.ds = d] \in UserType
    BY <1>0 DEF Listed, UserType, Types, StmtType
  <2>2. user' \in [Users -> UserType]
    BY <1>3, <2>1, SetIsTyped, GoIsTyped DEF TxFind
  <2>3. stmt' \in StmtType
    BY <1>3 DEF TxFind, Types, StmtType
  <2> QED  BY <1>3, <2>2, <2>3 DEF TxFind, Types
<1>4. CASE TxShare(u)
  <2>1. CASE PrepareOnConn(u, "txDep")
    BY <1>0, <1>4, <2>1, PrepareIsTyped DEF TxShare, Placed, UserType
  <2>2. CASE Go(u, "idle") /\ UNCHANGED <<stmt, dep, ds, conn, pool>>
    BY <2>2, GoIsTyped DEF Types
  <2> QED  BY <1>4, <2>1, <2>2 DEF TxShare
<1>5. CASE TxPrepare(u)
  <2>1. CASE Go(u, "idle") /\ UNCHANGED ds
    BY <1>5, <2>1, GoIsTyped DEF TxPrepare, Types
  <2>2. CASE /\ ds' = Prepared(user[u].dc)
             /\ Set(u, [user[u] EXCEPT !.pc = "idle", !.txds = Len(ds) + 1, !.txs = "own"])
    <3>1. user[u].dc \in Conns
      BY <1>0, <1>5 DEF TxPrepare, Placed, UserType
    <3>2. ds' \in Seq(DsType) /\ Len(ds) + 1 \in Nat
      BY <2>2, <3>1, PreparesOne
    <3>3. [user[u] EXCEPT !.pc = "idle", !.txds = Len(ds) + 1, !.txs = "own"] \in UserType
      BY <1>0, <3>2 DEF UserType
    <3> QED  BY <1>5, <2>2, <3>2, <3>3, SetIsTyped DEF TxPrepare, Types
  <2> QED  BY <1>5, <2>1, <2>2 DEF TxPrepare
<1>6. CASE TxDep(u)
  <2>1. user[u].dc \in Conns
    BY <1>0, <1>6 DEF TxDep, Placed, UserType
  <2>2. <<user[u].dc, "tx">> \in Tokens
    BY <2>1 DEF Tokens
  <2>3. dep' \subseteq Tokens
    BY <1>6, <2>2 DEF TxDep, Types
  <2>4. [user[u] EXCEPT !.pc = "idle", !.txds = user[u].ds, !.txs = "parent"] \in UserType
    BY <1>0 DEF UserType
  <2> QED  BY <1>6, <2>3, <2>4, SetIsTyped DEF TxDep, Types
<1>7. CASE TxClose(u)
  <2>1. /\ [user[u] EXCEPT !.op = "txClose", !.pc = "undep"] \in UserType
        /\ [user[u] EXCEPT !.txs = "none", !.txds = 0] \in UserType
    BY <1>0 DEF UserType, Ops
  <2>2. user' \in [Users -> UserType]
    BY <1>7, <2>1, SetIsTyped DEF TxClose
  <2>3. ds' \in Seq(DsType)
    BY <1>7, ClosesThem DEF TxClose, Types
  <2> QED  BY <1>7, <2>2, <2>3 DEF TxClose, Types
<1>8. CASE TxEnd(u)
  <2>1. ASSUME NEW bad \in BOOLEAN
        PROVE  /\ [user[u] EXCEPT !.op = "commit", !.bad = bad, !.pc = "undep"] \in UserType
               /\ [user[u] EXCEPT !.op = "commit", !.bad = bad, !.pc = "put", !.txs = "none", !.txds = 0]
                     \in UserType
    <3>1. "commit" \in Ops /\ {"undep", "put"} \subseteq UserPcs
      BY DEF Ops, UserPcs, CallPcs, ClosePcs
    <3>2. [user[u] EXCEPT !.op = "commit", !.bad = bad, !.pc = "undep"] \in UserType
      BY <1>0, <3>1 DEF UserType
    <3>3. [user[u] EXCEPT !.op = "commit", !.bad = bad, !.pc = "put", !.txs = "none", !.txds = 0]
             \in UserType
      BY <1>0, <3>1 DEF UserType
    <3> QED  BY <3>2, <3>3
  <2>2. PICK bad \in BOOLEAN, errBadConn \in BOOLEAN : EndWith(u, bad, errBadConn)
    BY <1>8, EndsWith
  <2>3. user' \in [Users -> UserType]
    BY <2>1, <2>2, SetIsTyped DEF EndWith
  <2>4. ds' \in Seq(DsType)
    BY <2>2, ClosesThem DEF EndWith, Types
  <2> QED  BY <1>8, <2>3, <2>4 DEF TxEnd, Types
<1> QED  BY <1>1, <1>2, <1>3, <1>4, <1>5, <1>6, <1>7, <1>8 DEF TxStep

LEMMA ConnTypes ==
    ASSUME Types, NEW c \in Conns, ConnStep(c)
    PROVE  Types'
<1>1. conn \in [Conns -> ConnType] /\ pool \in [numClosed : Nat, mu : Users \cup {None}]
  BY DEF Types
<1>a. conn[c] \in ConnType
  BY <1>1
<1>b. ASSUME NEW l \in Shut, conn' = [conn EXCEPT ![c].pc = l]
      PROVE  conn' \in [Conns -> ConnType]
  <2>1. conn' = [conn EXCEPT ![c] = [conn[c] EXCEPT !.pc = l]]
    BY <1>1, <1>b
  <2>2. [conn[c] EXCEPT !.pc = l] \in ConnType
    BY <1>a DEF ConnType
  <2> QED  BY <1>1, <2>1, <2>2
<1>2. CASE Expire(c)
  BY <1>1, <1>2 DEF Expire, ConnType, Shut, Types
<1>3. CASE MarkClosed(c)
  BY <1>b, <1>3 DEF MarkClosed, Shut, Types
<1>4. CASE ListOpen(c)
  <2> DEFINE r == [conn[c] EXCEPT !.pc = "closing", !.todo = conn[c].openStmt, !.openStmt = {}]
  <2>1. conn' = [conn EXCEPT ![c] = r]
    BY <1>1, <1>4 DEF ListOpen
  <2>2. conn[c] \in ConnType
    BY <1>1
  <2>3. r \in ConnType
    BY <2>2 DEF ConnType, Shut
  <2> HIDE DEF r
  <2>4. conn' \in [Conns -> ConnType]
    BY <1>1, <2>1, <2>3
  <2> QED  BY <1>4, <2>4 DEF ListOpen, Types
<1>5. CASE CloseOpen(c)
  <2>1. conn' \in [Conns -> ConnType]
    <3>1. PICK d : conn' = [conn EXCEPT ![c].todo = @ \ {d}]
      BY <1>5 DEF CloseOpen
    <3>2. conn' = [conn EXCEPT ![c] = [conn[c] EXCEPT !.todo = @ \ {d}]]
      BY <1>1, <3>1
    <3>3. [conn[c] EXCEPT !.todo = @ \ {d}] \in ConnType
      BY <1>a DEF ConnType
    <3> QED  BY <1>1, <3>2, <3>3
  <2>2. ds' \in Seq(DsType)
    BY <1>5, ClosesThem DEF CloseOpen
  <2> QED  BY <1>5, <2>1, <2>2 DEF CloseOpen, Types
<1>6. CASE FinalClosed(c)
  BY <1>b, <1>6 DEF FinalClosed, Shut, Types
<1>7. CASE CountClosed(c)
  <2>1. conn' \in [Conns -> ConnType]
    BY <1>b, <1>7 DEF CountClosed, Shut
  <2>2. pool' \in [numClosed : Nat, mu : Users \cup {None}]
    BY <1>1, <1>7 DEF CountClosed
  <2> QED  BY <1>7, <2>1, <2>2 DEF CountClosed, Types
<1> QED  BY <1>2, <1>3, <1>4, <1>5, <1>6, <1>7 DEF ConnStep

LEMMA OneSet ==
    ASSUME Types, NEW u \in Users, NEW r, Set(u, r)
    PROVE  user'[u] = r /\ \A v \in Users \ {u} : user'[v] = user[v]
BY DEF Types, Set

\* A step of one goroutine leaves the others alone.
LEMMA OneMoves ==
    ASSUME Types, NEW u \in Users, UserStep(u)
    PROVE  \A v \in Users \ {u} : user'[v] = user[v]
<1>1. \E r : Set(u, r)
  <2>1. CASE CallStep(u)
    BY <2>1 DEF CallStep, StartCall, ConnStmt, Sweep, GetConn, Take, NoConn, Find, Prepare,
       PrepareOnConn, Run, CloseRows, Put, PutBad, Leave, Go
  <2>2. CASE CloseStep(u)
    BY <2>2 DEF CloseStep, StartClose, CloseStmt, Undep, FinalClose, NoteUnused, CloseDs,
       RemoveOpenStmt, AllUnused, Go
  <2>3. CASE TxStep(u)
    BY <2>3 DEF TxStep, Begin, Take, StmtContext, TxFind, TxShare, PrepareOnConn, TxPrepare,
       TxDep, TxClose, TxEnd, Go
  <2> QED  BY <2>1, <2>2, <2>3 DEF UserStep
<1> QED  BY <1>1, OneSet

\* u goes to l; of what it has, no more than these fields change.
Moves(u, l, fields) ==
    /\ user'[u].pc = l
    /\ "op" \notin fields => user'[u].op = user[u].op
    /\ "dc" \notin fields => user'[u].dc = user[u].dc
    /\ "ds" \notin fields => user'[u].ds = user[u].ds
    /\ "bad" \notin fields => user'[u].bad = user[u].bad
    /\ "seen" \notin fields => user'[u].seen = user[u].seen
    /\ "todo" \notin fields => user'[u].todo = user[u].todo
    /\ "tx" \notin fields => user'[u].tx = user[u].tx
    /\ "txs" \notin fields => user'[u].txs = user[u].txs /\ user'[u].txds = user[u].txds

LEMMA GoMoves ==
    ASSUME Types, NEW u \in Users, NEW l \in UserPcs, Go(u, l)
    PROVE  Moves(u, l, {})
<1>1. user[u] \in UserType
  BY DEF Types
<1>2. user'[u] = [user[u] EXCEPT !.pc = l]
  BY OneSet DEF Go
<1> QED  BY <1>1, <1>2 DEF UserType, Moves

LEMMA TakeMoves ==
    ASSUME Types, NEW u \in Users, NEW l \in UserPcs, NEW tx \in BOOLEAN, NEW new \in BOOLEAN,
           Take(u, l, tx, new)
    PROVE  Moves(u, l, {"dc", "tx"}) /\ user'[u].tx = tx /\ user'[u].dc \in Conns
<1>1. user[u] \in UserType
  BY DEF Types
<1>2. PICK c \in Conns : Set(u, [user[u] EXCEPT !.pc = l, !.dc = c, !.tx = tx])
  BY DEF Take
<1>3. user'[u] = [user[u] EXCEPT !.pc = l, !.dc = c, !.tx = tx]
  BY <1>2, OneSet
<1> QED  BY <1>1, <1>3 DEF UserType, Moves

\* What the fields are that a step sets.
LEMMA SetsBad ==
    ASSUME Types, NEW u \in Users, NEW l, NEW bad \in BOOLEAN, Set(u, [user[u] EXCEPT !.pc = l, !.bad = bad])
    PROVE  Moves(u, l, {"bad"}) /\ user'[u].bad = bad
<1>1. user[u] \in UserType
  BY DEF Types
<1>2. user'[u] = [user[u] EXCEPT !.pc = l, !.bad = bad]
  BY OneSet
<1> QED  BY <1>1, <1>2 DEF UserType, Moves

LEMMA SetsDs ==
    ASSUME Types, NEW u \in Users, NEW l, NEW d, Set(u, [user[u] EXCEPT !.pc = l, !.ds = d])
    PROVE  Moves(u, l, {"ds"}) /\ user'[u].ds = d
<1>1. user[u] \in UserType
  BY DEF Types
<1>2. user'[u] = [user[u] EXCEPT !.pc = l, !.ds = d]
  BY OneSet
<1> QED  BY <1>1, <1>2 DEF UserType, Moves

LEMMA SetsSeen ==
    ASSUME Types, NEW u \in Users, NEW l, NEW n, Set(u, [user[u] EXCEPT !.pc = l, !.seen = n])
    PROVE  Moves(u, l, {"seen"}) /\ user'[u].seen = n
<1>1. user[u] \in UserType
  BY DEF Types
<1>2. user'[u] = [user[u] EXCEPT !.pc = l, !.seen = n]
  BY OneSet
<1> QED  BY <1>1, <1>2 DEF UserType, Moves

LEMMA SetsTodo ==
    ASSUME Types, NEW u \in Users, NEW l, NEW ids, Set(u, [user[u] EXCEPT !.pc = l, !.todo = ids])
    PROVE  Moves(u, l, {"todo"}) /\ user'[u].todo = ids
<1>1. user[u] \in UserType
  BY DEF Types
<1>2. user'[u] = [user[u] EXCEPT !.pc = l, !.todo = ids]
  BY OneSet
<1> QED  BY <1>1, <1>2 DEF UserType, Moves

LEMMA SetsTx ==
    ASSUME Types, NEW u \in Users, NEW l, NEW d, NEW s, Set(u, [user[u] EXCEPT !.pc = l, !.txds = d, !.txs = s])
    PROVE  Moves(u, l, {"txs"}) /\ user'[u].txs = s /\ user'[u].txds = d
<1>1. user[u] \in UserType
  BY DEF Types
<1>2. user'[u] = [user[u] EXCEPT !.pc = l, !.txds = d, !.txs = s]
  BY OneSet
<1> QED  BY <1>1, <1>2 DEF UserType, Moves

LEMMA SetsOp ==
    ASSUME Types, NEW u \in Users, NEW l, NEW op, Set(u, [user[u] EXCEPT !.pc = l, !.op = op])
    PROVE  Moves(u, l, {"op"}) /\ user'[u].op = op
<1>1. user[u] \in UserType
  BY DEF Types
<1>2. user'[u] = [user[u] EXCEPT !.pc = l, !.op = op]
  BY OneSet
<1> QED  BY <1>1, <1>2 DEF UserType, Moves

LEMMA PrepareMoves ==
    ASSUME Types, NEW u \in Users, NEW l \in UserPcs, PrepareOnConn(u, l)
    PROVE  Moves(u, l, {"ds"}) /\ user'[u].ds = Len(ds) + 1
<1>1. user[u] \in UserType
  BY DEF Types
<1>2. user'[u] = [user[u] EXCEPT !.pc = l, !.ds = Len(ds) + 1]
  BY OneSet DEF PrepareOnConn
<1> QED  BY <1>1, <1>2 DEF UserType, Moves

LEMMA AfterPutMoves ==
    ASSUME Types, NEW u \in Users, Set(u, AfterPut(u))
    PROVE  /\ \/ Moves(u, "connStmt", {"dc", "bad", "tx"}) /\ user[u].op \in {"exec", "query"}
              \/ Moves(u, "leave", {"dc", "bad", "tx"}) /\ user[u].op \notin {"rows", "commit"}
              \/ Moves(u, "undep", {"dc", "bad", "tx"}) /\ user[u].op = "rows"
              \/ Moves(u, "idle", {"dc", "bad", "tx"}) /\ user[u].op = "commit"
           /\ user'[u].dc = None /\ ~user'[u].tx
<1>1. user'[u] = AfterPut(u)
  BY OneSet
<1>2. user[u].seen = AfterPut(u).seen
  BY DEF AfterPut, Types, UserType
<1>3. \A l : AfterPut(u).pc = l => Moves(u, l, {"dc", "bad", "tx"})
  BY <1>1, <1>2, AfterPutIsTyped DEF Moves
<1> QED  BY <1>1, <1>3, AfterPutIsTyped

LEMMA DoneMoves ==
    ASSUME Types, NEW u \in Users, Set(u, Done(u))
    PROVE  /\ \/ Moves(u, "put", {"ds", "txs"}) /\ user[u].op = "commit"
              \/ Moves(u, "idle", {"ds", "txs"}) /\ user[u].op # "commit"
           /\ IF user[u].op = "close"
              THEN user'[u].txs = user[u].txs /\ user'[u].txds = user[u].txds
              ELSE user'[u].txs = "none"
<1>1. user'[u] = Done(u)
  BY OneSet
<1>2. user[u].seen = Done(u).seen
  BY DEF Done, Types, UserType
<1>3. \A l : Done(u).pc = l => Moves(u, l, {"ds", "txs"})
  BY <1>1, <1>2, DoneIsTyped DEF Moves
<1> QED  BY <1>1, <1>3, DoneIsTyped

LEMMA CallMoves ==
    ASSUME Types, NEW u \in Users
    PROVE  /\ StartCall(u) => /\ Moves(u, "connStmt", {"op"})
                              /\ user'[u].op \in {"exec", "query"}
           /\ ConnStmt(u) => \/ stmt.closed /\ Moves(u, "leave", {})
                             \/ ~stmt.closed /\ Moves(u, "conn", {})
                             \/ /\ ~stmt.closed /\ Moves(u, "sweep", {"seen"})
                                /\ user'[u].seen = pool.numClosed
           /\ Sweep(u) => IF user[u].tx THEN Moves(u, "txFind", {}) ELSE Moves(u, "conn", {})
           /\ GetConn(u) => Moves(u, "find", {"dc", "tx"}) /\ ~user'[u].tx /\ user'[u].dc \in Conns
           /\ NoConn(u) => Moves(u, "leave", {})
           /\ Find(u) => \/ Moves(u, "prepare", {})
                         \/ Moves(u, "run", {"ds"}) /\ user'[u].ds \in Listed(user[u].dc)
           /\ Prepare(u) => \/ PrepareOnConn(u, "run")
                            \/ Moves(u, "put", {"bad"}) /\ UNCHANGED <<stmt, dep, ds, conn, pool>>
           /\ Run(u) => \/ Moves(u, "put", {"bad"}) /\ UNCHANGED <<stmt, dep>>
                        \/ /\ user[u].op = "query" /\ dep' = dep \cup {<<u, "rows">>}
                           /\ stmt' = [stmt EXCEPT !.readers = @ \ {u}]
                           /\ Moves(u, "rows", {"op"}) /\ user'[u].op = "rows"
           /\ CloseRows(u) => Moves(u, "put", {"bad"})
           /\ Put(u) => IF user[u].bad THEN Moves(u, "closing", {}) ELSE Set(u, AfterPut(u))
           /\ Leave(u) => Moves(u, "idle", {})
<1>0. user[u] \in UserType
  BY DEF Types
<1>1. ASSUME NEW bad \in BOOLEAN, Set(u, [user[u] EXCEPT !.pc = "put", !.bad = bad])
      PROVE  Moves(u, "put", {"bad"})
  BY <1>1, SetsBad
<1>2. ASSUME StartCall(u)
      PROVE  Moves(u, "connStmt", {"op"}) /\ user'[u].op \in {"exec", "query"}
  <2>1. PICK op \in {"exec", "query"} : user'[u] = [user[u] EXCEPT !.pc = "connStmt", !.op = op, !.attempt = 1]
    BY <1>2, OneSet DEF StartCall
  <2> QED  BY <1>0, <2>1 DEF UserType, Moves
<1>3. ASSUME Set(u, [user[u] EXCEPT !.pc = "sweep", !.seen = pool.numClosed])
      PROVE  Moves(u, "sweep", {"seen"}) /\ user'[u].seen = pool.numClosed
  BY <1>3, SetsSeen
<1>4. ASSUME NEW d, Set(u, [user[u] EXCEPT !.pc = "run", !.ds = d])
      PROVE  Moves(u, "run", {"ds"}) /\ user'[u].ds = d
  BY <1>4, SetsDs
<1>5. ASSUME Set(u, [user[u] EXCEPT !.pc = "rows", !.op = "rows"])
      PROVE  Moves(u, "rows", {"op"}) /\ user'[u].op = "rows"
  BY <1>5, SetsOp
<1>6. ConnStmt(u) => \/ stmt.closed /\ Moves(u, "leave", {})
                     \/ ~stmt.closed /\ Moves(u, "conn", {})
                     \/ /\ ~stmt.closed /\ Moves(u, "sweep", {"seen"})
                        /\ user'[u].seen = pool.numClosed
  BY <1>3, GoMoves DEF UserPcs, CallPcs, ClosePcs, TxPcs, Finals, ConnStmt
<1>7. Sweep(u) => IF user[u].tx THEN Moves(u, "txFind", {}) ELSE Moves(u, "conn", {})
  BY GoMoves DEF UserPcs, CallPcs, ClosePcs, TxPcs, Finals, Sweep
<1>8. GetConn(u) => Moves(u, "find", {"dc", "tx"}) /\ ~user'[u].tx /\ user'[u].dc \in Conns
  <2>1. (user[u].attempt = Attempts) \in BOOLEAN
    OBVIOUS
  <2> QED  BY <2>1, TakeMoves DEF UserPcs, CallPcs, GetConn
<1>9. NoConn(u) => Moves(u, "leave", {})
  BY GoMoves DEF UserPcs, CallPcs, ClosePcs, TxPcs, Finals, NoConn
<1>10. Find(u) => \/ Moves(u, "prepare", {})
                  \/ Moves(u, "run", {"ds"}) /\ user'[u].ds \in Listed(user[u].dc)
  BY <1>4, GoMoves DEF UserPcs, CallPcs, ClosePcs, TxPcs, Finals, Find
<1>11. Prepare(u) => \/ PrepareOnConn(u, "run")
                     \/ Moves(u, "put", {"bad"}) /\ UNCHANGED <<stmt, dep, ds, conn, pool>>
  BY <1>1 DEF Prepare
<1>12. Run(u) => \/ Moves(u, "put", {"bad"}) /\ UNCHANGED <<stmt, dep>>
                 \/ /\ user[u].op = "query" /\ dep' = dep \cup {<<u, "rows">>}
                    /\ stmt' = [stmt EXCEPT !.readers = @ \ {u}]
                    /\ Moves(u, "rows", {"op"}) /\ user'[u].op = "rows"
  BY <1>1, <1>5 DEF Run
<1>13. CloseRows(u) => Moves(u, "put", {"bad"})
  BY <1>1 DEF CloseRows
<1>14. Put(u) => IF user[u].bad THEN Moves(u, "closing", {}) ELSE Set(u, AfterPut(u))
  BY GoMoves DEF UserPcs, CallPcs, ClosePcs, TxPcs, Finals, Put
<1>15. Leave(u) => Moves(u, "idle", {})
  BY GoMoves DEF UserPcs, CallPcs, ClosePcs, TxPcs, Finals, Leave
<1> QED  BY <1>2, <1>6, <1>7, <1>8, <1>9, <1>10, <1>11, <1>12, <1>13, <1>14, <1>15

LEMMA CloseMoves ==
    ASSUME Types, NEW u \in Users
    PROVE  /\ StartClose(u) => Moves(u, "close", {"op"}) /\ user'[u].op = "close"
           /\ CloseStmt(u) => IF stmt.closed THEN Moves(u, "idle", {}) ELSE Moves(u, "undep", {})
           /\ Undep(u) => \/ Token(u) \notin dep /\ Moves(u, "panic", {}) /\ UNCHANGED <<stmt, dep>>
                          \/ /\ Token(u) \in dep /\ dep' = dep \ {Token(u)}
                             /\ dep' = {} /\ Moves(u, "final", {}) /\ UNCHANGED stmt
                          \/ /\ Token(u) \in dep /\ dep' = dep \ {Token(u)}
                             /\ dep' # {} /\ Set(u, Done(u))
                             /\ stmt' = [stmt EXCEPT !.writer = Released(u)]
           /\ FinalClose(u) => Moves(u, "unused", {"todo"}) /\ user'[u].todo = stmt.css
           /\ NoteUnused(u) => /\ user'[u].ds \in user[u].todo
                               /\ LET d == user'[u].ds
                                      c == ds[d].dc IN
                                  IF CloseNow(c, d)
                                  THEN /\ pool' = [pool EXCEPT !.mu = u] /\ UNCHANGED conn
                                       /\ Moves(u, "closeDs", {"ds"})
                                  ELSE /\ conn' = PutOff(c, d) /\ UNCHANGED pool
                                       /\ Moves(u, "removeOpen", {"ds"})
           /\ CloseDs(u) => Moves(u, "removeOpen", {})
           /\ RemoveOpenStmt(u) => /\ Moves(u, "unused", {"todo"})
                                   /\ user'[u].todo = user[u].todo \ {user[u].ds}
<1>0. user[u] \in UserType
  BY DEF Types
<1>1. StartClose(u) => Moves(u, "close", {"op"}) /\ user'[u].op = "close"
  BY SetsOp DEF StartClose
<1>2. CloseStmt(u) => IF stmt.closed THEN Moves(u, "idle", {}) ELSE Moves(u, "undep", {})
  BY GoMoves DEF UserPcs, CallPcs, ClosePcs, TxPcs, Finals, CloseStmt
<1>3. Undep(u) => \/ Token(u) \notin dep /\ Moves(u, "panic", {}) /\ UNCHANGED <<stmt, dep>>
                  \/ /\ Token(u) \in dep /\ dep' = dep \ {Token(u)}
                     /\ dep' = {} /\ Moves(u, "final", {}) /\ UNCHANGED stmt
                  \/ /\ Token(u) \in dep /\ dep' = dep \ {Token(u)}
                     /\ dep' # {} /\ Set(u, Done(u))
                     /\ stmt' = [stmt EXCEPT !.writer = Released(u)]
  BY GoMoves DEF UserPcs, CallPcs, ClosePcs, TxPcs, Finals, Undep
<1>4. FinalClose(u) => Moves(u, "unused", {"todo"}) /\ user'[u].todo = stmt.css
  BY SetsTodo DEF FinalClose
<1>5. ASSUME NoteUnused(u)
      PROVE  /\ user'[u].ds \in user[u].todo
             /\ LET d == user'[u].ds
                    c == ds[d].dc IN
                IF CloseNow(c, d)
                THEN /\ pool' = [pool EXCEPT !.mu = u] /\ UNCHANGED conn
                     /\ Moves(u, "closeDs", {"ds"})
                ELSE /\ conn' = PutOff(c, d) /\ UNCHANGED pool
                     /\ Moves(u, "removeOpen", {"ds"})
  <2>1. PICK d \in user[u].todo :
          LET c == ds[d].dc IN
          IF CloseNow(c, d)
          THEN /\ pool' = [pool EXCEPT !.mu = u]
               /\ Set(u, [user[u] EXCEPT !.pc = "closeDs", !.ds = d])
               /\ UNCHANGED conn
          ELSE /\ conn' = PutOff(c, d)
               /\ Set(u, [user[u] EXCEPT !.pc = "removeOpen", !.ds = d])
               /\ UNCHANGED pool
    BY <1>5 DEF NoteUnused
  <2>2. ASSUME NEW l \in UserPcs, Set(u, [user[u] EXCEPT !.pc = l, !.ds = d])
        PROVE  Moves(u, l, {"ds"}) /\ user'[u].ds = d
    BY <2>2, SetsDs
  <2> QED  BY <2>1, <2>2 DEF UserPcs, ClosePcs, Finals
<1>6. CloseDs(u) => Moves(u, "removeOpen", {})
  <2>1. "removeOpen" \in UserPcs
    BY DEF UserPcs, ClosePcs, Finals
  <2>2. CloseDs(u) => Go(u, "removeOpen")
    BY DEF CloseDs
  <2> QED  BY <2>1, <2>2, GoMoves
<1>7. RemoveOpenStmt(u) => /\ Moves(u, "unused", {"todo"})
                           /\ user'[u].todo = user[u].todo \ {user[u].ds}
  <2>1. RemoveOpenStmt(u) =>
           Set(u, [user[u] EXCEPT !.pc = "unused", !.todo = user[u].todo \ {user[u].ds}])
    BY <1>0 DEF RemoveOpenStmt, UserType
  <2> QED  BY <2>1, SetsTodo
<1> QED  BY <1>1, <1>2, <1>3, <1>4, <1>5, <1>6, <1>7

LEMMA TxMoves ==
    ASSUME Types, NEW u \in Users
    PROVE  /\ Begin(u) => Moves(u, "idle", {"dc", "tx"}) /\ user'[u].tx /\ user'[u].dc \in Conns
           /\ StmtContext(u) => \/ stmt.closed /\ Moves(u, "txPrepare", {}) /\ UNCHANGED stmt
                                \/ /\ ~stmt.closed /\ stmt' = [stmt EXCEPT !.mu = u]
                                   /\ Moves(u, "sweep", {"seen"}) \/ Moves(u, "txFind", {"seen"})
                                   /\ user'[u].seen = pool.numClosed
           /\ TxFind(u) => \/ Moves(u, "txShare", {})
                           \/ Moves(u, "txDep", {"ds"}) /\ user'[u].ds \in Listed(user[u].dc)
           /\ TxShare(u) => \/ PrepareOnConn(u, "txDep")
                            \/ Moves(u, "idle", {}) /\ UNCHANGED <<stmt, dep, ds, conn, pool>>
           /\ TxPrepare(u) => \/ /\ Moves(u, "idle", {"txs"}) /\ user'[u].txs = "own"
                                 /\ user'[u].txds = Len(ds) + 1 /\ ds' = Prepared(user[u].dc)
                              \/ Moves(u, "idle", {}) /\ UNCHANGED ds
           /\ TxDep(u) => /\ Moves(u, "idle", {"txs"}) /\ user'[u].txs = "parent"
                          /\ user'[u].txds = user[u].ds
           /\ TxClose(u) => \/ /\ user[u].txs = "parent" /\ UNCHANGED ds
                               /\ Moves(u, "undep", {"op"}) /\ user'[u].op = "txClose"
                            \/ /\ user[u].txs = "own" /\ ds' = CloseAll({user[u].txds})
                               /\ Moves(u, "idle", {"txs"}) /\ user'[u].txs = "none"
           /\ TxEnd(u) => /\ user'[u].op = "commit"
                          /\ \/ user[u].txs = "parent" /\ UNCHANGED ds /\ Moves(u, "undep", {"op", "bad"})
                             \/ /\ Moves(u, "put", {"op", "bad", "txs"}) /\ user'[u].txs = "none"
                                /\ \/ user'[u].bad /\ UNCHANGED ds
                                   \/ user[u].txs = "own" /\ ds' = CloseAll({user[u].txds})
                                   \/ user[u].txs = "none" /\ UNCHANGED ds
<1>0. user[u] \in UserType
  BY DEF Types
<1>1. Begin(u) => Moves(u, "idle", {"dc", "tx"}) /\ user'[u].tx /\ user'[u].dc \in Conns
  BY TakeMoves DEF UserPcs, CallPcs, Begin
<1>2. ASSUME StmtContext(u)
      PROVE  \/ stmt.closed /\ Moves(u, "txPrepare", {}) /\ UNCHANGED stmt
             \/ /\ ~stmt.closed /\ stmt' = [stmt EXCEPT !.mu = u]
                /\ Moves(u, "sweep", {"seen"}) \/ Moves(u, "txFind", {"seen"})
                /\ user'[u].seen = pool.numClosed
  <2>1. CASE stmt.closed
    BY <1>2, <2>1, GoMoves DEF UserPcs, CallPcs, ClosePcs, TxPcs, Finals, StmtContext
  <2>2. CASE ~stmt.closed
    <3>1. PICK l \in {"sweep", "txFind"} : Set(u, [user[u] EXCEPT !.pc = l, !.seen = pool.numClosed])
      BY <1>2, <2>2 DEF StmtContext
    <3>2. Moves(u, l, {"seen"}) /\ user'[u].seen = pool.numClosed
      BY <3>1, SetsSeen
    <3> QED  BY <1>2, <2>2, <3>2 DEF StmtContext
  <2> QED  BY <2>1, <2>2
<1>3. ASSUME NEW d, Set(u, [user[u] EXCEPT !.pc = "txDep", !.ds = d])
      PROVE  Moves(u, "txDep", {"ds"}) /\ user'[u].ds = d
  BY <1>3, SetsDs
<1>4. TxFind(u) => \/ Moves(u, "txShare", {})
                   \/ Moves(u, "txDep", {"ds"}) /\ user'[u].ds \in Listed(user[u].dc)
  BY <1>3, GoMoves DEF UserPcs, CallPcs, ClosePcs, TxPcs, Finals, TxFind
<1>5. TxShare(u) => \/ PrepareOnConn(u, "txDep")
                    \/ Moves(u, "idle", {}) /\ UNCHANGED <<stmt, dep, ds, conn, pool>>
  BY GoMoves DEF UserPcs, CallPcs, ClosePcs, TxPcs, Finals, TxShare
<1>6. ASSUME NEW d, Set(u, [user[u] EXCEPT !.pc = "idle", !.txds = d, !.txs = "own"])
      PROVE  Moves(u, "idle", {"txs"}) /\ user'[u].txs = "own" /\ user'[u].txds = d
  BY <1>6, SetsTx
<1>7. TxPrepare(u) => \/ /\ Moves(u, "idle", {"txs"}) /\ user'[u].txs = "own"
                         /\ user'[u].txds = Len(ds) + 1 /\ ds' = Prepared(user[u].dc)
                      \/ Moves(u, "idle", {}) /\ UNCHANGED ds
  BY <1>6, GoMoves DEF UserPcs, CallPcs, ClosePcs, TxPcs, Finals, TxPrepare
<1>8. TxDep(u) => /\ Moves(u, "idle", {"txs"}) /\ user'[u].txs = "parent"
                  /\ user'[u].txds = user[u].ds
  <2>1. TxDep(u) => Set(u, [user[u] EXCEPT !.pc = "idle", !.txds = user[u].ds, !.txs = "parent"])
    BY DEF TxDep
  <2> QED  BY <2>1, SetsTx
<1>9. ASSUME TxClose(u)
      PROVE  \/ /\ user[u].txs = "parent" /\ UNCHANGED ds
                /\ Moves(u, "undep", {"op"}) /\ user'[u].op = "txClose"
             \/ /\ user[u].txs = "own" /\ ds' = CloseAll({user[u].txds})
                /\ Moves(u, "idle", {"txs"}) /\ user'[u].txs = "none"
  <2>1. CASE user[u].txs = "parent"
    <3>1. user'[u] = [user[u] EXCEPT !.op = "txClose", !.pc = "undep"] /\ UNCHANGED ds
      BY <1>9, <2>1, OneSet DEF TxClose
    <3> QED  BY <1>0, <2>1, <3>1 DEF UserType, Moves
  <2>2. CASE user[u].txs # "parent"
    <3>1. user'[u] = [user[u] EXCEPT !.txs = "none", !.txds = 0]
      BY <1>9, <2>2, OneSet DEF TxClose
    <3>2. user[u].txs = "own" /\ ds' = CloseAll({user[u].txds}) /\ user[u].pc = "idle"
      BY <1>0, <1>9, <2>2 DEF TxClose, UserType
    <3> QED  BY <1>0, <3>1, <3>2 DEF UserType, Moves
  <2> QED  BY <2>1, <2>2
<1>10. ASSUME TxEnd(u)
       PROVE  /\ user'[u].op = "commit"
              /\ \/ user[u].txs = "parent" /\ UNCHANGED ds /\ Moves(u, "undep", {"op", "bad"})
                 \/ /\ Moves(u, "put", {"op", "bad", "txs"}) /\ user'[u].txs = "none"
                    /\ \/ user'[u].bad /\ UNCHANGED ds
                       \/ user[u].txs = "own" /\ ds' = CloseAll({user[u].txds})
                       \/ user[u].txs = "none" /\ UNCHANGED ds
  <2>1. PICK bad \in BOOLEAN, errBadConn \in BOOLEAN : EndWith(u, bad, errBadConn)
    BY <1>10, EndsWith
  <2>2. CASE Set(u, [user[u] EXCEPT !.op = "commit", !.bad = bad, !.pc = "undep"])
    <3>1. user'[u] = [user[u] EXCEPT !.op = "commit", !.bad = bad, !.pc = "undep"]
      BY <2>2, OneSet
    <3>2. Moves(u, "undep", {"op", "bad"}) /\ user'[u].op = "commit"
      BY <1>0, <3>1 DEF UserType, Moves
    <3>3. user[u].txs = "parent" /\ UNCHANGED ds
      <4>1. CASE ~(user[u].txs = "parent" /\ ~errBadConn)
        <5>1. user'[u] = [user[u] EXCEPT !.op = "commit", !.bad = bad, !.pc = "put", !.txs = "none", !.txds = 0]
          BY <2>1, <4>1, OneSet DEF EndWith
        <5>2. user'[u].pc = "put"
          BY <1>0, <5>1 DEF UserType
        <5> QED  BY <3>2, <5>2 DEF Moves
      <4> QED  BY <2>1, <4>1 DEF EndWith
    <3> QED  BY <3>2, <3>3
  <2>3. CASE Set(u, [user[u] EXCEPT !.op = "commit", !.bad = bad, !.pc = "put", !.txs = "none", !.txds = 0])
    <3>1. user'[u] = [user[u] EXCEPT !.op = "commit", !.bad = bad, !.pc = "put", !.txs = "none", !.txds = 0]
      BY <2>3, OneSet
    <3>2. /\ Moves(u, "put", {"op", "bad", "txs"}) /\ user'[u].txs = "none"
          /\ user'[u].op = "commit" /\ user'[u].bad = bad
      BY <1>0, <3>1 DEF UserType, Moves
    <3>3. user[u].txs \in {"none", "own", "parent"}
      BY <1>0 DEF UserType
    <3>4. \/ user[u].txs = "parent" /\ ~errBadConn /\ UNCHANGED ds /\ user'[u].pc = "undep"
          \/ errBadConn /\ ds' = ds
          \/ user[u].txs = "own" /\ ds' = CloseAll({user[u].txds})
          \/ user[u].txs = "none" /\ UNCHANGED ds
      <4>1. CASE user[u].txs = "parent" /\ ~errBadConn
        <5>1. user'[u] = [user[u] EXCEPT !.op = "commit", !.bad = bad, !.pc = "undep"] /\ UNCHANGED ds
          BY <2>1, <4>1, OneSet DEF EndWith
        <5> QED  BY <1>0, <4>1, <5>1 DEF UserType
      <4>2. CASE ~(user[u].txs = "parent" /\ ~errBadConn)
        BY <2>1, <3>3, <4>2 DEF EndWith
      <4> QED  BY <4>1, <4>2
    <3>5. errBadConn => bad
      BY <2>1 DEF EndWith
    <3>6. user'[u].pc = "put"
      BY <3>2 DEF Moves
    <3> QED  BY <3>2, <3>4, <3>5, <3>6
  <2> QED  BY <2>1, <2>2, <2>3 DEF EndWith
<1> QED  BY <1>1, <1>2, <1>4, <1>5, <1>7, <1>8, <1>9, <1>10

\* Where a step starts.
LEMMA CallGuards ==
    ASSUME NEW u
    PROVE  /\ StartCall(u) => user[u].pc = "idle" /\ ~user[u].tx
           /\ ConnStmt(u) => user[u].pc = "connStmt"
           /\ Sweep(u) => user[u].pc = "sweep"
           /\ GetConn(u) => user[u].pc = "conn"
           /\ NoConn(u) => user[u].pc = "conn"
           /\ Find(u) => user[u].pc = "find"
           /\ Prepare(u) => user[u].pc = "prepare"
           /\ Run(u) => user[u].pc = "run"
           /\ CloseRows(u) => user[u].pc = "rows"
           /\ Put(u) => user[u].pc = "put"
           /\ PutBad(u) => user[u].pc = "closing"
           /\ Leave(u) => user[u].pc = "leave"
BY DEF StartCall, ConnStmt, Sweep, GetConn, NoConn, Find, Prepare, Run, CloseRows, Put, PutBad, Leave

LEMMA CloseGuards ==
    ASSUME NEW u
    PROVE  /\ StartClose(u) => user[u].pc = "idle"
           /\ CloseStmt(u) => user[u].pc = "close"
           /\ Undep(u) => user[u].pc = "undep"
           /\ FinalClose(u) => user[u].pc = "final"
           /\ NoteUnused(u) => user[u].pc = "unused"
           /\ CloseDs(u) => user[u].pc = "closeDs"
           /\ RemoveOpenStmt(u) => user[u].pc = "removeOpen"
           /\ AllUnused(u) => user[u].pc = "unused" /\ Set(u, Done(u))
BY DEF StartClose, CloseStmt, Undep, FinalClose, NoteUnused, CloseDs, RemoveOpenStmt, AllUnused

LEMMA TxGuards ==
    ASSUME NEW u
    PROVE  /\ Begin(u) => user[u].pc = "idle" /\ ~user[u].tx
           /\ StmtContext(u) => user[u].pc = "idle" /\ user[u].tx /\ user[u].txs = "none"
           /\ TxFind(u) => user[u].pc = "txFind"
           /\ TxShare(u) => user[u].pc = "txShare"
           /\ TxPrepare(u) => user[u].pc = "txPrepare"
           /\ TxDep(u) => user[u].pc = "txDep"
           /\ TxClose(u) => user[u].pc = "idle" /\ user[u].txs # "none"
           /\ TxEnd(u) => user[u].pc = "idle" /\ user[u].tx
BY DEF Begin, StmtContext, TxFind, TxShare, TxPrepare, TxDep, TxClose, TxEnd

-----------------------------------------------------------------------------
(* Where a goroutine is and what it has *)

LEMMA PlacedInCalls ==
    ASSUME Types, AllPlaced, NEW u \in Users, CallStep(u)
    PROVE  Placed(u)'
<1>0. user[u] \in UserType /\ Placed(u)
  BY DEF Types, AllPlaced
<1>a. user[u].op \in Ops /\ user[u].tx \in BOOLEAN /\ None \notin Conns
  BY <1>0, StatementsAssumption DEF UserType
<1> USE DEF Moves, Placed, TxPcs, Finals
<1>1. CASE StartCall(u)
  BY <1>0, <1>1, CallMoves, CallGuards
<1>2. CASE ConnStmt(u)
  BY <1>0, <1>2, CallMoves, CallGuards
<1>3. CASE Sweep(u)
  BY <1>0, <1>3, CallMoves, CallGuards
<1>4. CASE GetConn(u)
  BY <1>0, <1>a, <1>4, CallMoves, CallGuards
<1>5. CASE NoConn(u)
  BY <1>0, <1>5, CallMoves, CallGuards
<1>6. CASE Find(u)
  BY <1>0, <1>6, CallMoves, CallGuards
<1>7. CASE Prepare(u)
  BY <1>0, <1>7, CallMoves, CallGuards, PrepareMoves DEF UserPcs, CallPcs
<1>8. CASE Run(u)
  BY <1>0, <1>8, CallMoves, CallGuards
<1>9. CASE CloseRows(u)
  BY <1>0, <1>9, CallMoves, CallGuards
<1>10. CASE Put(u)
  <2>1. Moves(u, "closing", {}) \/ Set(u, AfterPut(u))
    BY <1>10, CallMoves
  <2> QED  BY <1>0, <1>a, <1>10, <2>1, CallGuards, AfterPutMoves DEF Ops
<1>11. CASE PutBad(u)
  <2>1. Set(u, AfterPut(u))
    BY <1>11 DEF PutBad
  <2> QED  BY <1>0, <1>a, <1>11, <2>1, CallGuards, AfterPutMoves DEF Ops
<1>12. CASE Leave(u)
  BY <1>0, <1>12, CallMoves, CallGuards
<1> QED  BY <1>1, <1>2, <1>3, <1>4, <1>5, <1>6, <1>7, <1>8, <1>9, <1>10, <1>11, <1>12
         DEF CallStep

LEMMA PlacedInClosing ==
    ASSUME Types, AllPlaced, NEW u \in Users, CloseStep(u)
    PROVE  Placed(u)'
<1>0. user[u] \in UserType /\ Placed(u)
  BY DEF Types, AllPlaced
<1>a. user[u].op \in Ops /\ user[u].tx \in BOOLEAN
  BY <1>0 DEF UserType
<1> USE DEF Moves, Placed, TxPcs, Finals
<1>1. CASE StartClose(u)
  BY <1>0, <1>1, CloseMoves, CloseGuards
<1>2. CASE CloseStmt(u)
  BY <1>0, <1>2, CloseMoves, CloseGuards
<1>3. CASE Undep(u)
  <2>1. Moves(u, "panic", {}) \/ Moves(u, "final", {}) \/ Set(u, Done(u))
    BY <1>3, CloseMoves
  <2> QED  BY <1>0, <1>a, <1>3, <2>1, CloseGuards, DoneMoves DEF Ops
<1>4. CASE FinalClose(u)
  BY <1>0, <1>4, CloseMoves, CloseGuards
<1>5. CASE NoteUnused(u)
  <2>1. Moves(u, "closeDs", {"ds"}) \/ Moves(u, "removeOpen", {"ds"})
    BY <1>5, CloseMoves
  <2> QED  BY <1>0, <1>5, <2>1, CloseGuards
<1>6. CASE CloseDs(u)
  BY <1>0, <1>6, CloseMoves, CloseGuards
<1>7. CASE RemoveOpenStmt(u)
  BY <1>0, <1>7, CloseMoves, CloseGuards
<1>8. CASE AllUnused(u)
  BY <1>0, <1>a, <1>8, CloseGuards, DoneMoves DEF Ops
<1> QED  BY <1>1, <1>2, <1>3, <1>4, <1>5, <1>6, <1>7, <1>8 DEF CloseStep

LEMMA PlacedInTx ==
    ASSUME Types, AllPlaced, NEW u \in Users, TxStep(u)
    PROVE  Placed(u)'
<1>0. user[u] \in UserType /\ Placed(u)
  BY DEF Types, AllPlaced
<1>a. user[u].op \in Ops /\ user[u].tx \in BOOLEAN /\ None \notin Conns
  BY <1>0, StatementsAssumption DEF UserType
<1> USE DEF Moves, Placed, TxPcs, Finals
<1>1. CASE Begin(u)
  BY <1>0, <1>a, <1>1, TxMoves, TxGuards
<1>2. CASE StmtContext(u)
  <2>1. Moves(u, "txPrepare", {}) \/ Moves(u, "sweep", {"seen"}) \/ Moves(u, "txFind", {"seen"})
    BY <1>2, TxMoves
  <2> QED  BY <1>0, <1>2, <2>1, TxGuards
<1>3. CASE TxFind(u)
  BY <1>0, <1>3, TxMoves, TxGuards
<1>4. CASE TxShare(u)
  <2>1. Moves(u, "txDep", {"ds"}) \/ Moves(u, "idle", {})
    BY <1>4, TxMoves, PrepareMoves DEF UserPcs
  <2> QED  BY <1>0, <1>4, <2>1, TxGuards
<1>5. CASE TxPrepare(u)
  BY <1>0, <1>5, TxMoves, TxGuards
<1>6. CASE TxDep(u)
  <2>1. Moves(u, "idle", {"txs"}) /\ user'[u].txs = "parent"
    BY <1>6, TxMoves
  <2> QED  BY <1>0, <1>6, <2>1, TxGuards
<1>7. CASE TxClose(u)
  BY <1>0, <1>7, TxMoves, TxGuards
<1>8. CASE TxEnd(u)
  <2>1. /\ user'[u].op = "commit"
        /\ \/ Moves(u, "undep", {"op", "bad"}) /\ user[u].txs = "parent"
           \/ Moves(u, "put", {"op", "bad", "txs"}) /\ user'[u].txs = "none"
    BY <1>8, TxMoves
  <2> QED  BY <1>0, <1>8, <2>1, TxGuards
<1> QED  BY <1>1, <1>2, <1>3, <1>4, <1>5, <1>6, <1>7, <1>8 DEF TxStep

LEMMA PlacedNext ==
    ASSUME Types, AllPlaced, NEW u \in Users, UserStep(u)
    PROVE  AllPlaced'
<1>1. Placed(u)'
  BY PlacedInCalls, PlacedInClosing, PlacedInTx DEF UserStep
<1>2. ASSUME NEW v \in Users \ {u} PROVE Placed(v)'
  BY <1>2, OneMoves DEF AllPlaced, Placed
<1> QED  BY <1>1, <1>2 DEF AllPlaced

-----------------------------------------------------------------------------
(* What becomes of the connections *)

\* No connection but c changes, and of c no more than these fields.
Alters(c, fields) ==
    /\ \A x \in Conns \ {c} : conn'[x] = conn[x]
    /\ "pc" \notin fields => conn'[c].pc = conn[c].pc
    /\ "inUse" \notin fields => conn'[c].inUse = conn[c].inUse
    /\ "onPut" \notin fields => conn'[c].onPut = conn[c].onPut
    /\ "openStmt" \notin fields => conn'[c].openStmt = conn[c].openStmt
    /\ "todo" \notin fields => conn'[c].todo = conn[c].todo

LEMMA TakeAlters ==
    ASSUME Types, NEW u \in Users, NEW l, NEW tx, NEW new, Take(u, l, tx, new)
    PROVE  \E c \in Conns :
              /\ Alters(c, {"pc", "inUse"})
              /\ conn[c].pc \in {"none", "open"} /\ ~conn[c].inUse
              /\ conn'[c].pc = "open" /\ conn'[c].inUse
              /\ user'[u].dc = c
<1>1. PICK c \in Conns :
        /\ conn[c].pc \in (IF new THEN {} ELSE {"open"}) \cup {"none"}
        /\ ~conn[c].inUse
        /\ conn' = [conn EXCEPT ![c].pc = "open", ![c].inUse = TRUE]
        /\ Set(u, [user[u] EXCEPT !.pc = l, !.dc = c, !.tx = tx])
  BY DEF Take
<1>2. user[u] \in UserType /\ conn \in [Conns -> ConnType]
  BY DEF Types
<1>3. user'[u] = [user[u] EXCEPT !.pc = l, !.dc = c, !.tx = tx]
  BY <1>1, OneSet
<1>4. user'[u].dc = c
  BY <1>2, <1>3 DEF UserType
<1>5. Alters(c, {"pc", "inUse"}) /\ conn'[c].pc = "open" /\ conn'[c].inUse
  BY <1>1, <1>2 DEF ConnType, Alters
<1>6. conn[c].pc \in {"none", "open"}
  BY <1>1
<1> QED  BY <1>1, <1>4, <1>5, <1>6

LEMMA PrepareAlters ==
    ASSUME Types, NEW u \in Users, user[u].dc \in Conns, NEW l, PrepareOnConn(u, l)
    PROVE  /\ Alters(user[u].dc, {"openStmt"})
           /\ conn'[user[u].dc].openStmt = conn[user[u].dc].openStmt \cup {Len(ds) + 1}
<1>1. conn \in [Conns -> ConnType]
  BY DEF Types
<1>2. conn' = [conn EXCEPT ![user[u].dc].openStmt = @ \cup {Len(ds) + 1}]
  BY DEF PrepareOnConn
<1> QED  BY <1>1, <1>2 DEF ConnType, Alters

LEMMA PutAlters ==
    ASSUME Types, NEW u \in Users, user[u].dc \in Conns, Put(u)
    PROVE  /\ Alters(user[u].dc, {"pc", "inUse", "onPut"})
           /\ ~conn'[user[u].dc].inUse /\ conn'[user[u].dc].onPut = {}
           /\ user[u].bad => conn'[user[u].dc].pc = "closed"
           /\ ~user[u].bad => conn'[user[u].dc].pc = conn[user[u].dc].pc
<1> DEFINE c == user[u].dc
           l == IF user[u].bad THEN "closed" ELSE conn[c].pc
<1>1. conn \in [Conns -> ConnType] /\ c \in Conns
  BY DEF Types
<1>2. conn' = [conn EXCEPT ![c].inUse = FALSE, ![c].onPut = {}, ![c].pc = l]
  BY <1>1 DEF Put
<1> HIDE DEF c, l
<1>3. /\ Alters(c, {"pc", "inUse", "onPut"})
      /\ ~conn'[c].inUse /\ conn'[c].onPut = {} /\ conn'[c].pc = l
  BY <1>1, <1>2 DEF ConnType, Alters
<1> QED  BY <1>3 DEF c, l

LEMMA PutOffAlters ==
    ASSUME Types, NEW c \in Conns, NEW d, conn' = PutOff(c, d)
    PROVE  \/ conn[c].inUse /\ Alters(c, {"onPut"}) /\ conn'[c].onPut = conn[c].onPut \cup {d}
           \/ ~conn[c].inUse /\ UNCHANGED conn
BY DEF PutOff, Types, ConnType, Alters

LEMMA RemoveAlters ==
    ASSUME Types, NEW u, NEW c \in Conns, c = ds[user[u].ds].dc, RemoveOpenStmt(u)
    PROVE  Alters(c, {"openStmt"}) /\ conn'[c].openStmt = conn[c].openStmt \ {user[u].ds}
<1>1. conn \in [Conns -> ConnType]
  BY DEF Types
<1>2. conn' = [conn EXCEPT ![c].openStmt = @ \ {user[u].ds}]
  BY DEF RemoveOpenStmt
<1> QED  BY <1>1, <1>2 DEF ConnType, Alters

\* The steps of a Close.
LEMMA CloseAlters ==
    ASSUME Types, NEW c \in Conns
    PROVE  /\ Expire(c) => /\ conn[c].pc = "open" /\ ~conn[c].inUse /\ pool.mu = None
                           /\ Alters(c, {"pc"}) /\ conn'[c].pc = "closed"
           /\ MarkClosed(c) => /\ conn[c].pc = "closed"
                               /\ Alters(c, {"pc"}) /\ conn'[c].pc = "listed"
           /\ ListOpen(c) => /\ conn[c].pc = "listed"
                             /\ Alters(c, {"pc", "todo", "openStmt"}) /\ conn'[c].pc = "closing"
                             /\ conn'[c].todo = conn[c].openStmt /\ conn'[c].openStmt = {}
           /\ CloseOpen(c) => /\ conn[c].pc = "closing" /\ Alters(c, {"todo"})
                              /\ \E d \in conn[c].todo : /\ ds' = CloseAll({d})
                                                         /\ conn'[c].todo = conn[c].todo \ {d}
           /\ FinalClosed(c) => /\ conn[c].pc = "closing" /\ conn[c].todo = {}
                                /\ Alters(c, {"pc"}) /\ conn'[c].pc = "final"
           /\ CountClosed(c) => /\ conn[c].pc = "final"
                                /\ Alters(c, {"pc"}) /\ conn'[c].pc = "gone"
<1>1. conn \in [Conns -> ConnType]
  BY DEF Types
<1>2. ASSUME NEW l, conn' = [conn EXCEPT ![c].pc = l]
      PROVE  Alters(c, {"pc"}) /\ conn'[c].pc = l
  BY <1>1, <1>2 DEF ConnType, Alters
<1>3. ASSUME ListOpen(c)
      PROVE  /\ conn[c].pc = "listed"
             /\ Alters(c, {"pc", "todo", "openStmt"}) /\ conn'[c].pc = "closing"
             /\ conn'[c].todo = conn[c].openStmt /\ conn'[c].openStmt = {}
  <2>1. PICK o : o = conn[c].openStmt
    OBVIOUS
  <2>2. conn' = [conn EXCEPT ![c].pc = "closing", ![c].todo = o, ![c].openStmt = {}]
    BY <1>3, <2>1 DEF ListOpen
  <2>3. /\ Alters(c, {"pc", "todo", "openStmt"}) /\ conn'[c].pc = "closing"
        /\ conn'[c].todo = o /\ conn'[c].openStmt = {}
    BY <1>1, <2>2 DEF ConnType, Alters
  <2> QED  BY <1>3, <2>1, <2>3 DEF ListOpen
<1>4. ASSUME CloseOpen(c)
      PROVE  /\ conn[c].pc = "closing" /\ Alters(c, {"todo"})
             /\ \E d \in conn[c].todo : /\ ds' = CloseAll({d})
                                        /\ conn'[c].todo = conn[c].todo \ {d}
  <2>1. PICK d \in conn[c].todo : ds' = CloseAll({d}) /\ conn' = [conn EXCEPT ![c].todo = @ \ {d}]
    BY <1>4 DEF CloseOpen
  <2>2. Alters(c, {"todo"}) /\ conn'[c].todo = conn[c].todo \ {d}
    BY <1>1, <2>1 DEF ConnType, Alters
  <2> QED  BY <1>4, <2>1, <2>2 DEF CloseOpen
<1> QED  BY <1>2, <1>3, <1>4 DEF Expire, MarkClosed, FinalClosed, CountClosed

-----------------------------------------------------------------------------
(* Who has a connection *)

\* A step that takes or returns no connection.
Calm(u) ==
    /\ user'[u].dc = user[u].dc /\ user[u].pc # "closing" /\ user'[u].pc # "closing"
    /\ \A c \in Conns :
          /\ conn'[c].pc = conn[c].pc /\ conn'[c].inUse = conn[c].inUse
          /\ ~conn[c].inUse => conn'[c].onPut = conn[c].onPut

\* What the final close works on.
LEMMA WorksOn ==
    ASSUME Types, Lists, FinalProgress, NEW u \in Finalizers
    PROVE  /\ user[u].todo \subseteq Ids
           /\ \A d \in Ids : ds[d].dc \in Conns
           /\ user[u].pc \in {"closeDs", "removeOpen"} => user[u].ds \in user[u].todo
BY IdsAreNumbers DEF Lists, FinalProgress, DsType

LEMMA CallsCalm ==
    ASSUME Types, AllPlaced, NEW u \in Users, CallStep(u), ~GetConn(u), ~Put(u), ~PutBad(u)
    PROVE  Calm(u)
<1>0. user[u] \in UserType /\ Placed(u)
  BY DEF Types, AllPlaced
<1>1. CASE Prepare(u) /\ PrepareOnConn(u, "run")
  <2>1. user[u].dc \in Conns
    BY <1>0, <1>1, CallGuards DEF Placed, UserType
  <2> QED  BY <1>1, <2>1, CallGuards, PrepareMoves, PrepareAlters DEF Calm, Moves, Alters, UserPcs, CallPcs
<1>2. CASE Prepare(u) /\ ~PrepareOnConn(u, "run")
  BY <1>2, CallGuards, CallMoves DEF Calm, Moves
<1>3. CASE ~Prepare(u)
  <2>1. UNCHANGED conn
    BY <1>3 DEF CallStep, StartCall, ConnStmt, Sweep, NoConn, Find, Run, CloseRows, Leave
  <2>2. user'[u].dc = user[u].dc /\ user[u].pc # "closing" /\ user'[u].pc # "closing"
    BY <1>3, CallGuards, CallMoves DEF CallStep, Moves
  <2> QED  BY <2>1, <2>2 DEF Calm
<1> QED  BY <1>1, <1>2, <1>3

LEMMA ClosingCalm ==
    ASSUME Types, Lists, FinalProgress, NEW u \in Users, CloseStep(u)
    PROVE  Calm(u)
<1>1. CASE NoteUnused(u)
  <2>0. u \in Finalizers
    BY <1>1, CloseGuards DEF Finalizers
  <2>1. PICK d \in Ids : d = user'[u].ds /\ ds[d].dc \in Conns
    BY <1>1, <2>0, WorksOn, CloseMoves
  <2>2. \/ UNCHANGED conn /\ Moves(u, "closeDs", {"ds"})
        \/ conn' = PutOff(ds[d].dc, d) /\ Moves(u, "removeOpen", {"ds"})
    BY <1>1, <2>1, CloseMoves
  <2> QED  BY <1>1, <2>1, <2>2, PutOffAlters, CloseGuards DEF Calm, Moves, Alters
<1>2. CASE RemoveOpenStmt(u)
  <2>1. u \in Finalizers /\ user[u].pc = "removeOpen"
    BY <1>2, CloseGuards DEF Finalizers
  <2>2. ds[user[u].ds].dc \in Conns
    BY <2>1, WorksOn
  <2> QED  BY <1>2, <2>1, <2>2, RemoveAlters, CloseMoves DEF Calm, Moves, Alters
<1>3. CASE Undep(u)
  <2>1. Moves(u, "panic", {}) \/ Moves(u, "final", {}) \/ Set(u, Done(u))
    BY <1>3, CloseMoves
  <2>2. UNCHANGED conn
    BY <1>3 DEF Undep
  <2> QED  BY <1>3, <2>1, <2>2, CloseGuards, DoneMoves DEF Calm, Moves
<1>4. CASE AllUnused(u)
  <2>1. UNCHANGED conn
    BY <1>4 DEF AllUnused
  <2> QED  BY <1>4, <2>1, CloseGuards, DoneMoves DEF Calm, Moves
<1>5. CASE StartClose(u) \/ CloseStmt(u) \/ FinalClose(u) \/ CloseDs(u)
  <2>1. UNCHANGED conn
    BY <1>5 DEF StartClose, CloseStmt, FinalClose, CloseDs
  <2> QED  BY <1>5, <2>1, CloseGuards, CloseMoves DEF Calm, Moves
<1> QED  BY <1>1, <1>2, <1>3, <1>4, <1>5 DEF CloseStep

LEMMA TxCalm ==
    ASSUME Types, AllPlaced, NEW u \in Users, TxStep(u), ~Begin(u)
    PROVE  Calm(u)
<1>0. user[u] \in UserType /\ Placed(u)
  BY DEF Types, AllPlaced
<1>1. CASE TxShare(u) /\ PrepareOnConn(u, "txDep")
  <2>1. user[u].dc \in Conns
    BY <1>0, <1>1, TxGuards DEF Placed, UserType, TxPcs
  <2> QED  BY <1>1, <2>1, TxGuards, PrepareMoves, PrepareAlters DEF Calm, Moves, Alters, UserPcs, TxPcs
<1>2. CASE TxShare(u) /\ ~PrepareOnConn(u, "txDep")
  BY <1>2, TxGuards, TxMoves DEF Calm, Moves
<1>3. CASE ~TxShare(u)
  <2>1. UNCHANGED conn
    BY <1>3 DEF TxStep, StmtContext, TxFind, TxPrepare, TxDep, TxClose, TxEnd
  <2>2. user'[u].dc = user[u].dc /\ user[u].pc # "closing" /\ user'[u].pc # "closing"
    BY <1>3, TxGuards, TxMoves DEF TxStep, Moves
  <2> QED  BY <2>1, <2>2 DEF Calm
<1> QED  BY <1>1, <1>2, <1>3

\* Held, by user and by connection.
HeldBy(u) ==
    /\ user[u].dc # None /\ user[u].pc # "closing" =>
          conn[user[u].dc].inUse /\ conn[user[u].dc].pc = "open"
    /\ user[u].pc = "closing" => conn[user[u].dc].pc \in Shut
Alone == \A u, v \in Users : user[u].dc # None /\ user[u].dc = user[v].dc => u = v
Holder(c) ==
    /\ conn[c].inUse => \E u \in Users : user[u].dc = c /\ user[u].pc # "closing"
    /\ ~conn[c].inUse => conn[c].onPut = {}

LEMMA HeldParts == Held <=> (\A u \in Users : HeldBy(u)) /\ Alone /\ \A c \in Conns : Holder(c)
BY DEF Held, HeldBy, Alone, Holder


LEMMA HasConn ==
    ASSUME Types, AllPlaced, NEW u \in Users
    PROVE  /\ user[u].dc \in Conns \cup {None}
           /\ user[u].pc \in {"find", "prepare", "run", "rows", "put", "closing"} \cup TxPcs
                 => user[u].dc \in Conns
           /\ user[u].tx => user[u].dc \in Conns
           /\ user[u].pc \in {"connStmt", "conn", "leave"} => user[u].dc = None
           /\ user[u].pc = "idle" /\ ~user[u].tx => user[u].dc = None
BY DEF Types, UserType, AllPlaced, Placed, TxPcs

LEMMA HeldCalm ==
    ASSUME Types, AllPlaced, Held, NEW u \in Users, \A v \in Users \ {u} : user'[v] = user[v],
           Calm(u)
    PROVE  Held'
<1>1. ASSUME NEW v \in Users
      PROVE  /\ user'[v].dc = user[v].dc
             /\ user'[v].pc = "closing" <=> user[v].pc = "closing"
             /\ user[v].dc # None \/ user[v].pc = "closing" => user[v].dc \in Conns
  BY HasConn DEF Calm
<1>2. \A v \in Users : HeldBy(v)'
  <2> SUFFICES ASSUME NEW v \in Users PROVE HeldBy(v)'
    OBVIOUS
  <2> QED  BY <1>1, HeldParts DEF HeldBy, Calm
<1>3. Alone'
  BY <1>1, HeldParts DEF Alone
<1>4. \A c \in Conns : Holder(c)'
  BY <1>1, HeldParts DEF Holder, Calm
<1> QED  BY <1>2, <1>3, <1>4 DEF Held, HeldBy, Alone, Holder

LEMMA HeldTake ==
    ASSUME Types, AllPlaced, Held, NEW u \in Users, \A v \in Users \ {u} : user'[v] = user[v],
           user[u].dc = None, user'[u].pc # "closing",
           NEW c \in Conns, Alters(c, {"pc", "inUse"}), conn[c].pc \in {"none", "open"},
           ~conn[c].inUse, conn'[c].pc = "open", conn'[c].inUse, user'[u].dc = c
    PROVE  Held'
<1>0. \A v \in Users : /\ user[v].dc # None \/ user[v].pc = "closing" => user[v].dc \in Conns
                       /\ HeldBy(v)
  BY HasConn, HeldParts
<1>1. \A v \in Users : user[v].dc # c
  BY <1>0, StatementsAssumption DEF HeldBy, Shut
<1>2. \A v \in Users : HeldBy(v)'
  <2> SUFFICES ASSUME NEW v \in Users PROVE HeldBy(v)'
    OBVIOUS
  <2>1. CASE v = u
    BY <2>1 DEF HeldBy
  <2>2. CASE v # u
    BY <1>0, <1>1, <2>2 DEF HeldBy, Alters
  <2> QED  BY <2>1, <2>2
<1>3. Alone'
  BY <1>1, HeldParts DEF Alone
<1>4. \A x \in Conns : Holder(x)'
  <2> SUFFICES ASSUME NEW x \in Conns PROVE Holder(x)'
    OBVIOUS
  <2>1. CASE x = c
    BY <2>1 DEF Holder
  <2>2. CASE x # c
    BY <2>2, HeldParts, StatementsAssumption DEF Holder, Alters
  <2> QED  BY <2>1, <2>2
<1> QED  BY <1>2, <1>3, <1>4 DEF Held, HeldBy, Alone, Holder

LEMMA HeldPut ==
    ASSUME Types, AllPlaced, Held, NEW u \in Users, \A v \in Users \ {u} : user'[v] = user[v], Put(u)
    PROVE  Held'
<1> DEFINE c == user[u].dc
<1>0. \A v \in Users : /\ user[v].dc # None \/ user[v].pc = "closing" => user[v].dc \in Conns
                       /\ HeldBy(v)
  BY HasConn, HeldParts
<1>1. user[u].pc = "put" /\ c \in Conns /\ c # None
  BY CallGuards, HasConn, StatementsAssumption
<1>2. /\ \A x \in Conns \ {c} : conn'[x] = conn[x]
      /\ ~conn'[c].inUse /\ conn'[c].onPut = {}
      /\ user[u].bad => conn'[c].pc = "closed"
  BY <1>1, PutAlters DEF Alters
<1>3. \/ user[u].bad /\ user'[u].dc = c /\ user'[u].pc = "closing"
      \/ user'[u].dc = None /\ user'[u].pc # "closing"
  BY CallMoves, AfterPutMoves DEF Moves
<1> HIDE DEF c
<1>4. \A v \in Users \ {u} : user[v].dc # c
  BY <1>1, HeldParts DEF Alone, c
<1>5. \A v \in Users : HeldBy(v)'
  <2> SUFFICES ASSUME NEW v \in Users PROVE HeldBy(v)'
    OBVIOUS
  <2>1. CASE v = u
    BY <1>2, <1>3, <2>1 DEF HeldBy, Shut
  <2>2. CASE v # u
    BY <1>0, <1>2, <1>4, <2>2 DEF HeldBy
  <2> QED  BY <2>1, <2>2
<1>6. Alone'
  BY <1>3, <1>4, HeldParts DEF Alone
<1>7. \A x \in Conns : Holder(x)'
  <2> SUFFICES ASSUME NEW x \in Conns PROVE Holder(x)'
    OBVIOUS
  <2>1. CASE x = c
    BY <1>2, <2>1 DEF Holder
  <2>2. CASE x # c
    <3>1. conn'[x] = conn[x] /\ user[u].dc # x
      BY <1>2, <2>2 DEF c
    <3> QED  BY <3>1, HeldParts DEF Holder
  <2> QED  BY <2>1, <2>2
<1> QED  BY <1>5, <1>6, <1>7 DEF Held, HeldBy, Alone, Holder

LEMMA HeldPutBad ==
    ASSUME Types, AllPlaced, Held, NEW u \in Users, \A v \in Users \ {u} : user'[v] = user[v],
           user[u].pc = "closing", user'[u].dc = None, user'[u].pc # "closing", UNCHANGED conn
    PROVE  Held'
<1>1. \A v \in Users : HeldBy(v)'
  BY HeldParts DEF HeldBy
<1>2. Alone'
  BY HeldParts DEF Alone
<1>3. \A x \in Conns : Holder(x)'
  BY HeldParts DEF Holder
<1> QED  BY <1>1, <1>2, <1>3 DEF Held, HeldBy, Alone, Holder

LEMMA HeldUser ==
    ASSUME Types, AllPlaced, Held, Lists, FinalProgress, NEW u \in Users, UserStep(u)
    PROVE  Held'
<1>1. \A v \in Users \ {u} : user'[v] = user[v]
  BY OneMoves
<1>2. CASE Calm(u)
  BY <1>1, <1>2, HeldCalm
<1>3. CASE GetConn(u)
  <2>1. user[u].dc = None /\ user'[u].pc # "closing"
    BY <1>3, CallGuards, CallMoves, HasConn DEF Moves
  <2>2. Take(u, "find", FALSE, user[u].attempt = Attempts)
    BY <1>3 DEF GetConn
  <2> QED  BY <1>1, <2>1, <2>2, TakeAlters, HeldTake
<1>4. CASE Begin(u)
  <2>1. user[u].dc = None /\ user'[u].pc # "closing"
    BY <1>4, TxGuards, TxMoves, HasConn DEF Moves
  <2>2. Take(u, "idle", TRUE, FALSE)
    BY <1>4 DEF Begin
  <2> QED  BY <1>1, <2>1, <2>2, TakeAlters, HeldTake
<1>5. CASE Put(u)
  BY <1>1, <1>5, HeldPut
<1>6. CASE PutBad(u)
  <2>1. Set(u, AfterPut(u)) /\ UNCHANGED conn /\ user[u].pc = "closing"
    BY <1>6 DEF PutBad
  <2> QED  BY <1>1, <2>1, AfterPutMoves, HeldPutBad DEF Moves
<1> QED  BY <1>2, <1>3, <1>4, <1>5, <1>6, CallsCalm, ClosingCalm, TxCalm DEF UserStep

LEMMA HeldConn ==
    ASSUME Types, AllPlaced, Held, NEW c \in Conns, ConnStep(c)
    PROVE  Held'
<1>0. UNCHANGED user
  BY DEF ConnStep, Expire, MarkClosed, ListOpen, CloseOpen, FinalClosed, CountClosed
<1>1. /\ \A x \in Conns \ {c} : conn'[x] = conn[x]
      /\ conn'[c].inUse = conn[c].inUse /\ conn'[c].onPut = conn[c].onPut
      /\ \/ conn[c].pc = "open" /\ ~conn[c].inUse
         \/ conn[c].pc \in Shut
      /\ conn'[c].pc \in Shut
  BY CloseAlters DEF ConnStep, Alters, Shut
<1>2. \A v \in Users : HeldBy(v)'
  <2> SUFFICES ASSUME NEW v \in Users PROVE HeldBy(v)'
    OBVIOUS
  <2>1. HeldBy(v) /\ (user[v].dc # None \/ user[v].pc = "closing" => user[v].dc \in Conns)
    BY HeldParts, HasConn
  <2>2. CASE user[v].dc = c
    BY <1>0, <1>1, <2>1, <2>2 DEF HeldBy, Shut
  <2>3. CASE user[v].dc # c
    BY <1>0, <1>1, <2>1, <2>3 DEF HeldBy
  <2> QED  BY <2>2, <2>3
<1>3. Alone'
  BY <1>0, HeldParts DEF Alone
<1>4. \A x \in Conns : Holder(x)'
  BY <1>0, <1>1, HeldParts DEF Holder
<1> QED  BY <1>2, <1>3, <1>4 DEF Held, HeldBy, Alone, Holder

-----------------------------------------------------------------------------
(* What becomes of the statement *)

Updates(fields) ==
    /\ "css" \notin fields => stmt'.css = stmt.css
    /\ "closed" \notin fields => stmt'.closed = stmt.closed
    /\ "lastNumClosed" \notin fields => stmt'.lastNumClosed = stmt.lastNumClosed
    /\ "readers" \notin fields => stmt'.readers = stmt.readers
    /\ "writer" \notin fields => stmt'.writer = stmt.writer
    /\ "mu" \notin fields => stmt'.mu = stmt.mu

\* Steps that change the statement; all others leave it alone.
LEMMA StmtUpdates ==
    ASSUME Types, NEW u \in Users
    PROVE  /\ StartCall(u) => /\ stmt.writer = None /\ Updates({"readers"})
                              /\ stmt'.readers = stmt.readers \cup {u}
           /\ ConnStmt(u) => /\ stmt.mu = None
                             /\ \/ Moves(u, "sweep", {"seen"}) /\ Updates({"mu"}) /\ stmt'.mu = u
                                \/ user'[u].pc # "sweep" /\ UNCHANGED stmt
           /\ Sweep(u) => /\ Updates({"css", "lastNumClosed", "mu"})
                          /\ stmt'.css = Remaining /\ stmt'.lastNumClosed = user[u].seen
                          /\ stmt'.mu = IF user[u].tx THEN u ELSE None
           /\ \A l : PrepareOnConn(u, l) =>
                        Updates({"css"}) /\ stmt'.css = stmt.css \cup {Len(ds) + 1}
           /\ Run(u) => \/ UNCHANGED stmt
                        \/ Updates({"readers"}) /\ stmt'.readers = stmt.readers \ {u}
           /\ Leave(u) => Updates({"readers"}) /\ stmt'.readers = stmt.readers \ {u}
           /\ StartClose(u) => /\ stmt.writer = None /\ stmt.readers = {}
                               /\ Updates({"writer"}) /\ stmt'.writer = u
           /\ CloseStmt(u) => IF stmt.closed THEN Updates({"writer"}) /\ stmt'.writer = None
                              ELSE Updates({"closed"}) /\ stmt'.closed
           /\ Undep(u) => \/ UNCHANGED stmt
                          \/ Updates({"writer"}) /\ stmt'.writer = Released(u)
           /\ FinalClose(u) => stmt.mu = None /\ Updates({"mu"}) /\ stmt'.mu = u
           /\ AllUnused(u) => /\ Updates({"css", "mu", "writer"})
                              /\ stmt'.css = {} /\ stmt'.mu = None /\ stmt'.writer = Released(u)
           /\ StmtContext(u) => /\ stmt.mu = None
                                /\ \/ UNCHANGED stmt /\ stmt.closed
                                   \/ Updates({"mu"}) /\ stmt'.mu = u
           /\ TxFind(u) => Updates({"mu"}) /\ stmt'.mu = None
<1>1. stmt \in StmtType
  BY DEF Types
<1> USE DEF Updates
<1>2. StartCall(u) => /\ stmt.writer = None /\ Updates({"readers"})
                      /\ stmt'.readers = stmt.readers \cup {u}
  BY <1>1 DEF StartCall, StmtType
<1>3. ASSUME ConnStmt(u)
      PROVE  /\ stmt.mu = None
             /\ \/ Moves(u, "sweep", {"seen"}) /\ Updates({"mu"}) /\ stmt'.mu = u
                \/ user'[u].pc # "sweep" /\ UNCHANGED stmt
  <2>1. \/ Go(u, "leave") /\ UNCHANGED stmt
        \/ Go(u, "conn") /\ UNCHANGED stmt
        \/ /\ Set(u, [user[u] EXCEPT !.pc = "sweep", !.seen = pool.numClosed])
           /\ stmt' = [stmt EXCEPT !.mu = u]
    BY <1>3 DEF ConnStmt
  <2>2. CASE stmt' = [stmt EXCEPT !.mu = u] /\ Moves(u, "sweep", {"seen"})
    <3>1. Updates({"mu"}) /\ stmt'.mu = u
      BY <1>1, <2>2 DEF StmtType
    <3> QED  BY <1>3, <2>2, <3>1 DEF ConnStmt
  <2> HIDE DEF Updates
  <2>3. CASE Go(u, "leave") /\ UNCHANGED stmt
    BY <1>3, <2>3, GoMoves DEF ConnStmt, Moves, UserPcs, CallPcs
  <2>4. CASE Go(u, "conn") /\ UNCHANGED stmt
    BY <1>3, <2>4, GoMoves DEF ConnStmt, Moves, UserPcs, CallPcs
  <2> QED  BY <2>1, <2>2, <2>3, <2>4, SetsSeen
<1>4. Sweep(u) => /\ Updates({"css", "lastNumClosed", "mu"})
                  /\ stmt'.css = Remaining /\ stmt'.lastNumClosed = user[u].seen
                  /\ stmt'.mu = IF user[u].tx THEN u ELSE None
  BY <1>1 DEF Sweep, StmtType
<1>5. \A l : PrepareOnConn(u, l) =>
                Updates({"css"}) /\ stmt'.css = stmt.css \cup {Len(ds) + 1}
  BY <1>1 DEF PrepareOnConn, StmtType
<1>6. Run(u) => \/ UNCHANGED stmt
                \/ Updates({"readers"}) /\ stmt'.readers = stmt.readers \ {u}
  BY <1>1 DEF Run, StmtType
<1>7. Leave(u) => Updates({"readers"}) /\ stmt'.readers = stmt.readers \ {u}
  BY <1>1 DEF Leave, StmtType
<1>8. StartClose(u) => /\ stmt.writer = None /\ stmt.readers = {}
                       /\ Updates({"writer"}) /\ stmt'.writer = u
  BY <1>1 DEF StartClose, StmtType
<1>9. CloseStmt(u) => IF stmt.closed THEN Updates({"writer"}) /\ stmt'.writer = None
                      ELSE Updates({"closed"}) /\ stmt'.closed
  BY <1>1 DEF CloseStmt, StmtType
<1>10. ASSUME stmt' = [stmt EXCEPT !.writer = Released(u)]
       PROVE  Updates({"writer"}) /\ stmt'.writer = Released(u)
  BY <1>1, <1>10 DEF StmtType
<1>11. Undep(u) => \/ UNCHANGED stmt
                   \/ Updates({"writer"}) /\ stmt'.writer = Released(u)
  BY <1>10 DEF Undep
<1>12. FinalClose(u) => stmt.mu = None /\ Updates({"mu"}) /\ stmt'.mu = u
  BY <1>1 DEF FinalClose, StmtType
<1>13. AllUnused(u) => /\ Updates({"css", "mu", "writer"})
                       /\ stmt'.css = {} /\ stmt'.mu = None /\ stmt'.writer = Released(u)
  BY <1>1 DEF AllUnused, StmtType
<1>14. StmtContext(u) => /\ stmt.mu = None
                         /\ \/ UNCHANGED stmt /\ stmt.closed
                            \/ Updates({"mu"}) /\ stmt'.mu = u
  BY <1>1 DEF StmtContext, StmtType
<1>15. TxFind(u) => Updates({"mu"}) /\ stmt'.mu = None
  BY <1>1 DEF TxFind, StmtType
<1> QED  BY <1>2, <1>3, <1>4, <1>5, <1>6, <1>7, <1>8, <1>9, <1>11, <1>12, <1>13, <1>14, <1>15

LEMMA PoolUpdates ==
    ASSUME Types, NEW u \in Users
    PROVE  /\ NoteUnused(u) => /\ pool.mu = None
                               /\ \/ user'[u].pc = "closeDs" /\ pool'.mu = u /\ pool'.numClosed = pool.numClosed
                                  \/ user'[u].pc = "removeOpen" /\ UNCHANGED pool
           /\ CloseDs(u) => pool'.mu = None /\ pool'.numClosed = pool.numClosed
           /\ UserStep(u) /\ ~NoteUnused(u) /\ ~CloseDs(u) => UNCHANGED pool
<1>1. pool \in [numClosed : Nat, mu : Users \cup {None}]
  BY DEF Types
<1>2. ASSUME NoteUnused(u)
      PROVE  /\ pool.mu = None
             /\ \/ user'[u].pc = "closeDs" /\ pool'.mu = u /\ pool'.numClosed = pool.numClosed
                \/ user'[u].pc = "removeOpen" /\ UNCHANGED pool
  <2>1. \/ pool' = [pool EXCEPT !.mu = u] /\ user'[u].pc = "closeDs"
        \/ UNCHANGED pool /\ user'[u].pc = "removeOpen"
    BY <1>2, CloseMoves DEF Moves
  <2> QED  BY <1>1, <1>2, <2>1 DEF NoteUnused
<1>3. CloseDs(u) => pool'.mu = None /\ pool'.numClosed = pool.numClosed
  BY <1>1 DEF CloseDs
<1>4. UserStep(u) /\ ~NoteUnused(u) /\ ~CloseDs(u) => UNCHANGED pool
  BY DEF UserStep, CallStep, CloseStep, TxStep, StartCall, ConnStmt, Sweep, GetConn, Take, NoConn,
     Find, Prepare, PrepareOnConn, Run, CloseRows, Put, PutBad, Leave, StartClose, CloseStmt,
     Undep, FinalClose, RemoveOpenStmt, AllUnused, Begin, StmtContext, TxFind, TxShare, TxPrepare,
     TxDep, TxClose, TxEnd
<1> QED  BY <1>2, <1>3, <1>4

\* All other steps of a user leave the statement alone.
LEMMA StmtKept ==
    ASSUME NEW u,
           \/ GetConn(u) \/ NoConn(u) \/ Find(u) \/ CloseRows(u) \/ Put(u) \/ PutBad(u)
           \/ NoteUnused(u) \/ CloseDs(u) \/ RemoveOpenStmt(u)
           \/ Begin(u) \/ TxPrepare(u) \/ TxDep(u) \/ TxClose(u) \/ TxEnd(u)
    PROVE  UNCHANGED stmt
BY DEF GetConn, Take, NoConn, Find, CloseRows, Put, PutBad, NoteUnused, CloseDs, RemoveOpenStmt,
   Begin, TxPrepare, TxDep, TxClose, TxEnd

-----------------------------------------------------------------------------
(* Who has a mutex *)

LocksOf(u) ==
    /\ Inside(u) => u \in stmt.readers
    /\ Closing(u) => stmt.writer = u
    /\ user[u].pc \in {"sweep", "txFind", "unused", "closeDs", "removeOpen"} => stmt.mu = u
    /\ user[u].pc = "closeDs" => pool.mu = u

LEMMA LocksParts ==
    Locks <=> (\A u \in Users : LocksOf(u)) /\ (stmt.writer # None => stmt.readers = {})
BY DEF Locks, LocksOf

\* u takes no mutex that another has, and lets no reader in with a writer.
Polite(u) ==
    /\ stmt.readers \ {u} \subseteq stmt'.readers
    /\ stmt'.writer = stmt.writer \/ stmt.writer \in {None, u}
    /\ stmt'.mu = stmt.mu \/ stmt.mu \in {None, u}
    /\ pool'.mu = pool.mu \/ pool.mu \in {None, u}
    /\ stmt'.writer # None => stmt'.readers = {}

LEMMA LocksPolite ==
    ASSUME Locks, NEW u \in Users, \A v \in Users \ {u} : user'[v] = user[v], Polite(u), LocksOf(u)'
    PROVE  Locks'
<1>1. ASSUME NEW v \in Users \ {u} PROVE LocksOf(v)'
  <2>1. LocksOf(v) /\ user'[v] = user[v] /\ v # None /\ v # u
    BY LocksParts, StatementsAssumption
  <2>2. Inside(v)' <=> Inside(v)
    BY <2>1 DEF Inside
  <2>3. Closing(v)' <=> Closing(v)
    BY <2>1 DEF Closing
  <2> QED  BY <2>1, <2>2, <2>3 DEF LocksOf, Polite
<1> QED  BY <1>1 DEF Locks, LocksOf, Polite

LEMMA LocksInCalls ==
    ASSUME Types, AllPlaced, Locks, NEW u \in Users, CallStep(u)
    PROVE  Polite(u) /\ LocksOf(u)'
<1>0. LocksOf(u) /\ (stmt.writer # None => stmt.readers = {}) /\ Placed(u) /\ u # None
  BY LocksParts, StatementsAssumption DEF AllPlaced
<1>a. UNCHANGED pool
  BY PoolUpdates, CallGuards, CloseGuards DEF UserStep, CallStep
<1>b. stmt.readers \subseteq Users
  BY DEF Types, StmtType
<1> USE DEF Polite, LocksOf, Inside, Closing, Moves, Updates, Finals
<1>1. CASE StartCall(u)
  BY <1>0, <1>a, <1>b, <1>1, CallMoves, StmtUpdates
<1>2. CASE ConnStmt(u)
  BY <1>0, <1>a, <1>2, CallMoves, CallGuards, StmtUpdates
<1>3. CASE Sweep(u)
  BY <1>0, <1>a, <1>3, CallMoves, CallGuards, StmtUpdates
<1>4. CASE GetConn(u)
  BY <1>0, <1>a, <1>4, CallMoves, CallGuards, StmtKept
<1>5. CASE NoConn(u)
  BY <1>0, <1>a, <1>5, CallMoves, CallGuards, StmtKept
<1>6. CASE Find(u)
  BY <1>0, <1>a, <1>6, CallMoves, CallGuards, StmtKept
<1>7. CASE Prepare(u)
  <2>1. CASE PrepareOnConn(u, "run")
    BY <1>0, <1>a, <1>7, <2>1, CallGuards, PrepareMoves, StmtUpdates DEF UserPcs, CallPcs
  <2>2. CASE ~PrepareOnConn(u, "run")
    BY <1>0, <1>a, <1>7, <2>2, CallGuards, CallMoves DEF Placed
  <2> QED  BY <2>1, <2>2
<1>8. CASE Run(u)
  <2>1. CASE Moves(u, "put", {"bad"}) /\ UNCHANGED stmt
    BY <1>0, <1>a, <1>8, <2>1, CallGuards DEF Placed
  <2>2. CASE Moves(u, "rows", {"op"}) /\ stmt' = [stmt EXCEPT !.readers = @ \ {u}]
    <3>1. Updates({"readers"}) /\ stmt'.readers = stmt.readers \ {u}
      BY <2>2 DEF Types, StmtType
    <3> QED  BY <1>0, <1>a, <1>8, <2>2, <3>1
  <2> QED  BY <1>8, <2>1, <2>2, CallMoves
<1>9. CASE CloseRows(u)
  BY <1>0, <1>a, <1>9, CallMoves, CallGuards, StmtKept DEF Placed
<1>10. CASE Put(u)
  <2>1. Moves(u, "closing", {}) \/ Set(u, AfterPut(u))
    BY <1>10, CallMoves
  <2> QED  BY <1>0, <1>a, <1>10, <2>1, CallGuards, AfterPutMoves, StmtKept DEF Placed
<1>11. CASE PutBad(u)
  <2>1. Set(u, AfterPut(u))
    BY <1>11 DEF PutBad
  <2> QED  BY <1>0, <1>a, <1>11, <2>1, CallGuards, AfterPutMoves, StmtKept DEF Placed
<1>12. CASE Leave(u)
  BY <1>0, <1>a, <1>12, CallMoves, CallGuards, StmtUpdates
<1> QED  BY <1>1, <1>2, <1>3, <1>4, <1>5, <1>6, <1>7, <1>8, <1>9, <1>10, <1>11, <1>12
         DEF CallStep

LEMMA LocksInClosing ==
    ASSUME Types, AllPlaced, Locks, NEW u \in Users, CloseStep(u)
    PROVE  Polite(u) /\ LocksOf(u)'
<1>0. LocksOf(u) /\ (stmt.writer # None => stmt.readers = {}) /\ Placed(u) /\ u # None
  BY LocksParts, StatementsAssumption DEF AllPlaced
<1>b. ~NoteUnused(u) /\ ~CloseDs(u) => UNCHANGED pool
  BY PoolUpdates DEF UserStep
<1> USE DEF Polite, LocksOf, Inside, Closing, Moves, Updates, Finals
<1>1. CASE StartClose(u)
  BY <1>0, <1>b, <1>1, CloseMoves, CloseGuards, StmtUpdates
<1>2. CASE CloseStmt(u)
  BY <1>0, <1>b, <1>2, CloseMoves, CloseGuards, StmtUpdates
<1>3. CASE Undep(u)
  <2>0. ~NoteUnused(u) /\ ~CloseDs(u)
    BY <1>3, CloseGuards
  <2>1. \/ Moves(u, "panic", {}) /\ UNCHANGED stmt
        \/ Moves(u, "final", {}) /\ UNCHANGED stmt
        \/ Set(u, Done(u)) /\ stmt' = [stmt EXCEPT !.writer = Released(u)]
    BY <1>3, CloseMoves
  <2>2. CASE Set(u, Done(u)) /\ stmt' = [stmt EXCEPT !.writer = Released(u)]
    <3>1. Updates({"writer"}) /\ stmt'.writer = Released(u)
      BY <2>2 DEF Types, StmtType
    <3> QED  BY <1>0, <1>b, <1>3, <2>0, <2>2, <3>1, CloseGuards, DoneMoves DEF Released
  <2> QED  BY <1>0, <1>b, <1>3, <2>0, <2>1, <2>2, CloseGuards
<1>4. CASE FinalClose(u)
  BY <1>0, <1>b, <1>4, CloseMoves, CloseGuards, StmtUpdates
<1>5. CASE NoteUnused(u)
  <2>1. Moves(u, "closeDs", {"ds"}) \/ Moves(u, "removeOpen", {"ds"})
    BY <1>5, CloseMoves
  <2> QED  BY <1>0, <1>5, <2>1, CloseGuards, PoolUpdates, StmtKept
<1>6. CASE CloseDs(u)
  BY <1>0, <1>6, CloseMoves, CloseGuards, PoolUpdates, StmtKept
<1>7. CASE RemoveOpenStmt(u)
  BY <1>0, <1>b, <1>7, CloseMoves, CloseGuards, StmtKept
<1>8. CASE AllUnused(u)
  <2>0. ~NoteUnused(u) /\ ~CloseDs(u)
    <3>1. user'[u].pc \in {"idle", "put"}
      BY <1>8, CloseGuards, DoneMoves
    <3> QED  BY <1>8, <3>1, CloseGuards, PoolUpdates
  <2> QED  BY <1>0, <1>b, <1>8, <2>0, CloseGuards, DoneMoves, StmtUpdates DEF Released
<1> QED  BY <1>1, <1>2, <1>3, <1>4, <1>5, <1>6, <1>7, <1>8 DEF CloseStep

LEMMA LocksInTx ==
    ASSUME Types, AllPlaced, Locks, NEW u \in Users, TxStep(u)
    PROVE  Polite(u) /\ LocksOf(u)'
<1>0. LocksOf(u) /\ (stmt.writer # None => stmt.readers = {}) /\ Placed(u) /\ u # None
  BY LocksParts, StatementsAssumption DEF AllPlaced
<1>a. UNCHANGED pool
  BY PoolUpdates, TxGuards, CloseGuards DEF UserStep, TxStep
<1> USE DEF Polite, LocksOf, Inside, Closing, Moves, Updates, Finals
<1>1. CASE Begin(u)
  BY <1>0, <1>a, <1>1, TxMoves, StmtKept
<1>2. CASE StmtContext(u)
  <2>1. \/ Moves(u, "txPrepare", {}) /\ UNCHANGED stmt
        \/ /\ Updates({"mu"}) /\ stmt'.mu = u
           /\ Moves(u, "sweep", {"seen"}) \/ Moves(u, "txFind", {"seen"})
    <3>1. CASE stmt.closed
      BY <1>2, <3>1, TxMoves
    <3>2. CASE ~stmt.closed
      BY <1>2, <3>2, TxMoves, StmtUpdates
    <3> QED  BY <3>1, <3>2
  <2> QED  BY <1>0, <1>a, <1>2, <2>1, TxGuards, StmtUpdates
<1>3. CASE TxFind(u)
  BY <1>0, <1>a, <1>3, TxMoves, TxGuards, StmtUpdates
<1>4. CASE TxShare(u)
  <2>1. CASE PrepareOnConn(u, "txDep")
    BY <1>0, <1>a, <1>4, <2>1, TxGuards, PrepareMoves, StmtUpdates DEF UserPcs, TxPcs
  <2>2. CASE ~PrepareOnConn(u, "txDep")
    BY <1>0, <1>a, <1>4, <2>2, TxGuards, TxMoves
  <2> QED  BY <2>1, <2>2
<1>5. CASE TxPrepare(u)
  BY <1>0, <1>a, <1>5, TxMoves, StmtKept
<1>6. CASE TxDep(u)
  BY <1>0, <1>a, <1>6, TxMoves, StmtKept
<1>7. CASE TxClose(u)
  BY <1>0, <1>a, <1>7, TxMoves, StmtKept
<1>8. CASE TxEnd(u)
  <2>1. /\ user'[u].op = "commit"
        /\ user'[u].pc \in {"undep", "put"}
    BY <1>8, TxMoves
  <2> QED  BY <1>0, <1>a, <1>8, <2>1, StmtKept
<1> QED  BY <1>1, <1>2, <1>3, <1>4, <1>5, <1>6, <1>7, <1>8 DEF TxStep

LEMMA LocksUser ==
    ASSUME Types, AllPlaced, Locks, NEW u \in Users, UserStep(u)
    PROVE  Locks'
<1>1. \A v \in Users \ {u} : user'[v] = user[v]
  BY OneMoves
<1>2. Polite(u) /\ LocksOf(u)'
  BY LocksInCalls, LocksInClosing, LocksInTx DEF UserStep
<1> QED  BY <1>1, <1>2, LocksPolite

LEMMA LocksConn ==
    ASSUME Types, Locks, NEW c \in Conns, ConnStep(c)
    PROVE  Locks'
<1>1. UNCHANGED <<user, stmt>> /\ pool'.mu = pool.mu
  BY DEF ConnStep, Expire, MarkClosed, ListOpen, CloseOpen, FinalClosed, CountClosed, Types
<1> QED  BY <1>1 DEF Locks, Inside, Closing

-----------------------------------------------------------------------------
(* A closed statement *)

LEMMA ClosedKept ==
    ASSUME Types, NEW u \in Users, UserStep(u), ~CloseStmt(u)
    PROVE  stmt'.closed = stmt.closed
<1>1. CASE CallStep(u)
  BY <1>1, StmtUpdates, StmtKept DEF CallStep, Updates, ConnStmt, Prepare
<1>2. CASE CloseStep(u)
  BY <1>2, StmtUpdates, StmtKept DEF CloseStep, Updates
<1>3. CASE TxStep(u)
  BY <1>3, StmtUpdates, StmtKept DEF TxStep, Updates, TxShare
<1> QED  BY <1>1, <1>2, <1>3 DEF UserStep

Executing(u) ==
    user[u].pc \in {"conn", "find", "prepare", "run"} \/ (user[u].pc = "sweep" /\ ~user[u].tx)

LEMMA NobodyExecutes == ClosedStays <=> (stmt.closed => \A u \in Users : ~Executing(u))
BY DEF ClosedStays, Executing

LEMMA ExecutingGrows ==
    ASSUME Types, AllPlaced, NEW u \in Users, UserStep(u), stmt.closed, Executing(u)'
    PROVE  Executing(u)
<1>0. Placed(u)
  BY DEF AllPlaced
<1>1. CASE CallStep(u)
  <2>1. CASE Prepare(u)
    BY <2>1, CallGuards DEF Executing
  <2>2. CASE Put(u) \/ PutBad(u)
    <3>1. Moves(u, "closing", {}) \/ Set(u, AfterPut(u))
      BY <2>2, CallMoves DEF PutBad
    <3> QED  BY <3>1, AfterPutMoves DEF Moves, Executing
  <2>3. CASE ~Prepare(u) /\ ~Put(u) /\ ~PutBad(u)
    BY <1>1, <2>3, CallMoves, CallGuards DEF CallStep, Moves, Executing
  <2> QED  BY <2>1, <2>2, <2>3
<1>2. CASE CloseStep(u)
  <2>1. CASE Undep(u)
    BY <2>1, CloseMoves, DoneMoves DEF Moves, Executing
  <2>2. CASE AllUnused(u)
    BY <2>2, CloseGuards, DoneMoves DEF Moves, Executing
  <2>3. CASE NoteUnused(u)
    BY <2>3, PoolUpdates DEF Executing
  <2>4. CASE ~Undep(u) /\ ~AllUnused(u) /\ ~NoteUnused(u)
    BY <1>2, <2>4, CloseMoves DEF CloseStep, Moves, Executing
  <2> QED  BY <2>1, <2>2, <2>3, <2>4
<1>3. CASE TxStep(u)
  <2>1. CASE TxShare(u)
    <3>1. Moves(u, "txDep", {"ds"}) \/ Moves(u, "idle", {})
      BY <2>1, TxMoves, PrepareMoves DEF UserPcs, TxPcs
    <3> QED  BY <3>1 DEF Moves, Executing
  <2>2. CASE StmtContext(u)
    BY <2>2, TxMoves DEF Moves, Executing
  <2>3. CASE TxEnd(u)
    BY <2>3, TxMoves DEF Moves, Executing
  <2>4. CASE ~TxShare(u) /\ ~StmtContext(u) /\ ~TxEnd(u)
    BY <1>3, <2>4, TxMoves DEF TxStep, Moves, Executing
  <2> QED  BY <2>1, <2>2, <2>3, <2>4
<1> QED  BY <1>1, <1>2, <1>3 DEF UserStep

LEMMA ClosedStaysUser ==
    ASSUME Types, AllPlaced, Locks, ClosedStays, NEW u \in Users, UserStep(u)
    PROVE  ClosedStays'
<1>1. \A v \in Users \ {u} : Executing(v)' => Executing(v)
  BY OneMoves DEF Executing
<1>2. CASE stmt.closed
  BY <1>1, <1>2, ExecutingGrows, NobodyExecutes DEF ClosedStays, Executing
<1>3. CASE ~stmt.closed /\ ~CloseStmt(u)
  BY <1>3, ClosedKept DEF ClosedStays
<1>4. CASE ~stmt.closed /\ CloseStmt(u)
  <2>1. user[u].pc = "close" /\ user'[u].pc = "undep"
    BY <1>4, CloseGuards, CloseMoves DEF Moves
  <2>2. stmt.readers = {}
    BY <2>1, StatementsAssumption DEF Locks, Closing
  <2>3. \A v \in Users : ~Inside(v)
    BY <2>2 DEF Locks
  <2>4. \A v \in Users : ~Executing(v)'
    BY <1>1, <2>1, <2>3 DEF Executing, Inside
  <2> QED  BY <2>4 DEF ClosedStays, Executing
<1> QED  BY <1>2, <1>3, <1>4

LEMMA ConnLeaves ==
    ASSUME NEW c, ConnStep(c)
    PROVE  UNCHANGED <<stmt, dep, user>>
BY DEF ConnStep, Expire, MarkClosed, ListOpen, CloseOpen, FinalClosed, CountClosed

LEMMA ClosedStaysConn ==
    ASSUME ClosedStays, NEW c \in Conns, ConnStep(c)
    PROVE  ClosedStays'
BY ConnLeaves DEF ClosedStays

-----------------------------------------------------------------------------
(* What depends on the statement *)

RowsOf(u) == <<u, "rows">>
TxOf(u)   == <<user[u].dc, "tx">>
Undoes(u) == user[u].pc \in Finals /\ user[u].op \in {"txClose", "commit"}

DependsOf(u) ==
    /\ user[u].pc = "undep" /\ user[u].op = "close" => Own \in dep /\ stmt.closed
    /\ user[u].pc \in Finals => stmt.closed
    /\ RowsOf(u) \in dep <=>
          \/ user[u].pc = "rows"
          \/ user[u].pc \in {"put", "closing", "undep"} /\ user[u].op = "rows"
    /\ user[u].txs = "parent" => (TxOf(u) \notin dep <=> Undoes(u))

\* u answers for the dependency of the transaction on c.
Vouches(u, c) ==
    /\ user[u].dc = c
    /\ user[u].txs = "parent" \/ (user[u].pc = "put" /\ user[u].bad)

OwnDepends ==
    /\ ~stmt.closed => Own \in dep
    /\ Own \in dep /\ stmt.closed => \E u \in Users : user[u].pc = "undep" /\ user[u].op = "close"
TxDepends ==
    \A c \in Conns : <<c, "tx">> \in dep =>
        conn[c].pc \in Shut \/ \E u \in Users : Vouches(u, c)

LEMMA DependsParts == Depends <=> OwnDepends /\ (\A u \in Users : DependsOf(u)) /\ TxDepends
BY DEF Depends, OwnDepends, DependsOf, TxDepends, Vouches, RowsOf, TxOf, Undoes

LEMMA TokensDiffer ==
    ASSUME NEW u, NEW c
    PROVE  /\ Own # <<u, "rows">> /\ Own # <<c, "tx">> /\ <<u, "rows">> # <<c, "tx">>
           /\ \A v : v # u => <<v, "rows">> # <<u, "rows">>
           /\ \A d : d # c => <<d, "tx">> # <<c, "tx">>
BY DEF Own

\* What u can add to dep or take from it.
Touches(u) ==
    \A x : x \notin {Own, RowsOf(u), TxOf(u)} => (x \in dep' <=> x \in dep)

LEMMA ShutStays ==
    ASSUME Types, AllPlaced, Held, Lists, FinalProgress, NEW u \in Users, UserStep(u),
           NEW c \in Conns, conn[c].pc \in Shut
    PROVE  conn'[c].pc = conn[c].pc
<1>1. CASE Calm(u)
  BY <1>1 DEF Calm
<1>2. CASE GetConn(u) \/ Begin(u)
  <2>1. \E l, tx, new : Take(u, l, tx, new)
    BY <1>2 DEF GetConn, Begin
  <2>2. PICK d \in Conns : Alters(d, {"pc", "inUse"}) /\ conn[d].pc \in {"none", "open"}
    BY <2>1, TakeAlters
  <2> QED  BY <2>2 DEF Alters, Shut
<1>3. CASE Put(u)
  <2>1. user[u].pc = "put" /\ user[u].dc \in Conns
    BY <1>3, CallGuards, HasConn
  <2>2. conn[user[u].dc].pc = "open"
    BY <2>1, HeldParts, StatementsAssumption DEF HeldBy
  <2> QED  BY <1>3, <2>1, <2>2, PutAlters DEF Alters, Shut
<1>4. CASE PutBad(u)
  BY <1>4 DEF PutBad
<1> QED  BY <1>1, <1>2, <1>3, <1>4, CallsCalm, ClosingCalm, TxCalm DEF UserStep

\* A step is accounted for by what becomes of u alone.
LEMMA DependsStep ==
    ASSUME Types, AllPlaced, Held, Locks, Lists, FinalProgress, Depends, NEW u \in Users, UserStep(u),
           Touches(u), DependsOf(u)',
           Own \in dep' => Own \in dep,
           Own \in dep /\ Own \notin dep' => user[u].pc = "undep" /\ user[u].op = "close",
           stmt'.closed = stmt.closed
             \/ (stmt'.closed /\ user'[u].pc = "undep" /\ user'[u].op = "close"),
           user[u].pc = "undep" /\ user[u].op = "close" => Own \notin dep',
           \A c \in Conns :
              /\ user[u].dc = c /\ <<c, "tx">> \in dep'
              /\ <<c, "tx">> \notin dep \/ Vouches(u, c)
              => Vouches(u, c)' \/ conn'[c].pc \in Shut
    PROVE  Depends'
<1>0. OwnDepends /\ (\A v \in Users : DependsOf(v)) /\ TxDepends
  BY DependsParts
<1>1. \A v \in Users \ {u} : user'[v] = user[v]
  BY OneMoves
<1>2. \A v \in Users \ {u} : ~(Closing(u) /\ Closing(v))
  BY LocksParts DEF LocksOf
<1>3. ASSUME NEW v \in Users \ {u} PROVE DependsOf(v)'
  <2>1. RowsOf(v) \in dep' <=> RowsOf(v) \in dep
    BY TokensDiffer DEF Touches, RowsOf, TxOf
  <2>2. TxOf(v)' = TxOf(v) /\ Undoes(v)' = Undoes(v)
    BY <1>1 DEF TxOf, Undoes
  <2>3. user[v].txs = "parent" => (TxOf(v) \in dep' <=> TxOf(v) \in dep)
    <3>1. user[v].txs = "parent" => user[v].dc # None
      BY DEF AllPlaced, Placed
    <3>2. user[v].txs = "parent" => user[v].dc # user[u].dc
      BY <3>1, HeldParts DEF Alone
    <3> QED  BY <3>2, TokensDiffer DEF Touches, RowsOf, TxOf
  <2>4. user[v].pc = "undep" /\ user[v].op = "close" => Own \in dep' /\ stmt'.closed
    BY <1>0, <1>2 DEF DependsOf, Closing
  <2> QED  BY <1>0, <1>1, <2>1, <2>2, <2>3, <2>4 DEF DependsOf, RowsOf
<1>4. OwnDepends'
  <2>1. ~stmt'.closed => Own \in dep'
    BY <1>0 DEF OwnDepends, DependsOf
  <2>2. ASSUME Own \in dep', stmt'.closed
        PROVE  \E v \in Users : user'[v].pc = "undep" /\ user'[v].op = "close"
    <3>1. CASE stmt.closed
      <4>1. PICK v \in Users : user[v].pc = "undep" /\ user[v].op = "close"
        BY <1>0, <2>2, <3>1 DEF OwnDepends
      <4>2. v # u
        BY <2>2, <4>1
      <4> QED  BY <1>1, <4>1, <4>2
    <3>2. CASE ~stmt.closed
      BY <2>2, <3>2
    <3> QED  BY <3>1, <3>2
  <2> QED  BY <2>1, <2>2 DEF OwnDepends
<1>5. ASSUME NEW c \in Conns, <<c, "tx">> \in dep'
      PROVE  conn'[c].pc \in Shut \/ \E v \in Users : Vouches(v, c)'
  <2>1. CASE c = user[u].dc /\ TxOf(u) \notin dep
    BY <1>5, <2>1 DEF TxOf
  <2>2. CASE <<c, "tx">> \in dep
    <3>1. CASE conn[c].pc \in Shut
      BY <3>1, ShutStays
    <3>2. CASE conn[c].pc \notin Shut
      <4>1. PICK v \in Users : Vouches(v, c)
        BY <1>0, <2>2, <3>2 DEF TxDepends
      <4>2. CASE v = u
        BY <1>5, <4>1, <4>2 DEF Vouches, TxOf
      <4>3. CASE v # u
        BY <1>1, <4>1, <4>3 DEF Vouches
      <4> QED  BY <4>2, <4>3
    <3> QED  BY <3>1, <3>2
  <2>3. CASE c # user[u].dc /\ <<c, "tx">> \notin dep
    BY <1>5, <2>3, TokensDiffer DEF Touches, RowsOf, TxOf
  <2> QED  BY <2>1, <2>2, <2>3 DEF TxOf
<1>6. \A v \in Users : DependsOf(v)'
  BY <1>3
<1>7. TxDepends'
  BY <1>5 DEF TxDepends
<1>8. (OwnDepends /\ (\A v \in Users : DependsOf(v)) /\ TxDepends)'
  BY <1>4, <1>6, <1>7
<1> QED  BY <1>8 DEF Depends, OwnDepends, DependsOf, TxDepends, Vouches, RowsOf, TxOf, Undoes

LEMMA NoTxs ==
    ASSUME Types, AllPlaced, NEW u \in Users,
           user[u].pc \in {"connStmt", "conn", "find", "prepare", "run", "rows", "leave", "put", "closing"}
                          \cup TxPcs
    PROVE  user[u].txs = "none"
BY DEF Types, UserType, AllPlaced, Placed

LEMMA DependsQuiet ==
    ASSUME Types, AllPlaced, Held, Locks, Lists, FinalProgress, Depends, NEW u \in Users, UserStep(u),
           UNCHANGED dep, user[u].pc # "undep", DependsOf(u)',
           stmt'.closed = stmt.closed
             \/ (stmt'.closed /\ user'[u].pc = "undep" /\ user'[u].op = "close"),
           \A c \in Conns : Vouches(u, c) /\ <<c, "tx">> \in dep => Vouches(u, c)' \/ conn'[c].pc \in Shut
    PROVE  Depends'
BY DependsStep DEF Touches

\* Away from dependencies.
Neutral(l) == l \notin {"undep", "rows", "put", "closing"} \cup Finals
Strolls(u) ==
    /\ Neutral(user[u].pc) /\ Neutral(user'[u].pc)
    /\ user'[u].txs = "parent" <=> user[u].txs = "parent"
    /\ user[u].txs = "parent" => user'[u].dc = user[u].dc
    /\ UNCHANGED dep /\ stmt'.closed = stmt.closed

LEMMA DependsStroll ==
    ASSUME Types, AllPlaced, Held, Locks, Lists, FinalProgress, Depends, NEW u \in Users, UserStep(u),
           Strolls(u)
    PROVE  Depends'
<1>1. DependsOf(u)
  BY DependsParts
<1>2. DependsOf(u)'
  BY <1>1 DEF Strolls, Neutral, DependsOf, RowsOf, TxOf, Undoes
<1>3. \A c \in Conns : Vouches(u, c) => Vouches(u, c)'
  BY DEF Strolls, Neutral, Vouches
<1>4. user[u].pc # "undep" /\ UNCHANGED dep /\ stmt'.closed = stmt.closed
  BY DEF Strolls, Neutral
<1> QED  BY <1>2, <1>3, <1>4, DependsQuiet

LEMMA DepKept ==
    ASSUME NEW u, UserStep(u), ~Run(u), ~Undep(u), ~TxDep(u)
    PROVE  UNCHANGED dep
BY DEF UserStep, CallStep, CloseStep, TxStep, StartCall, ConnStmt, Sweep, GetConn, Take, NoConn,
   Find, Prepare, PrepareOnConn, CloseRows, Put, PutBad, Leave, StartClose, CloseStmt,
   FinalClose, NoteUnused, CloseDs, RemoveOpenStmt, AllUnused, Begin, StmtContext, TxFind, TxShare,
   TxPrepare, TxClose, TxEnd

LEMMA CallsStroll ==
    ASSUME Types, AllPlaced, NEW u \in Users, CallStep(u),
           ~Prepare(u), ~Run(u), ~CloseRows(u), ~Put(u), ~PutBad(u)
    PROVE  Strolls(u)
<1>1. user[u].pc \notin {"undep", "close"} /\ UNCHANGED dep /\ stmt'.closed = stmt.closed
  BY CallGuards, CloseGuards, TxGuards, DepKept, ClosedKept DEF UserStep, CallStep
<1>2. user[u].txs # "none" => user[u].tx
  BY DEF AllPlaced, Placed
<1>3. Placed(u)
  BY DEF AllPlaced
<1> QED  BY <1>1, <1>2, <1>3, CallMoves, CallGuards
         DEF CallStep, Moves, Strolls, Neutral, Finals, Placed

LEMMA TxStrolls ==
    ASSUME Types, AllPlaced, NEW u \in Users, TxStep(u),
           ~TxDep(u), ~TxEnd(u), ~(TxClose(u) /\ user[u].txs = "parent")
    PROVE  Strolls(u)
<1>1. UNCHANGED dep /\ stmt'.closed = stmt.closed
  BY CallGuards, CloseGuards, TxGuards, DepKept, ClosedKept DEF UserStep, TxStep
<1>2. user[u].txs # "none" => user[u].tx
  BY DEF AllPlaced, Placed
<1>3. user[u].pc \in TxPcs => user[u].txs = "none"
  BY DEF AllPlaced, Placed
<1> USE DEF Strolls, Neutral, Finals
<1>4. CASE Begin(u)
  BY <1>1, <1>2, <1>4, TxMoves, TxGuards DEF Moves
<1>5. CASE StmtContext(u)
  <2>1. Moves(u, "txPrepare", {}) \/ Moves(u, "sweep", {"seen"}) \/ Moves(u, "txFind", {"seen"})
    BY <1>5, TxMoves
  <2> QED  BY <1>1, <1>5, <2>1, TxGuards DEF Moves
<1>6. CASE TxFind(u)
  BY <1>1, <1>3, <1>6, TxMoves, TxGuards DEF Moves, TxPcs
<1>7. CASE TxShare(u)
  <2>1. Moves(u, "txDep", {"ds"}) \/ Moves(u, "idle", {})
    BY <1>7, TxMoves, PrepareMoves DEF UserPcs, TxPcs
  <2> QED  BY <1>1, <1>3, <1>7, <2>1, TxGuards DEF Moves, TxPcs
<1>8. CASE TxPrepare(u)
  BY <1>1, <1>3, <1>8, TxMoves, TxGuards DEF Moves, TxPcs
<1>9. CASE TxClose(u)
  BY <1>1, <1>9, TxMoves, TxGuards DEF Moves
<1> QED  BY <1>4, <1>5, <1>6, <1>7, <1>8, <1>9 DEF TxStep

LEMMA DependsCalls ==
    ASSUME Types, AllPlaced, Held, Locks, Lists, FinalProgress, Depends, NEW u \in Users, CallStep(u)
    PROVE  Depends'
<1>0. UserStep(u) /\ Placed(u) /\ DependsOf(u)
  BY DependsParts DEF UserStep, AllPlaced
<1>1. stmt'.closed = stmt.closed
  BY <1>0, CallGuards, CloseGuards, ClosedKept DEF CallStep
<1> USE DEF DependsOf, RowsOf, TxOf, Undoes, Vouches, Moves, Finals
<1>2. CASE Moves(u, "put", {"bad"}) /\ user[u].pc \in {"prepare", "run", "rows"} /\ UNCHANGED dep
  <2>1. user[u].op = "rows" <=> user[u].pc = "rows"
    BY <1>0, <1>2 DEF Placed
  <2>2. user[u].txs = "none"
    BY <1>0, <1>2, NoTxs
  <2>3. DependsOf(u)'
    BY <1>0, <1>2, <2>1, <2>2
  <2>4. \A c : ~Vouches(u, c)
    BY <1>2, <2>2
  <2> QED  BY <1>0, <1>1, <1>2, <2>3, <2>4, DependsQuiet
<1>3. CASE Prepare(u) /\ PrepareOnConn(u, "run")
  <2>1. Moves(u, "run", {"ds"}) /\ user[u].pc = "prepare"
    BY <1>3, PrepareMoves, CallGuards DEF UserPcs, CallPcs
  <2>2. Strolls(u)
    BY <1>0, <1>1, <1>3, <2>1, DepKept, CallGuards, CloseGuards, TxGuards DEF Strolls, Neutral
  <2> QED  BY <1>0, <2>2, DependsStroll
<1>4. CASE Run(u) /\ Moves(u, "rows", {"op"}) /\ dep' = dep \cup {<<u, "rows">>} /\ user'[u].op = "rows"
  <2>1. user[u].txs = "none" /\ user[u].pc = "run"
    BY <1>0, <1>4, NoTxs, CallGuards
  <2>2. DependsOf(u)'
    BY <1>4, <2>1
  <2>3. Touches(u)
    BY <1>4 DEF Touches
  <2>4. \A c : /\ <<c, "tx">> \in dep' => <<c, "tx">> \in dep
               /\ ~Vouches(u, c)
    BY <1>4, <2>1, TokensDiffer
  <2>5. Own \in dep' <=> Own \in dep
    BY <1>4, TokensDiffer
  <2> QED  BY <1>0, <1>1, <2>1, <2>2, <2>3, <2>4, <2>5, DependsStep
<1>5. CASE Put(u)
  <2>1. user[u].pc = "put" /\ user[u].txs = "none" /\ user[u].dc \in Conns
    BY <1>0, <1>5, NoTxs, CallGuards, HasConn
  <2>2. UNCHANGED dep
    BY <1>5 DEF Put
  <2>3. DependsOf(u)'
    <3>1. CASE Moves(u, "closing", {})
      BY <1>0, <2>1, <2>2, <3>1
    <3>2. CASE Set(u, AfterPut(u))
      BY <1>0, <2>1, <2>2, <3>2, AfterPutMoves
    <3> QED  BY <1>5, <3>1, <3>2, CallMoves
  <2>4. \A c : Vouches(u, c) => conn'[c].pc \in Shut
    BY <1>5, <2>1, PutAlters DEF Shut
  <2> QED  BY <1>0, <1>1, <2>1, <2>2, <2>3, <2>4, DependsQuiet
<1>6. CASE PutBad(u)
  <2>1. user[u].pc = "closing" /\ user[u].txs = "none"
    BY <1>0, <1>6, NoTxs, CallGuards
  <2>2. UNCHANGED dep /\ Set(u, AfterPut(u))
    BY <1>6 DEF PutBad
  <2>3. DependsOf(u)'
    BY <1>0, <2>1, <2>2, AfterPutMoves
  <2>4. \A c : ~Vouches(u, c)
    BY <2>1
  <2> QED  BY <1>0, <1>1, <2>1, <2>2, <2>3, <2>4, DependsQuiet
<1>7. CASE Prepare(u)
  BY <1>2, <1>3, <1>7, CallMoves, CallGuards
<1>8. CASE Run(u)
  BY <1>2, <1>4, <1>8, CallMoves, CallGuards
<1>9. CASE CloseRows(u)
  <2>1. UNCHANGED dep
    BY <1>9 DEF CloseRows
  <2> QED  BY <1>2, <1>9, <2>1, CallMoves, CallGuards
<1>10. CASE ~Prepare(u) /\ ~Run(u) /\ ~CloseRows(u) /\ ~Put(u) /\ ~PutBad(u)
  BY <1>0, <1>10, CallsStroll, DependsStroll
<1> QED  BY <1>5, <1>6, <1>7, <1>8, <1>9, <1>10

\* Nobody misses its dependency.
LEMMA FindsToken ==
    ASSUME Types, AllPlaced, Depends, NEW u \in Users, Undep(u)
    PROVE  Token(u) \in dep
<1>0. Placed(u) /\ DependsOf(u) /\ user[u].pc = "undep"
  BY DependsParts, CloseGuards DEF AllPlaced
<1>1. /\ user[u].op = "close" => Token(u) = Own
      /\ user[u].op = "rows" => Token(u) = RowsOf(u)
      /\ user[u].op \in {"txClose", "commit"} => Token(u) = TxOf(u)
  BY DEF Token, RowsOf, TxOf
<1>2. \/ user[u].op = "close"
      \/ user[u].op = "rows"
      \/ user[u].op \in {"txClose", "commit"} /\ user[u].txs = "parent"
  BY <1>0 DEF Placed
<1> QED  BY <1>0, <1>1, <1>2 DEF DependsOf, Undoes, Finals

LEMMA DependsUndep ==
    ASSUME Types, AllPlaced, Held, Locks, Lists, FinalProgress, Depends, NEW u \in Users, Undep(u)
    PROVE  Depends'
<1>0. UserStep(u) /\ Placed(u) /\ DependsOf(u) /\ OwnDepends /\ user[u].pc = "undep"
  BY DependsParts, CloseGuards DEF UserStep, CloseStep, AllPlaced
<1>1. stmt'.closed = stmt.closed
  BY <1>0, CloseGuards, ClosedKept
<1>2. /\ user[u].op = "close" => Token(u) = Own
      /\ user[u].op = "rows" => Token(u) = RowsOf(u)
      /\ user[u].op \in {"txClose", "commit"} => Token(u) = TxOf(u)
  BY DEF Token, RowsOf, TxOf
<1>3. \/ user[u].op = "close"
      \/ user[u].op = "rows" /\ ~user[u].tx /\ user[u].txs = "none"
      \/ user[u].op \in {"txClose", "commit"} /\ user[u].txs = "parent" /\ user[u].dc \in Conns
  BY <1>0, HasConn DEF Placed, Types, UserType
<1>4. Token(u) \in dep
  BY FindsToken
<1>5. dep' = dep \ {Token(u)}
  BY <1>4, CloseMoves
<1>6. Own \in dep' <=> Own \in dep /\ user[u].op # "close"
  BY <1>2, <1>3, <1>5, TokensDiffer DEF RowsOf, TxOf
<1>7. RowsOf(u) \notin dep'
  BY <1>0, <1>2, <1>3, <1>5 DEF DependsOf
<1>8. TxOf(u) \notin dep' <=> TxOf(u) \notin dep \/ user[u].op \in {"txClose", "commit"}
  BY <1>2, <1>3, <1>5, TokensDiffer DEF RowsOf, TxOf
<1>9. Touches(u)
  BY <1>2, <1>3, <1>5 DEF Touches
<1>10. \/ Moves(u, "final", {}) /\ dep' = {}
       \/ Set(u, Done(u))
  BY <1>4, CloseMoves
<1>11. user'[u].pc = "final" => stmt.closed
  BY <1>0, <1>6, <1>10, DoneMoves DEF OwnDepends, DependsOf, Moves
<1>12. DependsOf(u)'
  <2>1. CASE Moves(u, "final", {}) /\ dep' = {}
    <3>1. user'[u].pc = "final" /\ user'[u].op = user[u].op /\ user'[u].txs = user[u].txs
          /\ user'[u].dc = user[u].dc
      BY <2>1 DEF Moves
    <3>2. user[u].txs = "parent" => user[u].op \in {"txClose", "commit"}
      BY <1>0, <1>3, <1>8, <2>1 DEF DependsOf, Undoes, Finals
    <3> QED  BY <1>1, <1>11, <2>1, <3>1, <3>2 DEF DependsOf, RowsOf, TxOf, Undoes, Finals
  <2>2. CASE Set(u, Done(u))
    <3>1. user'[u].pc \in {"idle", "put"} /\ user'[u].op = user[u].op /\ user'[u].dc = user[u].dc
      BY <2>2, DoneMoves DEF Moves
    <3>2. user'[u].pc = "put" => user'[u].op = "commit"
      BY <2>2, DoneMoves DEF Moves
    <3>3. user'[u].txs = "parent" => user[u].op = "close" /\ user[u].txs = "parent"
      BY <2>2, DoneMoves
    <3>4. user'[u].txs = "parent" => TxOf(u)' \in dep'
      BY <1>0, <1>8, <3>1, <3>3 DEF DependsOf, Undoes, TxOf, Finals
    <3> QED  BY <1>7, <3>1, <3>2, <3>4 DEF DependsOf, RowsOf, Undoes, Finals
  <2> QED  BY <1>10, <2>1, <2>2
<1>13. \A c \in Conns : user[u].dc = c /\ <<c, "tx">> \in dep' => Vouches(u, c)' \/ ~Vouches(u, c)
  <2> SUFFICES ASSUME NEW c \in Conns, user[u].dc = c, <<c, "tx">> \in dep', Vouches(u, c)
               PROVE  Vouches(u, c)'
    OBVIOUS
  <2>1. user[u].txs = "parent"
    BY <1>0 DEF Vouches
  <2>2. user[u].op = "close"
    BY <1>3, <1>8, <2>1 DEF TxOf
  <2>3. Set(u, Done(u))
    BY <1>10
  <2>4. user'[u].txs = "parent" /\ user'[u].dc = c
    BY <2>1, <2>2, <2>3, DoneMoves DEF Moves
  <2> QED  BY <2>4 DEF Vouches
<1>14. \A c \in Conns : <<c, "tx">> \in dep' => <<c, "tx">> \in dep
  BY <1>5
<1> QED  BY <1>0, <1>1, <1>6, <1>9, <1>12, <1>13, <1>14, DependsStep

LEMMA DependsClosing ==
    ASSUME Types, AllPlaced, Held, Locks, Lists, FinalProgress, Depends, NEW u \in Users, CloseStep(u)
    PROVE  Depends'
<1>0. UserStep(u) /\ Placed(u) /\ DependsOf(u) /\ OwnDepends
  BY DependsParts DEF UserStep, AllPlaced
<1> USE DEF DependsOf, RowsOf, TxOf, Undoes, Vouches, Moves, Finals
<1>1. CASE StartClose(u)
  <2>1. Strolls(u)
    BY <1>0, <1>1, CloseMoves, CloseGuards, CallGuards, TxGuards, DepKept, ClosedKept
       DEF Strolls, Neutral
  <2> QED  BY <1>0, <2>1, DependsStroll
<1>2. CASE CloseStmt(u)
  <2>0. user[u].pc = "close" /\ user[u].op = "close"
    BY <1>0, <1>2, CloseGuards DEF Placed
  <2>1. UNCHANGED dep
    BY <1>2 DEF CloseStmt
  <2>2. CASE stmt.closed
    <3>1. Moves(u, "idle", {}) /\ stmt'.closed = stmt.closed
      BY <1>2, <2>2, CloseMoves, StmtUpdates DEF Updates
    <3>2. Strolls(u)
      BY <2>0, <2>1, <3>1 DEF Strolls, Neutral
    <3> QED  BY <1>0, <3>2, DependsStroll
  <2>3. CASE ~stmt.closed
    <3>1. Moves(u, "undep", {}) /\ stmt'.closed
      BY <1>2, <2>3, CloseMoves, StmtUpdates
    <3>2. Own \in dep'
      BY <1>0, <2>1, <2>3 DEF OwnDepends
    <3>3. DependsOf(u)'
      BY <1>0, <2>0, <2>1, <3>1, <3>2
    <3>4. \A c : Vouches(u, c) => Vouches(u, c)'
      BY <2>0, <3>1
    <3>5. user'[u].pc = "undep" /\ user'[u].op = "close"
      BY <2>0, <3>1
    <3> QED  BY <1>0, <2>0, <2>1, <3>1, <3>3, <3>4, <3>5, DependsQuiet
  <2> QED  BY <2>2, <2>3
<1>3. CASE Undep(u)
  BY <1>3, DependsUndep
<1>4. CASE user[u].pc \in Finals /\ ~AllUnused(u)
  <2>1. UNCHANGED dep /\ stmt'.closed = stmt.closed
    BY <1>0, <1>4, CloseGuards, CallGuards, TxGuards, DepKept, ClosedKept
  <2>2. /\ user'[u].pc \in Finals /\ user'[u].op = user[u].op /\ user'[u].dc = user[u].dc
        /\ user'[u].txs = user[u].txs
    BY <1>4, CloseGuards, CloseMoves DEF CloseStep
  <2>3. DependsOf(u)'
    BY <1>0, <1>4, <2>1, <2>2
  <2>4. \A c : Vouches(u, c) => Vouches(u, c)'
    BY <1>4, <2>2
  <2> QED  BY <1>0, <1>4, <2>1, <2>3, <2>4, DependsQuiet
<1>5. CASE AllUnused(u)
  <2>0. user[u].pc = "unused" /\ Set(u, Done(u))
    BY <1>5, CloseGuards
  <2>1. UNCHANGED dep /\ stmt'.closed = stmt.closed
    BY <1>0, <1>5, <2>0, CloseGuards, CallGuards, TxGuards, DepKept, ClosedKept
  <2>2. \/ user[u].op = "close"
        \/ user[u].op = "rows" /\ user[u].txs = "none"
        \/ user[u].op \in {"txClose", "commit"} /\ user[u].txs = "parent"
    BY <1>0, <2>0 DEF Placed, Types, UserType
  <2>3. DependsOf(u)'
    BY <1>0, <2>0, <2>1, <2>2, DoneMoves
  <2>4. \A c : Vouches(u, c) /\ <<c, "tx">> \in dep => Vouches(u, c)'
    BY <1>0, <2>0, <2>2, DoneMoves
  <2> QED  BY <1>0, <2>0, <2>1, <2>3, <2>4, DependsQuiet
<1> QED  BY <1>1, <1>2, <1>3, <1>4, <1>5, CloseGuards DEF CloseStep

LEMMA DependsTx ==
    ASSUME Types, AllPlaced, Held, Locks, Lists, FinalProgress, Depends, NEW u \in Users, TxStep(u)
    PROVE  Depends'
<1>0. UserStep(u) /\ Placed(u) /\ DependsOf(u)
  BY DependsParts DEF UserStep, AllPlaced
<1>1. stmt'.closed = stmt.closed
  BY <1>0, CloseGuards, TxGuards, ClosedKept DEF TxStep
<1> USE DEF DependsOf, RowsOf, TxOf, Undoes, Vouches, Moves, Finals
<1>2. CASE TxDep(u)
  <2>1. /\ user[u].pc = "txDep" /\ user[u].dc \in Conns /\ user[u].txs = "none"
        /\ Moves(u, "idle", {"txs"}) /\ user'[u].txs = "parent"
    BY <1>2, TxGuards, TxMoves, HasConn, NoTxs DEF TxPcs
  <2>2. dep' = dep \cup {TxOf(u)}
    BY <1>2 DEF TxDep
  <2>3. RowsOf(u) \in dep' <=> RowsOf(u) \in dep
    BY <2>2, TokensDiffer
  <2>4. DependsOf(u)'
    BY <1>0, <2>1, <2>2, <2>3
  <2>5. Touches(u)
    BY <2>2 DEF Touches
  <2>6. Own \in dep' <=> Own \in dep
    BY <2>2, TokensDiffer
  <2>7. \A c : user[u].dc = c => Vouches(u, c)'
    BY <2>1
  <2> QED  BY <1>0, <1>1, <2>1, <2>4, <2>5, <2>6, <2>7, DependsStep
<1>3. CASE TxClose(u) /\ user[u].txs = "parent"
  <2>0. user[u].pc = "idle" /\ UNCHANGED dep
    BY <1>3, TxGuards DEF TxClose
  <2>1. Moves(u, "undep", {"op"}) /\ user'[u].op = "txClose"
    BY <1>3, TxMoves
  <2>2. DependsOf(u)'
    BY <1>0, <1>3, <2>0, <2>1
  <2>3. \A c : Vouches(u, c) => Vouches(u, c)'
    BY <1>3, <2>0, <2>1
  <2> QED  BY <1>0, <1>1, <2>0, <2>2, <2>3, DependsQuiet
<1>4. CASE TxEnd(u)
  <2>0. user[u].pc = "idle" /\ UNCHANGED dep
    BY <1>4, TxGuards DEF TxEnd
  <2>1. /\ user'[u].op = "commit" /\ user'[u].dc = user[u].dc
        /\ \/ user'[u].pc = "undep" /\ user[u].txs = "parent" /\ user'[u].txs = "parent"
           \/ /\ user'[u].pc = "put" /\ user'[u].txs = "none"
              /\ user'[u].bad \/ user[u].txs # "parent"
    BY <1>4, TxMoves
  <2>2. DependsOf(u)'
    BY <1>0, <2>0, <2>1
  <2>3. \A c : Vouches(u, c) => Vouches(u, c)'
    BY <2>0, <2>1
  <2> QED  BY <1>0, <1>1, <2>0, <2>2, <2>3, DependsQuiet
<1>5. CASE ~TxDep(u) /\ ~TxEnd(u) /\ ~(TxClose(u) /\ user[u].txs = "parent")
  BY <1>0, <1>5, TxStrolls, DependsStroll
<1> QED  BY <1>2, <1>3, <1>4, <1>5

LEMMA DependsUser ==
    ASSUME Types, AllPlaced, Held, Locks, Lists, FinalProgress, Depends, NEW u \in Users, UserStep(u)
    PROVE  Depends'
BY DependsCalls, DependsClosing, DependsTx DEF UserStep

LEMMA ConnShut ==
    ASSUME Types, NEW c \in Conns, ConnStep(c)
    PROVE  /\ \A x \in Conns \ {c} : conn'[x] = conn[x]
           /\ conn'[c].inUse = conn[c].inUse /\ conn'[c].onPut = conn[c].onPut
           /\ (conn[c].pc = "open" /\ ~conn[c].inUse) \/ conn[c].pc \in Shut
           /\ conn'[c].pc \in Shut
BY CloseAlters DEF ConnStep, Alters, Shut

LEMMA DependsConn ==
    ASSUME Types, Depends, NEW c \in Conns, ConnStep(c)
    PROVE  Depends'
<1>1. UNCHANGED <<stmt, dep, user>>
  BY ConnLeaves
<1>2. \A x \in Conns : conn[x].pc \in Shut => conn'[x].pc \in Shut
  BY ConnShut
<1>3. OwnDepends /\ (\A u \in Users : DependsOf(u)) /\ TxDepends
  BY DependsParts
<1>4. (OwnDepends /\ (\A u \in Users : DependsOf(u)) /\ TxDepends)'
  BY <1>1, <1>2, <1>3 DEF OwnDepends, DependsOf, TxDepends, Vouches, RowsOf, TxOf, Undoes
<1> QED  BY <1>4 DEF Depends, OwnDepends, DependsOf, TxDepends, Vouches, RowsOf, TxOf, Undoes

-----------------------------------------------------------------------------
(* What a goroutine does to the driver statements, and to the lists they are *)
(* in *)

Keeps == UNCHANGED ds /\ UNCHANGED conn /\ stmt'.css = stmt.css
Takes(c) ==
    /\ pool.mu = None
    /\ Alters(c, {"pc", "inUse"}) /\ UNCHANGED ds /\ stmt'.css = stmt.css
    /\ conn[c].pc \in {"none", "open"} /\ ~conn[c].inUse
    /\ conn'[c].pc = "open" /\ conn'[c].inUse
Prepares(u, c) ==
    /\ user[u].pc \in {"prepare", "txShare"} /\ user[u].dc = c
    /\ ds' = Prepared(c)
    /\ Alters(c, {"openStmt"}) /\ conn'[c].openStmt = conn[c].openStmt \cup {Len(ds) + 1}
    /\ stmt'.css = stmt.css \cup {Len(ds) + 1}
PreparesOwn(u, c) ==
    /\ user[u].pc = "txPrepare" /\ user[u].dc = c /\ user'[u].dc = c
    /\ ds' = Prepared(c) /\ UNCHANGED conn /\ stmt'.css = stmt.css
    /\ user'[u].txs = "own" /\ user'[u].txds = Len(ds) + 1
ClosesOwn(u) ==
    /\ user[u].pc = "idle" /\ user[u].txs = "own"
    /\ ds' = CloseAll({user[u].txds}) /\ UNCHANGED conn /\ stmt'.css = stmt.css
Puts(u, c) ==
    /\ user[u].pc = "put" /\ user[u].dc = c
    /\ ds' = CloseAll(conn[c].onPut) /\ stmt'.css = stmt.css
    /\ Alters(c, {"pc", "inUse", "onPut"}) /\ ~conn'[c].inUse /\ conn'[c].onPut = {}
    /\ conn'[c].pc = IF user[u].bad THEN "closed" ELSE conn[c].pc
PutsOff(u, c, d) ==
    /\ user[u].pc = "unused" /\ d \in user[u].todo /\ ds[d].dc = c
    /\ user'[u].pc = "removeOpen" /\ user'[u].ds = d /\ user'[u].todo = user[u].todo
    /\ conn[c].inUse
    /\ Alters(c, {"onPut"}) /\ conn'[c].onPut = conn[c].onPut \cup {d}
    /\ UNCHANGED ds /\ stmt'.css = stmt.css
ClosesListed(u) ==
    /\ user[u].pc = "closeDs" /\ user'[u].pc = "removeOpen"
    /\ user'[u].ds = user[u].ds /\ user'[u].todo = user[u].todo
    /\ ds' = CloseAll({user[u].ds}) /\ UNCHANGED conn /\ stmt'.css = stmt.css
Removes(u, c) ==
    /\ user[u].pc = "removeOpen" /\ ds[user[u].ds].dc = c
    /\ user'[u].pc = "unused" /\ user'[u].todo = user[u].todo \ {user[u].ds}
    /\ Alters(c, {"openStmt"}) /\ conn'[c].openStmt = conn[c].openStmt \ {user[u].ds}
    /\ UNCHANGED ds /\ stmt'.css = stmt.css
Sweeps(u) ==
    /\ user[u].pc = "sweep" /\ UNCHANGED ds /\ UNCHANGED conn /\ stmt'.css = Remaining
Empties(u) ==
    /\ user[u].pc = "unused" /\ user[u].todo = {}
    /\ UNCHANGED ds /\ UNCHANGED conn /\ stmt'.css = {}

Data(u) ==
    \/ Keeps \/ Sweeps(u) \/ Empties(u) \/ ClosesOwn(u) \/ ClosesListed(u)
    \/ \E c \in Conns : \/ Takes(c) \/ Prepares(u, c) \/ PreparesOwn(u, c) \/ Puts(u, c) \/ Removes(u, c)
                        \/ \E d \in Ids : PutsOff(u, c, d)

\* Steps that touch neither the driver statements nor the connections.
LEMMA DataKept ==
    ASSUME NEW u,
           \/ StartCall(u) \/ ConnStmt(u) \/ Sweep(u) \/ NoConn(u) \/ Find(u) \/ Run(u) \/ CloseRows(u)
           \/ PutBad(u) \/ Leave(u) \/ StartClose(u) \/ CloseStmt(u) \/ Undep(u) \/ FinalClose(u) \/ AllUnused(u)
           \/ StmtContext(u) \/ TxFind(u) \/ TxDep(u)
    PROVE  UNCHANGED ds /\ UNCHANGED conn
<1>1. StartCall(u) \/ ConnStmt(u) \/ Sweep(u) \/ NoConn(u) \/ Find(u) \/ CloseRows(u) => UNCHANGED <<ds, conn>>
  BY Zenon DEF StartCall, ConnStmt, Sweep, NoConn, Find, CloseRows
<1>2. Run(u) => UNCHANGED <<ds, conn, pool>>
  BY Zenon DEF Run
<1>3. PutBad(u) \/ Leave(u) \/ StartClose(u) \/ CloseStmt(u) \/ Undep(u) \/ FinalClose(u) \/ AllUnused(u)
          => UNCHANGED <<ds, conn, pool>>
  BY Zenon DEF PutBad, Leave, StartClose, CloseStmt, Undep, FinalClose, AllUnused
<1>4. StmtContext(u) \/ TxFind(u) \/ TxDep(u) => UNCHANGED <<ds, conn, pool>>
  BY Zenon DEF StmtContext, TxFind, TxDep
<1> QED  BY <1>1, <1>2, <1>3, <1>4

LEMMA DsKept ==
    ASSUME NEW u, GetConn(u) \/ NoteUnused(u) \/ RemoveOpenStmt(u) \/ Begin(u)
    PROVE  UNCHANGED ds
<1>1. UNCHANGED <<stmt, dep, ds>>
  BY Zenon DEF GetConn, NoteUnused, RemoveOpenStmt, Begin, Take
<1> QED  BY <1>1

LEMMA ConnKept ==
    ASSUME NEW u, CloseDs(u) \/ TxPrepare(u) \/ TxClose(u) \/ TxEnd(u)
    PROVE  UNCHANGED conn
<1>1. UNCHANGED <<stmt, dep, conn>>
  BY Zenon DEF CloseDs, TxPrepare, TxClose, TxEnd
<1> QED  BY <1>1

LEMMA CssKept ==
    ASSUME Types, NEW u \in Users,
           \/ StartCall(u) \/ ConnStmt(u) \/ Run(u) \/ Leave(u) \/ StartClose(u) \/ CloseStmt(u)
           \/ Undep(u) \/ FinalClose(u) \/ StmtContext(u) \/ TxFind(u)
    PROVE  stmt'.css = stmt.css
BY StmtUpdates DEF Updates

\* A statement prepared on the connection of a goroutine.
LEMMA DataPrepares ==
    ASSUME Types, NEW u \in Users, NEW c \in Conns, user[u].dc = c,
           user[u].pc \in {"prepare", "txShare"}, NEW l, PrepareOnConn(u, l)
    PROVE  Prepares(u, c)
<1>1. ds' = Prepared(c)
  BY DEF PrepareOnConn
<1>2. stmt'.css = stmt.css \cup {Len(ds) + 1}
  BY StmtUpdates
<1> QED  BY <1>1, <1>2, PrepareAlters DEF Prepares

LEMMA DataInCalls ==
    ASSUME Types, AllPlaced, NEW u \in Users, CallStep(u)
    PROVE  Data(u)
<1>1. CASE \/ StartCall(u) \/ ConnStmt(u) \/ Run(u) \/ Leave(u)
           \/ NoConn(u) \/ Find(u) \/ CloseRows(u) \/ PutBad(u)
  <2>1. Keeps
    BY <1>1, DataKept, CssKept, StmtKept DEF Keeps
  <2> QED  BY <2>1 DEF Data
<1>3. CASE Sweep(u)
  <2>1. UNCHANGED ds /\ UNCHANGED conn
    BY <1>3, DataKept
  <2> QED  BY <1>3, <2>1, StmtUpdates, CallGuards DEF Data, Sweeps
<1>4. CASE GetConn(u)
  <2>1. (user[u].attempt = Attempts) \in BOOLEAN
    OBVIOUS
  <2>2. PICK new \in BOOLEAN : Take(u, "find", FALSE, new)
    BY <1>4, <2>1 DEF GetConn
  <2>3. UNCHANGED ds /\ stmt'.css = stmt.css /\ pool.mu = None
    BY <1>4, StmtKept DEF GetConn, Take
  <2>4. \E c \in Conns : Takes(c)
    BY <2>2, <2>3, TakeAlters DEF Takes
  <2> QED  BY <2>4 DEF Data
<1>5. CASE Prepare(u) /\ PrepareOnConn(u, "run")
  <2>1. PICK c \in Conns : user[u].dc = c
    BY <1>5, CallGuards, HasConn
  <2>2. Prepares(u, c)
    BY <1>5, <2>1, CallGuards, DataPrepares
  <2> QED  BY <2>2 DEF Data
<1>6. CASE Prepare(u) /\ ~PrepareOnConn(u, "run")
  BY <1>6, CallMoves DEF Data, Keeps
<1>7. CASE Put(u)
  <2>1. PICK c \in Conns : user[u].dc = c
    BY <1>7, CallGuards, HasConn
  <2>2. ds' = CloseAll(conn[c].onPut) /\ stmt'.css = stmt.css
    BY <1>7, <2>1, StmtKept DEF Put
  <2>3. Puts(u, c)
    BY <1>7, <2>1, <2>2, CallGuards, PutAlters DEF Puts
  <2> QED  BY <2>3 DEF Data
<1> QED  BY <1>1, <1>3, <1>4, <1>5, <1>6, <1>7 DEF CallStep

LEMMA DataInClosing ==
    ASSUME Types, Lists, FinalProgress, NEW u \in Users, CloseStep(u)
    PROVE  Data(u)
<1>1. CASE StartClose(u) \/ CloseStmt(u) \/ Undep(u) \/ FinalClose(u)
  <2>1. Keeps
    BY <1>1, DataKept, CssKept, StmtKept DEF Keeps
  <2> QED  BY <2>1 DEF Data
<1>2. CASE NoteUnused(u)
  <2>0. u \in Finalizers /\ user[u].pc = "unused"
    BY <1>2, CloseGuards DEF Finalizers
  <2>1. PICK d \in Ids : d = user'[u].ds /\ d \in user[u].todo /\ ds[d].dc \in Conns
    BY <1>2, <2>0, WorksOn, CloseMoves
  <2>2. UNCHANGED ds /\ stmt'.css = stmt.css
    BY <1>2, StmtKept DEF NoteUnused
  <2>3. \/ UNCHANGED conn
        \/ conn' = PutOff(ds[d].dc, d) /\ Moves(u, "removeOpen", {"ds"})
    BY <1>2, <2>1, CloseMoves
  <2>4. PICK c \in Conns : c = ds[d].dc
    BY <2>1
  <2>5. CASE UNCHANGED conn
    BY <2>2, <2>5 DEF Data, Keeps
  <2>6. CASE conn[c].inUse /\ conn' = PutOff(c, d) /\ Moves(u, "removeOpen", {"ds"})
    <3>1. PutsOff(u, c, d)
      BY <2>0, <2>1, <2>2, <2>4, <2>6, PutOffAlters DEF PutsOff, Moves
    <3> QED  BY <3>1 DEF Data
  <2>7. CASE ~conn[c].inUse /\ conn' = PutOff(c, d)
    BY <2>2, <2>7 DEF Data, Keeps, PutOff
  <2> QED  BY <2>3, <2>4, <2>5, <2>6, <2>7
<1>3. CASE CloseDs(u)
  BY <1>3, CloseGuards, CloseMoves, StmtKept DEF CloseDs, Data, ClosesListed, Moves
<1>4. CASE RemoveOpenStmt(u)
  <2>0. u \in Finalizers /\ user[u].pc = "removeOpen"
    BY <1>4, CloseGuards DEF Finalizers
  <2>1. PICK c \in Conns : c = ds[user[u].ds].dc
    BY <2>0, WorksOn
  <2>2. Removes(u, c)
    <3>1. UNCHANGED ds /\ stmt'.css = stmt.css
      BY <1>4, DsKept, StmtKept
    <3> QED  BY <1>4, <2>0, <2>1, <3>1, CloseMoves, RemoveAlters DEF Removes, Moves
  <2> QED  BY <2>2 DEF Data
<1>5. CASE AllUnused(u)
  <2>1. UNCHANGED ds /\ UNCHANGED conn
    BY <1>5, DataKept
  <2>2. user[u].pc = "unused" /\ user[u].todo = {}
    BY <1>5 DEF AllUnused
  <2> QED  BY <1>5, <2>1, <2>2, StmtUpdates DEF Data, Empties
<1> QED  BY <1>1, <1>2, <1>3, <1>4, <1>5 DEF CloseStep

LEMMA DataInTx ==
    ASSUME Types, AllPlaced, NEW u \in Users, TxStep(u)
    PROVE  Data(u)
<1>1. CASE StmtContext(u) \/ TxFind(u) \/ TxDep(u)
  <2>1. Keeps
    BY <1>1, DataKept, CssKept, StmtKept DEF Keeps
  <2> QED  BY <2>1 DEF Data
<1>2. CASE Begin(u)
  <2>1. UNCHANGED ds /\ stmt'.css = stmt.css /\ pool.mu = None
    BY <1>2, StmtKept DEF Begin, Take
  <2>2. \E c \in Conns : Takes(c)
    BY <1>2, <2>1, TakeAlters DEF Begin, Takes
  <2> QED  BY <2>2 DEF Data
<1>3. CASE TxShare(u) /\ PrepareOnConn(u, "txDep")
  <2>1. PICK c \in Conns : user[u].dc = c
    BY <1>3, TxGuards, HasConn DEF TxPcs
  <2>2. Prepares(u, c)
    BY <1>3, <2>1, TxGuards, DataPrepares
  <2> QED  BY <2>2 DEF Data
<1>4. CASE TxShare(u) /\ ~PrepareOnConn(u, "txDep")
  BY <1>4, TxMoves DEF Data, Keeps
<1>5. CASE TxPrepare(u)
  <2>1. PICK c \in Conns : user[u].dc = c
    BY <1>5, TxGuards, HasConn DEF TxPcs
  <2>2. UNCHANGED conn /\ stmt'.css = stmt.css
    BY <1>5, StmtKept DEF TxPrepare
  <2>3. UNCHANGED ds \/ PreparesOwn(u, c)
    BY <1>5, <2>1, <2>2, TxMoves, TxGuards DEF PreparesOwn, Moves
  <2> QED  BY <2>2, <2>3 DEF Data, Keeps
<1>6. CASE TxClose(u) \/ TxEnd(u)
  <2>1. UNCHANGED conn /\ stmt'.css = stmt.css
    BY <1>6, ConnKept, StmtKept
  <2>2. UNCHANGED ds \/ (user[u].txs = "own" /\ ds' = CloseAll({user[u].txds}))
    <3>1. CASE TxClose(u)
      BY <3>1, TxMoves
    <3>2. CASE TxEnd(u)
      BY <3>2, TxMoves
    <3> QED  BY <1>6, <3>1, <3>2
  <2> QED  BY <1>6, <2>1, <2>2, TxGuards DEF Data, Keeps, ClosesOwn
<1> QED  BY <1>1, <1>2, <1>3, <1>4, <1>5, <1>6 DEF TxStep

LEMMA DataUser ==
    ASSUME Types, AllPlaced, Lists, FinalProgress, NEW u \in Users, UserStep(u)
    PROVE  Data(u)
BY DataInCalls, DataInClosing, DataInTx DEF UserStep

\* Driver statements stay on their connection, and closed ones stay closed.
Grown ==
    /\ Ids \subseteq Ids'
    /\ \A d \in Ids : ds'[d].dc = ds[d].dc /\ (ds[d].closed => ds'[d].closed)

LEMMA PreparedGrown ==
    ASSUME Types, NEW c \in Conns, ds' = Prepared(c)
    PROVE  /\ Grown /\ Len(ds) + 1 \notin Ids /\ Ids' = Ids \cup {Len(ds) + 1}
           /\ \A d \in Ids : ds'[d] = ds[d]
           /\ ds'[Len(ds) + 1].dc = c /\ ~ds'[Len(ds) + 1].closed /\ ~ds'[Len(ds) + 1].late
<1>1. /\ Len(ds) + 1 \in Nat \ Ids /\ Ids' = Ids \cup {Len(ds) + 1}
      /\ \A d \in Ids : ds'[d] = ds[d]
      /\ ds'[Len(ds) + 1] = [dc |-> c, closed |-> FALSE, late |-> FALSE]
  BY PreparesOne
<1>2. ds'[Len(ds) + 1].dc = c /\ ~ds'[Len(ds) + 1].closed /\ ~ds'[Len(ds) + 1].late
  BY <1>1
<1>3. Grown
  BY <1>1 DEF Grown
<1> QED  BY <1>1, <1>2, <1>3

LEMMA ClosedGrown ==
    ASSUME Types, NEW ids, ds' = CloseAll(ids)
    PROVE  Grown /\ Ids' = Ids /\ \A d \in Ids : ds'[d].closed <=> ds[d].closed \/ d \in ids
BY ClosesThem DEF Grown

LEMMA DataGrown ==
    ASSUME Types, NEW u \in Users, Data(u)
    PROVE  Grown
<1>1. CASE UNCHANGED ds
  BY <1>1 DEF Grown, Ids
<1>2. CASE \E c \in Conns : ds' = Prepared(c)
  BY <1>2, PreparedGrown
<1>3. CASE \E ids : ds' = CloseAll(ids)
  BY <1>3, ClosedGrown
<1> QED  BY <1>1, <1>2, <1>3 DEF Data, Keeps, Takes, Prepares, PreparesOwn, ClosesOwn, Puts,
            PutsOff, ClosesListed, Removes, Sweeps, Empties

\* What the Close of a connection does, apart from the steps it takes.
LEMMA ConnGrown ==
    ASSUME Types, NEW c \in Conns, ConnStep(c)
    PROVE  /\ Grown /\ Ids' = Ids
           /\ \A d \in Ids : ds'[d].closed =>
                 ds[d].closed \/ (d \in conn[c].todo /\ conn[c].pc = "closing")
<1>1. CASE CloseOpen(c)
  <2>1. PICK d \in conn[c].todo : ds' = CloseAll({d})
    BY <1>1, CloseAlters
  <2> QED  BY <1>1, <2>1, ClosedGrown, CloseAlters
<1>2. CASE ~CloseOpen(c)
  <2>1. UNCHANGED ds
    BY <1>2 DEF ConnStep, Expire, MarkClosed, ListOpen, FinalClosed, CountClosed
  <2> QED  BY <2>1 DEF Grown, Ids
<1> QED  BY <1>1, <1>2

\* A listed statement on a connection that is closed for good is closed.
LEMMA LeftBehind ==
    ASSUME Types, Held, Lists, NEW d \in stmt.css, ~conn[ds[d].dc].inUse,
           conn[ds[d].dc].pc \in {"final", "gone"}
    PROVE  ds[d].closed
<1>1. PICK c \in Conns : c = ds[d].dc
  BY IdsAreNumbers DEF Lists, DsType
<1>2. conn[c].onPut = {} /\ conn[c].openStmt = {} /\ conn[c].todo = {}
  BY <1>1 DEF Held, Lists
<1> QED  BY <1>1, <1>2 DEF Lists

\* A connection that a goroutine has is not one the Close of a connection is at.
LEMMA HeldOpen ==
    ASSUME Held, NEW u \in Users, NEW c \in Conns, user[u].dc = c, user[u].pc # "closing"
    PROVE  conn[c].pc = "open" /\ conn[c].inUse
BY StatementsAssumption DEF Held

-----------------------------------------------------------------------------
(* What is listed *)

LEMMA OnConns == Types => \A d \in Ids : ds[d].dc \in Conns
BY IdsAreNumbers DEF DsType

LEMMA ListsUser ==
    ASSUME Types, AllPlaced, Held, Lists, FinalProgress, NEW u \in Users, UserStep(u)
    PROVE  Lists'
<1>0. Data(u) /\ Grown /\ \A d \in Ids : ds[d].dc \in Conns
  BY DataUser, DataGrown, OnConns
<1>1. CASE Keeps
  <2>1. Ids' = Ids
    BY <1>1 DEF Keeps, Ids
  <2> QED  BY <1>1, <2>1 DEF Keeps, Lists, On
<1>2. CASE Sweeps(u) \/ Empties(u)
  <2>1. Ids' = Ids /\ UNCHANGED conn /\ UNCHANGED ds /\ stmt'.css \subseteq stmt.css
    BY <1>2 DEF Sweeps, Empties, Remaining, Ids
  <2> QED  BY <2>1 DEF Lists, On
<1>3. CASE ClosesOwn(u) \/ ClosesListed(u)
  <2>1. Ids' = Ids /\ UNCHANGED conn /\ stmt'.css = stmt.css
    BY <1>3, ClosedGrown DEF ClosesOwn, ClosesListed
  <2> QED  BY <1>0, <2>1 DEF Grown, Lists, On
<1>4. ASSUME NEW c \in Conns, Takes(c) PROVE Lists'
  <2>1. Ids' = Ids /\ UNCHANGED ds
    BY <1>4 DEF Takes, Ids
  <2> QED  BY <1>0, <1>4, <2>1 DEF Takes, Alters, Lists, On
<1>5. ASSUME NEW c \in Conns, PreparesOwn(u, c) PROVE Lists'
  <2>1. conn[c].pc = "open"
    BY <1>5, HeldOpen DEF PreparesOwn
  <2>2. UNCHANGED conn /\ stmt'.css = stmt.css /\ Ids' = Ids \cup {Len(ds) + 1} /\ ds'[Len(ds) + 1].dc = c
    BY <1>5, PreparedGrown DEF PreparesOwn
  <2> QED  BY <1>0, <2>1, <2>2 DEF Grown, Lists, On
<1>6. ASSUME NEW c \in Conns, Prepares(u, c) PROVE Lists'
  <2>1. conn[c].pc = "open"
    BY <1>6, HeldOpen DEF Prepares
  <2>2. PICK n : n = Len(ds) + 1
    OBVIOUS
  <2>3. /\ stmt'.css = stmt.css \cup {n} /\ Ids' = Ids \cup {n} /\ ds'[n].dc = c
        /\ Alters(c, {"openStmt"}) /\ conn'[c].openStmt = conn[c].openStmt \cup {n}
    BY <1>6, <2>2, PreparedGrown DEF Prepares
  <2> QED  BY <1>0, <2>1, <2>3 DEF Grown, Alters, Lists, On
<1>7. ASSUME NEW c \in Conns, Puts(u, c) PROVE Lists'
  <2>1. conn[c].pc = "open"
    BY <1>7, HeldOpen DEF Puts
  <2>2. Ids' = Ids /\ stmt'.css = stmt.css /\ \A d \in conn[c].onPut \cap Ids : ds'[d].closed
    BY <1>7, ClosedGrown DEF Puts
  <2>3. /\ Alters(c, {"pc", "inUse", "onPut"}) /\ conn'[c].onPut = {}
        /\ conn'[c].pc \in {"open", "closed"}
    BY <1>7, <2>1 DEF Puts
  <2> QED  BY <1>0, <2>1, <2>2, <2>3 DEF Grown, Alters, Lists, On
<1>8. ASSUME NEW c \in Conns, Removes(u, c) PROVE Lists'
  <2>1. u \in Finalizers /\ Gone(user[u].ds) /\ user[u].ds \in Ids
    BY <1>8, WorksOn DEF Removes, Finalizers, FinalProgress
  <2>2. PICK d : d = user[u].ds
    OBVIOUS
  <2>3. /\ Ids' = Ids /\ UNCHANGED ds /\ stmt'.css = stmt.css /\ ds[d].dc = c
        /\ Alters(c, {"openStmt"}) /\ conn'[c].openStmt = conn[c].openStmt \ {d}
    BY <1>8, <2>2 DEF Removes, Ids
  <2> QED  BY <1>0, <2>1, <2>2, <2>3 DEF Gone, Alters, Lists, On
<1>9. ASSUME NEW c \in Conns, NEW d \in Ids, PutsOff(u, c, d) PROVE Lists'
  <2>1. /\ Ids' = Ids /\ UNCHANGED ds /\ stmt'.css = stmt.css /\ ds[d].dc = c
        /\ Alters(c, {"onPut"}) /\ conn'[c].onPut = conn[c].onPut \cup {d}
    BY <1>9 DEF PutsOff, Ids
  <2> QED  BY <1>0, <2>1 DEF Alters, Lists, On
<1> QED  BY <1>0, <1>1, <1>2, <1>3, <1>4, <1>5, <1>6, <1>7, <1>8, <1>9 DEF Data

LEMMA ListsConn ==
    ASSUME Types, Lists, NEW c \in Conns, ConnStep(c)
    PROVE  Lists'
<1>0. /\ Grown /\ Ids' = Ids /\ \A d \in Ids : ds[d].dc \in Conns
      /\ UNCHANGED stmt
  BY ConnGrown, OnConns, ConnLeaves
<1>1. CASE Expire(c) \/ MarkClosed(c) \/ FinalClosed(c) \/ CountClosed(c)
  <2>1. /\ Alters(c, {"pc"}) /\ conn[c].pc \in {"open", "closed", "closing", "final"}
        /\ conn'[c].pc \in {"closed", "listed", "final", "gone"} /\ conn[c].todo = {}
        /\ conn'[c].pc \in {"final", "gone"} => conn[c].openStmt = {}
    BY <1>1, CloseAlters DEF Lists
  <2> QED  BY <1>0, <2>1 DEF Grown, Alters, Lists, On
<1>2. CASE ListOpen(c)
  <2>1. /\ Alters(c, {"pc", "todo", "openStmt"}) /\ conn'[c].pc = "closing"
        /\ conn'[c].todo = conn[c].openStmt /\ conn'[c].openStmt = {} /\ conn[c].todo = {}
    BY <1>2, CloseAlters DEF Lists
  <2> QED  BY <1>0, <2>1 DEF Grown, Alters, Lists, On
<1>3. CASE CloseOpen(c)
  <2>1. PICK d \in conn[c].todo : ds' = CloseAll({d}) /\ conn'[c].todo = conn[c].todo \ {d}
    BY <1>3, CloseAlters
  <2>2. Alters(c, {"todo"}) /\ conn[c].pc = "closing" /\ (d \in Ids => ds'[d].closed)
    BY <1>3, <2>1, CloseAlters, ClosedGrown
  <2>3. /\ d \in Ids /\ ds'[d].closed
        /\ \A x \in Conns : /\ conn'[x].onPut = conn[x].onPut /\ conn'[x].openStmt = conn[x].openStmt
                            /\ conn'[x].pc = conn[x].pc
                            /\ conn'[x].todo \in {conn[x].todo, conn[x].todo \ {d}}
    BY <2>1, <2>2 DEF Alters, Lists, On
  <2> QED  BY <1>0, <2>3 DEF Grown, Lists, On
<1> QED  BY <1>1, <1>2, <1>3 DEF ConnStep

-----------------------------------------------------------------------------
(* Nothing is closed too late, and no dependency is missed *)

NotLate == \A d \in Ids : ~ds[d].late

LEMMA InTimeIf ==
    ASSUME Types, Lists, NotLate, NEW ids, ds' = CloseAll(ids),
           \A d \in ids \cap Ids : ds[d].closed \/ conn[ds[d].dc].pc \notin {"final", "gone"}
    PROVE  NotLate'
BY ClosesThem DEF NotLate

LEMMA InTimeUser ==
    ASSUME Types, AllPlaced, Held, Lists, InHand, FinalProgress, NotLate, NEW u \in Users, UserStep(u)
    PROVE  NotLate'
<1>0. Data(u) /\ \A d \in Ids : ds[d].dc \in Conns
  BY DataUser, OnConns
<1>1. CASE UNCHANGED ds
  BY <1>1 DEF NotLate, Ids
<1>2. CASE \E c \in Conns : ds' = Prepared(c)
  <2>1. PICK c \in Conns : ds' = Prepared(c)
    BY <1>2
  <2> QED  BY <2>1, PreparedGrown DEF NotLate
<1>3. CASE ClosesOwn(u)
  <2>1. PICK c \in Conns : user[u].dc = c
    BY <1>3, HasConn DEF ClosesOwn, AllPlaced, Placed
  <2>2. ds[user[u].txds].dc = c /\ conn[c].pc = "open"
    BY <1>3, <2>1, HeldOpen DEF ClosesOwn, InHand, Mine, On
  <2> QED  BY <1>3, <2>2, InTimeIf DEF ClosesOwn
<1>4. CASE ClosesListed(u)
  <2>1. /\ u \in Finalizers /\ user[u].ds \in stmt.css
        /\ ~conn[ds[user[u].ds].dc].inUse
    BY <1>4 DEF ClosesListed, Finalizers, FinalProgress
  <2>2. ds[user[u].ds].closed \/ conn[ds[user[u].ds].dc].pc \notin {"final", "gone"}
    BY <2>1, LeftBehind
  <2> QED  BY <1>4, <2>2, InTimeIf DEF ClosesListed
<1>5. ASSUME NEW c \in Conns, Puts(u, c) PROVE NotLate'
  <2>1. conn[c].pc = "open" /\ \A d \in conn[c].onPut : ds[d].dc = c
    BY <1>5, HeldOpen DEF Puts, Lists, On
  <2> QED  BY <1>5, <2>1, InTimeIf DEF Puts
<1> QED  BY <1>0, <1>1, <1>2, <1>3, <1>4, <1>5 DEF Data, Keeps, Takes, Prepares, PreparesOwn,
            PutsOff, Removes, Sweeps, Empties

LEMMA InTimeConn ==
    ASSUME Types, Lists, NotLate, NEW c \in Conns, ConnStep(c)
    PROVE  NotLate'
<1>1. CASE CloseOpen(c)
  <2>1. PICK d \in conn[c].todo : ds' = CloseAll({d})
    BY <1>1, CloseAlters
  <2>2. ds[d].dc = c /\ conn[c].pc = "closing"
    BY <1>1, CloseAlters DEF Lists, On
  <2> QED  BY <2>1, <2>2, InTimeIf
<1>2. CASE ~CloseOpen(c)
  <2>1. UNCHANGED ds
    BY <1>2 DEF ConnStep, Expire, MarkClosed, ListOpen, FinalClosed, CountClosed
  <2> QED  BY <2>1 DEF NotLate, Ids
<1> QED  BY <1>1, <1>2

NoPanic == \A u \in Users : user[u].pc # "panic"

LEMMA PanicUser ==
    ASSUME Types, AllPlaced, Depends, NoPanic, NEW u \in Users, UserStep(u)
    PROVE  NoPanic'
<1>1. user'[u].pc # "panic"
  <2>1. CASE Undep(u)
    BY <2>1, FindsToken, CloseMoves, DoneMoves DEF Moves
  <2>2. CASE CallStep(u)
    <3>1. CASE Prepare(u)
      BY <3>1, CallMoves, PrepareMoves DEF Moves, UserPcs, CallPcs
    <3>2. CASE Put(u) \/ PutBad(u)
      <4>1. user'[u].pc = "closing" \/ Set(u, AfterPut(u))
        BY <3>2, CallMoves DEF Moves, PutBad
      <4> QED  BY <4>1, AfterPutMoves DEF Moves
    <3>3. CASE ~Prepare(u) /\ ~Put(u) /\ ~PutBad(u)
      BY <2>2, <3>3, CallMoves DEF CallStep, Moves
    <3> QED  BY <3>1, <3>2, <3>3
  <2>3. CASE CloseStep(u) /\ ~Undep(u)
    BY <2>3, CloseMoves, CloseGuards, DoneMoves DEF CloseStep, Moves
  <2>4. CASE TxStep(u)
    <3>1. CASE TxShare(u)
      <4>1. Moves(u, "txDep", {"ds"}) \/ Moves(u, "idle", {})
        BY <3>1, TxMoves, PrepareMoves DEF UserPcs, TxPcs
      <4> QED  BY <4>1 DEF Moves
    <3>2. CASE ~TxShare(u)
      BY <2>4, <3>2, TxMoves DEF TxStep, Moves
    <3> QED  BY <3>1, <3>2
  <2> QED  BY <2>1, <2>2, <2>3, <2>4 DEF UserStep
<1> QED  BY <1>1, OneMoves DEF NoPanic

-----------------------------------------------------------------------------
(* The list of the statement, its sweeps, and its final close *)

\* The final close goes on until there is nothing to do.
LEMMA FinalGoesOn ==
    ASSUME Types, NEW u \in Users, UserStep(u), user[u].pc \in Finals
    PROVE  /\ ~AllUnused(u) => user'[u].pc \in {"unused", "closeDs", "removeOpen"}
           /\ AllUnused(u) => user[u].todo = {} /\ stmt'.css = {}
<1>1. FinalClose(u) \/ NoteUnused(u) \/ CloseDs(u) \/ RemoveOpenStmt(u) \/ AllUnused(u)
  BY CallGuards, CloseGuards, TxGuards DEF UserStep, CallStep, CloseStep, TxStep, Finals
<1>2. NoteUnused(u) => user'[u].pc \in {"unused", "closeDs", "removeOpen"}
  BY PoolUpdates
<1>3. FinalClose(u) \/ CloseDs(u) \/ RemoveOpenStmt(u) => user'[u].pc \in {"unused", "closeDs", "removeOpen"}
  BY CloseMoves DEF Moves
<1>4. AllUnused(u) => user[u].todo = {} /\ stmt'.css = {}
  BY StmtUpdates DEF AllUnused
<1> QED  BY <1>1, <1>2, <1>3, <1>4

LEMMA FinalizersStay ==
    ASSUME Types, NEW u \in Users, UserStep(u), ~AllUnused(u)
    PROVE  Finalizers \subseteq Finalizers'
<1>1. \A v \in Users \ {u} : user'[v] = user[v]
  BY OneMoves
<1>2. u \in Finalizers => user'[u].pc \in {"unused", "closeDs", "removeOpen"}
  BY FinalGoesOn DEF Finalizers, Finals
<1> QED  BY <1>1, <1>2 DEF Finalizers

LEMMA CssUsableUser ==
    ASSUME Types, AllPlaced, Held, Lists, CssUsable, InHand, FinalProgress, NEW u \in Users, UserStep(u)
    PROVE  CssUsable'
<1>0. Data(u) /\ Grown /\ \A d \in Ids : ds[d].dc \in Conns
  BY DataUser, DataGrown, OnConns
<1>1. CASE AllUnused(u)
  BY <1>1, StmtUpdates DEF CssUsable
<1> SUFFICES ASSUME ~AllUnused(u) PROVE CssUsable'
  BY <1>1
<1>2. Finalizers # {} => Finalizers' # {}
  BY FinalizersStay
<1>3. CASE u \in Finalizers
  <2>1. u \in Finalizers'
    BY <1>3, FinalizersStay
  <2> QED  BY <2>1 DEF CssUsable
<1>4. CASE UNCHANGED ds /\ UNCHANGED conn /\ stmt'.css \subseteq stmt.css
  BY <1>2, <1>4 DEF CssUsable
<1>5. CASE ClosesOwn(u)
  <2>1. user[u].txds \notin stmt.css
    BY <1>5 DEF ClosesOwn, InHand
  <2>2. /\ UNCHANGED conn /\ stmt'.css = stmt.css /\ stmt.css \subseteq Ids
        /\ \A d \in Ids \ {user[u].txds} : ds'[d].closed <=> ds[d].closed
    BY <1>5, ClosedGrown DEF ClosesOwn, Lists
  <2>3. \A d \in stmt.css : ds'[d].dc = ds[d].dc /\ (ds'[d].closed <=> ds[d].closed)
    BY <1>0, <2>1, <2>2 DEF Grown
  <2> QED  BY <1>2, <2>2, <2>3 DEF CssUsable
<1>6. ASSUME NEW c \in Conns, Takes(c) PROVE CssUsable'
  <2>1. /\ UNCHANGED ds /\ stmt'.css = stmt.css /\ stmt.css \subseteq Ids
        /\ \A d \in Ids : conn[ds[d].dc].pc # "none"
    BY <1>6 DEF Takes, Lists
  <2>2. \A d \in Ids : /\ conn'[ds[d].dc].pc = "open" => conn[ds[d].dc].pc = "open"
                       /\ conn'[ds[d].dc].onPut = conn[ds[d].dc].onPut
    BY <1>0, <1>6, <2>1 DEF Takes, Alters
  <2> QED  BY <1>2, <2>1, <2>2 DEF CssUsable
<1>7. ASSUME NEW c \in Conns, PreparesOwn(u, c) PROVE CssUsable'
  <2>1. /\ UNCHANGED conn /\ stmt'.css = stmt.css /\ stmt.css \subseteq Ids
        /\ \A d \in Ids : ds'[d] = ds[d]
    BY <1>7, PreparedGrown DEF PreparesOwn, Lists
  <2> QED  BY <1>2, <2>1 DEF CssUsable
<1>8. ASSUME NEW c \in Conns, Prepares(u, c) PROVE CssUsable'
  <2>1. PICK n : n = Len(ds) + 1
    OBVIOUS
  <2>2. /\ stmt'.css = stmt.css \cup {n} /\ n \notin Ids /\ ds'[n].dc = c /\ ~ds'[n].closed
        /\ \A d \in Ids : ds'[d] = ds[d]
        /\ Alters(c, {"openStmt"}) /\ stmt.css \subseteq Ids
    BY <1>8, <2>1, PreparedGrown DEF Prepares, Lists
  <2>3. \A x \in Conns : conn'[x].pc = conn[x].pc /\ conn'[x].onPut = conn[x].onPut
    BY <2>2 DEF Alters
  <2>4. n \notin conn[c].onPut
    BY <2>2 DEF Lists, On
  <2> QED  BY <1>0, <1>2, <2>2, <2>3, <2>4 DEF CssUsable
<1>9. ASSUME NEW c \in Conns, Puts(u, c) PROVE CssUsable'
  <2>1. /\ stmt'.css = stmt.css /\ stmt.css \subseteq Ids
        /\ \A d \in Ids : ds'[d].closed <=> ds[d].closed \/ d \in conn[c].onPut
    BY <1>9, ClosedGrown DEF Puts, Lists
  <2>2. \A d \in conn[c].onPut : ds[d].dc = c
    BY DEF Lists, On
  <2>3. \A x \in Conns : /\ conn'[x].pc = "open" => conn[x].pc = "open"
                         /\ conn'[x].onPut \subseteq conn[x].onPut
    BY <1>9 DEF Puts, Alters
  <2> QED  BY <1>0, <1>2, <2>1, <2>2, <2>3 DEF Grown, CssUsable
<1>10. Keeps \/ Sweeps(u) => UNCHANGED ds /\ UNCHANGED conn /\ stmt'.css \subseteq stmt.css
  BY DEF Keeps, Sweeps, Remaining
<1>11. ClosesListed(u) \/ Empties(u) \/ (\E c \in Conns : Removes(u, c) \/ \E d \in Ids : PutsOff(u, c, d))
          => u \in Finalizers
  BY DEF ClosesListed, Empties, Removes, PutsOff, Finalizers
<1> QED  BY <1>0, <1>3, <1>4, <1>5, <1>6, <1>7, <1>8, <1>9, <1>10, <1>11 DEF Data

LEMMA CssUsableConn ==
    ASSUME Types, Lists, CssUsable, NEW c \in Conns, ConnStep(c)
    PROVE  CssUsable'
<1>1. /\ Grown /\ UNCHANGED stmt /\ Finalizers' = Finalizers /\ stmt.css \subseteq Ids
      /\ \A d \in Ids : ds[d].dc \in Conns
  BY ConnGrown, ConnLeaves, OnConns DEF Finalizers, Lists
<1>2. \A d \in Ids : ds'[d].closed => ds[d].closed \/ ds[d].dc = c
  BY ConnGrown DEF Lists, On
<1>3. /\ conn'[c].pc # "open"
      /\ \A x \in Conns : conn'[x].onPut = conn[x].onPut /\ (x # c => conn'[x] = conn[x])
  BY ConnShut DEF Shut
<1> QED  BY <1>1, <1>2, <1>3 DEF Grown, CssUsable

-----------------------------------------------------------------------------
(* What is used stays open *)

\* Nobody else closes what is on the connection of a goroutine, and it does not
\* itself until it returns the connection or closes what it has prepared alone.
LEMMA OpenStays ==
    ASSUME Types, AllPlaced, Held, Lists, InHand, FinalProgress, NEW u \in Users, UserStep(u),
           NEW v \in Users, NEW c \in Conns, user[v].dc = c, user[v].pc # "closing",
           NEW d, On(d, c), ~ds[d].closed,
           u = v => user[u].pc # "put" /\ (~ClosesOwn(u) \/ UNCHANGED ds \/ user[u].txds # d)
    PROVE  On(d, c)' /\ ~ds'[d].closed
<1>0. Data(u) /\ Grown /\ d \in Ids /\ ds[d].dc = c /\ d \in Ids'
  BY DataUser, DataGrown DEF On, Grown
<1>1. On(d, c)'
  BY <1>0 DEF Grown, On
<1>2. \A x \in Users : user[x].dc = c => x = v
  BY StatementsAssumption DEF Held
<1> SUFFICES ~ds'[d].closed
  BY <1>1
<1>3. CASE UNCHANGED ds
  BY <1>3
<1>4. CASE \E x \in Conns : ds' = Prepared(x)
  BY <1>0, <1>4, PreparedGrown
<1>5. CASE ClosesOwn(u) /\ ~UNCHANGED ds
  <2>1. user[u].txds # d
    BY <1>0, <1>2, <1>5 DEF ClosesOwn, InHand, Mine, On
  <2>2. ds' = CloseAll({user[u].txds})
    BY <1>5 DEF ClosesOwn
  <2>3. \A x \in Ids : ds'[x].closed <=> ds[x].closed \/ x \in {user[u].txds}
    BY <2>2, ClosedGrown
  <2> QED  BY <1>0, <2>1, <2>3
<1>6. CASE ClosesListed(u)
  <2>1. ~conn[ds[user[u].ds].dc].inUse
    BY <1>6 DEF ClosesListed, Finalizers, FinalProgress
  <2>2. user[u].ds # d
    BY <1>0, <2>1, HeldOpen
  <2> QED  BY <1>0, <1>6, <2>2, ClosedGrown DEF ClosesListed
<1>7. ASSUME NEW x \in Conns, Puts(u, x) PROVE ~ds'[d].closed
  <2>1. x # c
    BY <1>2, <1>7 DEF Puts
  <2>2. d \notin conn[x].onPut
    BY <1>0, <2>1 DEF Lists, On
  <2> QED  BY <1>0, <1>7, <2>2, ClosedGrown DEF Puts
<1> QED  BY <1>0, <1>3, <1>4, <1>5, <1>6, <1>7 DEF Data, Keeps, Takes, Prepares, PreparesOwn,
            PutsOff, Removes, Sweeps, Empties

\* What a goroutine has in hand.
Keeping(v) ==
    /\ user[v].pc \in {"run", "rows", "txDep"} => Mine(v, user[v].ds)
    /\ user[v].txs # "none" => Mine(v, user[v].txds)
    /\ user[v].txs = "own" => user[v].txds \notin stmt.css

LEMMA InHandParts == InHand <=> \A v \in Users : Keeping(v)
BY DEF InHand, Keeping

LEMMA KeepsHaving ==
    ASSUME Types, AllPlaced, NEW v \in Users
    PROVE  /\ user[v].pc \in {"run", "rows", "txDep"} \/ user[v].txs # "none" =>
                  user[v].dc \in Conns /\ user[v].pc \notin {"put", "closing"}
BY HasConn DEF AllPlaced, Placed, TxPcs

\* What is new in the list was not there before.
LEMMA CssGrows ==
    ASSUME Types, AllPlaced, Lists, FinalProgress, NEW u \in Users, UserStep(u), NEW d \in Ids, d \notin stmt.css
    PROVE  d \notin stmt'.css
<1>1. Data(u)
  BY DataUser
<1>2. Len(ds) + 1 \notin Ids
  BY DEF Types, Ids
<1> QED  BY <1>1, <1>2 DEF Data, Keeps, Takes, Prepares, PreparesOwn, ClosesOwn, Puts, PutsOff,
            ClosesListed, Removes, Sweeps, Empties, Remaining

LEMMA KeepingOthers ==
    ASSUME Types, AllPlaced, Held, Lists, InHand, FinalProgress, NEW u \in Users, UserStep(u),
           NEW v \in Users \ {u}
    PROVE  Keeping(v)'
<1>1. user'[v] = user[v] /\ Keeping(v)
  BY OneMoves, InHandParts
<1>2. ASSUME user[v].pc \in {"run", "rows", "txDep"} PROVE Mine(v, user[v].ds)'
  <2>1. PICK c \in Conns : user[v].dc = c
    BY <1>2, KeepsHaving
  <2>2. On(user[v].ds, c) /\ ~ds[user[v].ds].closed /\ user[v].pc # "closing"
    BY <1>1, <1>2, <2>1 DEF Keeping, Mine
  <2>3. PICK d : d = user[v].ds
    OBVIOUS
  <2>4. On(d, c)' /\ ~ds'[d].closed
    BY <2>1, <2>2, <2>3, OpenStays
  <2> QED  BY <1>1, <2>1, <2>3, <2>4 DEF Mine, On
<1>3. ASSUME user[v].txs # "none" PROVE Mine(v, user[v].txds)' /\ user[v].txds \in Ids
  <2>1. PICK c \in Conns : user[v].dc = c
    BY <1>3, KeepsHaving
  <2>2. On(user[v].txds, c) /\ ~ds[user[v].txds].closed /\ user[v].pc # "closing"
    BY <1>1, <1>3, <2>1, KeepsHaving DEF Keeping, Mine
  <2>3. PICK d : d = user[v].txds
    OBVIOUS
  <2>4. On(d, c)' /\ ~ds'[d].closed
    BY <2>1, <2>2, <2>3, OpenStays
  <2> QED  BY <1>1, <2>1, <2>2, <2>3, <2>4 DEF Mine, On
<1>4. ASSUME user[v].txs = "own" PROVE user[v].txds \notin stmt'.css
  BY <1>1, <1>3, <1>4, CssGrows DEF Keeping
<1> QED  BY <1>1, <1>2, <1>3, <1>4 DEF Keeping

\* Found in the list, with the mutex of the statement: the final close has not begun.
LEMMA FoundOpen ==
    ASSUME Held, Locks, Lists, CssUsable, NEW u \in Users, NEW c \in Conns, user[u].dc = c,
           user[u].pc \in {"find", "txFind"}, stmt.mu \in {None, u}, NEW d \in Listed(c)
    PROVE  On(d, c) /\ ~ds[d].closed
<1>1. Finalizers = {}
  BY StatementsAssumption DEF Locks, Finalizers
<1>2. d \in stmt.css /\ d \in Ids /\ ds[d].dc = c
  BY DEF Listed, Lists
<1>3. conn[c].pc = "open"
  BY HeldOpen
<1> QED  BY <1>1, <1>2, <1>3 DEF CssUsable, On

\* The statement of a transaction is the same until it is given up.
LEMMA TxsKept ==
    ASSUME Types, AllPlaced, Lists, FinalProgress, NEW u \in Users, UserStep(u),
           ~TxPrepare(u), ~TxDep(u), user'[u].txs # "none"
    PROVE  /\ user'[u].txs = user[u].txs /\ user'[u].txds = user[u].txds
           /\ user'[u].dc = user[u].dc /\ user[u].pc # "put"
           /\ user[u].pc = "idle" => UNCHANGED ds
<1>0. Placed(u) /\ user[u] \in UserType
  BY DEF AllPlaced, Types
<1>1. CASE CallStep(u)
  <2>1. user'[u].txs = user[u].txs
    <3>1. CASE Prepare(u)
      BY <3>1, CallMoves, PrepareMoves DEF Moves, UserPcs, CallPcs
    <3>2. CASE Put(u) \/ PutBad(u)
      <4>1. Moves(u, "closing", {}) \/ Set(u, AfterPut(u))
        BY <3>2, CallMoves DEF PutBad
      <4> QED  BY <4>1, AfterPutMoves DEF Moves
    <3>3. CASE ~Prepare(u) /\ ~Put(u) /\ ~PutBad(u)
      BY <1>1, <3>3, CallMoves DEF CallStep, Moves
    <3> QED  BY <3>1, <3>2, <3>3
  <2>2. user[u].txs = "none"
    BY <1>0, <1>1, CallGuards, NoTxs DEF CallStep, Placed
  <2> QED  BY <2>1, <2>2
<1>2. CASE CloseStep(u)
  <2>1. user'[u].dc = user[u].dc /\ user[u].pc # "put"
    BY <1>2, ClosingCalm, CloseGuards DEF Calm, CloseStep
  <2>2. user[u].pc = "idle" => UNCHANGED ds
    BY <1>2, CloseGuards, DataKept DEF CloseStep
  <2>3. user'[u].txs = user[u].txs /\ user'[u].txds = user[u].txds
    <3>1. CASE Undep(u)
      <4>1. Moves(u, "panic", {}) \/ Moves(u, "final", {}) \/ Set(u, Done(u))
        BY <3>1, CloseMoves
      <4> QED  BY <4>1, DoneMoves DEF Moves
    <3>2. CASE AllUnused(u)
      BY <3>2, CloseGuards, DoneMoves
    <3>3. CASE ~Undep(u) /\ ~AllUnused(u)
      BY <1>2, <3>3, CloseMoves DEF CloseStep, Moves
    <3> QED  BY <3>1, <3>2, <3>3
  <2> QED  BY <2>1, <2>2, <2>3
<1>3. CASE TxClose(u) \/ TxEnd(u)
  BY <1>3, TxMoves, TxGuards DEF Moves
<1>4. CASE TxShare(u)
  <2>1. Moves(u, "txDep", {"ds"}) \/ Moves(u, "idle", {})
    BY <1>4, TxMoves, PrepareMoves DEF UserPcs, TxPcs
  <2>2. user[u].txs = "none"
    BY <1>0, <1>4, TxGuards DEF Placed, TxPcs
  <2> QED  BY <2>1, <2>2 DEF Moves
<1>5. CASE Begin(u) \/ StmtContext(u) \/ TxFind(u)
  <2>1. user[u].txs = "none"
    BY <1>0, <1>5, TxGuards DEF Placed, TxPcs
  <2> QED  BY <1>5, <2>1, TxMoves DEF Moves
<1> QED  BY <1>1, <1>2, <1>3, <1>4, <1>5 DEF UserStep, TxStep

\* What it prepares is new, and open.
LEMMA FreshOpen ==
    ASSUME Types, NEW c \in Conns, ds' = Prepared(c), NEW d, d = Len(ds) + 1
    PROVE  On(d, c)' /\ ~ds'[d].closed
BY PreparedGrown DEF On

LEMMA WorkInHand ==
    ASSUME Types, AllPlaced, Held, Locks, Lists, CssUsable, InHand, FinalProgress,
           NEW u \in Users, UserStep(u), user'[u].pc \in {"run", "rows", "txDep"}
    PROVE  Mine(u, user[u].ds)'
<1>1. Find(u) \/ Prepare(u) \/ Run(u) \/ TxFind(u) \/ TxShare(u)
  <2>1. CASE CallStep(u)
    <3>1. CASE Put(u) \/ PutBad(u)
      <4>1. Moves(u, "closing", {}) \/ Set(u, AfterPut(u))
        BY <3>1, CallMoves DEF PutBad
      <4> QED  BY <4>1, AfterPutMoves DEF Moves
    <3>2. CASE ~Put(u) /\ ~PutBad(u)
      BY <2>1, <3>2, CallMoves DEF CallStep, Moves
    <3> QED  BY <3>1, <3>2
  <2>2. CASE CloseStep(u)
    <3>1. CASE Undep(u)
      <4>1. Moves(u, "panic", {}) \/ Moves(u, "final", {}) \/ Set(u, Done(u))
        BY <3>1, CloseMoves
      <4> QED  BY <4>1, DoneMoves DEF Moves
    <3>2. CASE AllUnused(u)
      BY <3>2, CloseGuards, DoneMoves DEF Moves
    <3>3. CASE NoteUnused(u)
      BY <3>3, PoolUpdates
    <3>4. CASE ~Undep(u) /\ ~AllUnused(u) /\ ~NoteUnused(u)
      BY <2>2, <3>4, CloseMoves DEF CloseStep, Moves
    <3> QED  BY <3>1, <3>2, <3>3, <3>4
  <2>3. CASE TxStep(u)
    BY <2>3, TxMoves DEF TxStep, Moves
  <2> QED  BY <2>1, <2>2, <2>3 DEF UserStep
<1>2. PICK c \in Conns : user[u].dc = c
  BY <1>1, CallGuards, TxGuards, HasConn DEF TxPcs
<1>3. CASE Find(u) \/ TxFind(u)
  <2>1. user'[u].ds \in Listed(c) /\ user'[u].dc = c
    BY <1>2, <1>3, CallMoves, TxMoves DEF Moves
  <2>2. UNCHANGED ds /\ user[u].pc \in {"find", "txFind"}
    BY <1>3, DataKept, CallGuards, TxGuards
  <2>3. stmt.mu \in {None, u}
    <3>1. Find(u) => stmt.mu = None
      BY DEF Find
    <3>2. TxFind(u) => stmt.mu = u
      BY TxGuards DEF Locks
    <3> QED  BY <1>3, <3>1, <3>2
  <2>4. On(user'[u].ds, c) /\ ~ds[user'[u].ds].closed
    BY <1>2, <2>1, <2>2, <2>3, FoundOpen
  <2> QED  BY <2>1, <2>2, <2>4 DEF Mine, On, Ids
<1>4. CASE Prepare(u) \/ TxShare(u)
  <2>1. PICK l \in UserPcs : PrepareOnConn(u, l)
    BY <1>4, CallMoves, TxMoves DEF Moves, UserPcs, CallPcs, TxPcs
  <2>2. user'[u].ds = Len(ds) + 1 /\ user'[u].dc = c /\ ds' = Prepared(c)
    <3>1. ds' = Prepared(c)
      BY <1>2, <2>1 DEF PrepareOnConn
    <3> QED  BY <1>2, <2>1, <3>1, PrepareMoves DEF Moves
  <2>3. PICK d : d = Len(ds) + 1
    OBVIOUS
  <2>4. On(d, c)' /\ ~ds'[d].closed
    BY <2>2, <2>3, FreshOpen
  <2> QED  BY <2>2, <2>3, <2>4 DEF Mine, On
<1>5. CASE Run(u)
  <2>1. user'[u].ds = user[u].ds /\ user'[u].dc = c
    BY <1>2, <1>5, CallMoves DEF Moves
  <2>2. UNCHANGED ds
    BY <1>5, DataKept
  <2>3. On(user[u].ds, c) /\ ~ds[user[u].ds].closed
    BY <1>2, <1>5, CallGuards DEF InHand, Mine
  <2> QED  BY <2>1, <2>2, <2>3 DEF Mine, On, Ids
<1> QED  BY <1>1, <1>3, <1>4, <1>5

LEMMA TxsInHand ==
    ASSUME Types, AllPlaced, Held, Lists, InHand, FinalProgress,
           NEW u \in Users, UserStep(u), user'[u].txs # "none"
    PROVE  /\ Mine(u, user[u].txds)'
           /\ user'[u].txs = "own" => user'[u].txds \notin stmt'.css
<1>1. CASE TxPrepare(u)
  <2>1. PICK c \in Conns : user[u].dc = c
    BY <1>1, TxGuards, HasConn DEF TxPcs
  <2>2. user[u].txs = "none"
    BY <1>1, TxGuards, NoTxs DEF TxPcs
  <2>3. /\ Moves(u, "idle", {"txs"}) /\ user'[u].txs = "own"
        /\ user'[u].txds = Len(ds) + 1 /\ ds' = Prepared(user[u].dc)
    BY <1>1, <2>2, TxMoves DEF Moves
  <2>4. PICK d : d = Len(ds) + 1
    OBVIOUS
  <2>5. On(d, c)' /\ ~ds'[d].closed /\ user'[u].dc = c
    BY <2>1, <2>3, <2>4, FreshOpen DEF Moves
  <2>6. d \notin Ids /\ stmt'.css = stmt.css
    BY <1>1, <2>1, <2>3, <2>4, PreparedGrown, StmtKept
  <2> QED  BY <2>3, <2>4, <2>5, <2>6 DEF Mine, On, Lists
<1>2. CASE TxDep(u)
  <2>1. PICK c \in Conns : user[u].dc = c
    BY <1>2, TxGuards, HasConn DEF TxPcs
  <2>2. On(user[u].ds, c) /\ ~ds[user[u].ds].closed
    BY <1>2, <2>1, TxGuards DEF InHand, Mine
  <2>3. /\ user'[u].txs = "parent" /\ user'[u].txds = user[u].ds /\ user'[u].dc = c
        /\ UNCHANGED ds
    BY <1>2, <2>1, TxMoves, DataKept DEF Moves
  <2> QED  BY <2>2, <2>3 DEF Mine, On, Ids
<1>3. CASE ~TxPrepare(u) /\ ~TxDep(u)
  <2>1. /\ user'[u].txs = user[u].txs /\ user'[u].txds = user[u].txds
        /\ user'[u].dc = user[u].dc /\ user[u].pc # "put"
        /\ user[u].pc = "idle" => UNCHANGED ds
    BY <1>3, TxsKept
  <2>2. PICK c \in Conns : user[u].dc = c
    BY <2>1, KeepsHaving
  <2>3. PICK d : d = user[u].txds
    OBVIOUS
  <2>4. On(d, c) /\ ~ds[d].closed
    BY <2>1, <2>2, <2>3 DEF InHand, Mine
  <2>5. ~ClosesOwn(u) \/ UNCHANGED ds
    BY <2>1 DEF ClosesOwn
  <2>6. On(d, c)' /\ ~ds'[d].closed
    BY <2>1, <2>2, <2>4, <2>5, KeepsHaving, OpenStays
  <2>7. user'[u].txs = "own" => user'[u].txds \notin stmt'.css
    BY <2>1, <2>3, <2>4, CssGrows DEF InHand, On
  <2> QED  BY <2>1, <2>2, <2>3, <2>6, <2>7 DEF Mine, On
<1> QED  BY <1>1, <1>2, <1>3

LEMMA InHandUser ==
    ASSUME Types, AllPlaced, Held, Locks, Lists, CssUsable, InHand, FinalProgress,
           NEW u \in Users, UserStep(u)
    PROVE  InHand'
<1>1. Keeping(u)'
  BY WorkInHand, TxsInHand DEF Keeping
<1>2. \A v \in Users \ {u} : Keeping(v)'
  BY KeepingOthers
<1> QED  BY <1>1, <1>2 DEF InHand, Keeping

LEMMA InHandConn ==
    ASSUME Types, AllPlaced, Held, Lists, InHand, NEW c \in Conns, ConnStep(c)
    PROVE  InHand'
<1>0. /\ Grown /\ Ids' = Ids /\ UNCHANGED stmt /\ UNCHANGED user
      /\ \A d \in Ids : ds'[d].closed => ds[d].closed \/ (ds[d].dc = c /\ conn[c].pc = "closing")
  BY ConnGrown, ConnLeaves DEF Lists, On
<1>1. ASSUME NEW v \in Users, NEW d, Mine(v, d), user[v].dc \in Conns, user[v].pc # "closing"
      PROVE  d \in Ids /\ ds'[d].dc = user[v].dc /\ ~ds'[d].closed
  BY <1>0, <1>1, HeldOpen DEF Mine, On, Grown
<1> QED  BY <1>0, <1>1, KeepsHaving DEF InHand, Mine, On

-----------------------------------------------------------------------------
(* The final close *)

LEMMA GoneStays ==
    ASSUME Types, AllPlaced, Lists, FinalProgress, NEW u \in Users, UserStep(u), NEW d \in Ids, Gone(d)
    PROVE  Gone(d)'
<1>0. Data(u) /\ Grown /\ ds[d].dc \in Conns
  BY DataUser, DataGrown, OnConns
<1>1. CASE ds[d].closed
  BY <1>0, <1>1 DEF Grown, Gone
<1>2. CASE d \in conn[ds[d].dc].onPut
  <2>1. PICK x \in Conns : x = ds[d].dc /\ ds'[d].dc = x /\ d \in conn[x].onPut
    BY <1>0, <1>2 DEF Grown
  <2>2. CASE \E c \in Conns : Puts(u, c)
    <3>1. PICK c \in Conns : Puts(u, c)
      BY <2>2
    <3>2. CASE c = x
      BY <2>1, <3>1, <3>2, ClosedGrown DEF Puts, Gone
    <3>3. CASE c # x
      BY <2>1, <3>1, <3>3 DEF Puts, Alters, Gone
    <3> QED  BY <3>2, <3>3
  <2>3. CASE ~\E c \in Conns : Puts(u, c)
    <3>1. conn[x].onPut \subseteq conn'[x].onPut
      BY <1>0, <2>3 DEF Data, Keeps, Takes, Prepares, PreparesOwn, ClosesOwn, PutsOff,
         ClosesListed, Removes, Sweeps, Empties, Alters
    <3> QED  BY <2>1, <3>1 DEF Gone
  <2> QED  BY <2>2, <2>3
<1> QED  BY <1>1, <1>2 DEF Gone

LEMMA GoneStaysConn ==
    ASSUME Types, NEW c \in Conns, ConnStep(c), NEW d \in Ids, Gone(d)
    PROVE  Gone(d)'
<1>1. Grown /\ ds[d].dc \in Conns
  BY ConnGrown, OnConns
<1>2. \A x \in Conns : conn'[x].onPut = conn[x].onPut
  BY ConnShut
<1> QED  BY <1>1, <1>2 DEF Grown, Gone

\* Under the mutex of the statement nobody else changes the list.
LEMMA CssAlone ==
    ASSUME Types, Locks, NEW u \in Users, UserStep(u), NEW w \in Finalizers, w # u
    PROVE  stmt'.css = stmt.css
<1>1. stmt.mu = w /\ w # None
  BY StatementsAssumption DEF Locks, Finalizers
<1>2. ~Sweep(u) /\ ~AllUnused(u)
  BY <1>1, CallGuards, CloseGuards DEF Locks
<1>3. ~Prepare(u)
  BY <1>1 DEF Prepare
<1>4. ~TxShare(u)
  BY <1>1 DEF TxShare
<1> QED  BY <1>2, <1>3, <1>4, CssKept, StmtKept DEF UserStep, CallStep, CloseStep, TxStep

Progress(w) ==
    /\ user[w].todo \subseteq stmt.css
    /\ \A d \in stmt.css \ user[w].todo : Gone(d)
    /\ user[w].pc \in {"closeDs", "removeOpen"} => user[w].ds \in user[w].todo
    /\ user[w].pc = "closeDs" => ~conn[ds[user[w].ds].dc].inUse
    /\ user[w].pc = "removeOpen" => Gone(user[w].ds)

LEMMA ProgressOthers ==
    ASSUME Types, AllPlaced, Locks, Lists, FinalProgress, NEW u \in Users, UserStep(u),
           NEW w \in Finalizers, w # u
    PROVE  Progress(w)'
<1>0. w \in Users /\ user'[w] = user[w] /\ Progress(w) /\ stmt'.css = stmt.css /\ stmt.css \subseteq Ids
  BY OneMoves, CssAlone DEF Finalizers, FinalProgress, Progress, Lists
<1>1. \A d \in stmt.css : Gone(d) => Gone(d)'
  BY <1>0, GoneStays
<1>2. ASSUME user[w].pc = "closeDs" PROVE ~conn'[ds'[user[w].ds].dc].inUse
  <2>1. Data(u) /\ Grown /\ user[w].ds \in Ids /\ ds[user[w].ds].dc \in Conns
    BY <1>0, <1>2, DataUser, DataGrown, OnConns DEF Progress
  <2>2. PICK x \in Conns : x = ds[user[w].ds].dc /\ x = ds'[user[w].ds].dc /\ ~conn[x].inUse
    BY <1>0, <1>2, <2>1 DEF Progress, Grown
  <2>3. pool.mu # None
    BY <1>0, <1>2, StatementsAssumption DEF Locks
  <2>4. ~conn'[x].inUse
    BY <2>1, <2>2, <2>3 DEF Data, Keeps, Takes, Prepares, PreparesOwn, ClosesOwn, Puts, PutsOff,
       ClosesListed, Removes, Sweeps, Empties, Alters
  <2> QED  BY <2>2, <2>4
<1>3. PICK d : d = user[w].ds
  OBVIOUS
<1> QED  BY <1>0, <1>1, <1>2, <1>3 DEF Progress

\* How the final close is come to.
LEMMA FinalFrom ==
    ASSUME Types, NEW u \in Users, UserStep(u), user'[u].pc \in {"unused", "closeDs", "removeOpen"}
    PROVE  FinalClose(u) \/ NoteUnused(u) \/ CloseDs(u) \/ RemoveOpenStmt(u)
<1>1. CASE CallStep(u)
  <2>1. CASE Put(u) \/ PutBad(u)
    <3>1. Moves(u, "closing", {}) \/ Set(u, AfterPut(u))
      BY <2>1, CallMoves DEF PutBad
    <3> QED  BY <3>1, AfterPutMoves DEF Moves
  <2>2. CASE Prepare(u)
    BY <2>2, CallMoves, PrepareMoves DEF Moves, UserPcs, CallPcs
  <2>3. CASE ~Put(u) /\ ~PutBad(u) /\ ~Prepare(u)
    BY <1>1, <2>3, CallMoves DEF CallStep, Moves
  <2> QED  BY <2>1, <2>2, <2>3
<1>2. CASE CloseStep(u)
  <2>1. CASE Undep(u)
    <3>1. Moves(u, "panic", {}) \/ Moves(u, "final", {}) \/ Set(u, Done(u))
      BY <2>1, CloseMoves
    <3> QED  BY <3>1, DoneMoves DEF Moves
  <2>2. CASE AllUnused(u)
    BY <2>2, CloseGuards, DoneMoves DEF Moves
  <2>3. CASE StartClose(u) \/ CloseStmt(u)
    BY <2>3, CloseMoves DEF Moves
  <2> QED  BY <1>2, <2>1, <2>2, <2>3 DEF CloseStep
<1>3. CASE TxStep(u)
  <2>1. CASE TxShare(u)
    <3>1. Moves(u, "txDep", {"ds"}) \/ Moves(u, "idle", {})
      BY <2>1, TxMoves, PrepareMoves DEF UserPcs, TxPcs
    <3> QED  BY <3>1 DEF Moves
  <2>2. CASE ~TxShare(u)
    BY <1>3, <2>2, TxMoves DEF TxStep, Moves
  <2> QED  BY <2>1, <2>2
<1> QED  BY <1>1, <1>2, <1>3 DEF UserStep

LEMMA ProgressSelf ==
    ASSUME Types, AllPlaced, Held, Lists, FinalProgress, NEW u \in Users, UserStep(u),
           user'[u].pc \in {"unused", "closeDs", "removeOpen"}
    PROVE  Progress(u)'
<1>1. FinalClose(u) \/ NoteUnused(u) \/ CloseDs(u) \/ RemoveOpenStmt(u)
  BY FinalFrom
<1>2. CASE FinalClose(u)
  BY <1>2, CloseMoves, CssKept DEF Progress, Moves
<1>3. CASE NoteUnused(u)
  <2>0. u \in Finalizers /\ user[u].pc = "unused" /\ Progress(u)
    BY <1>3, CloseGuards DEF Finalizers, FinalProgress, Progress
  <2>1. PICK d \in Ids : d = user'[u].ds /\ d \in user[u].todo /\ ds[d].dc \in Conns
    BY <1>3, <2>0, WorksOn, CloseMoves
  <2>2. UNCHANGED ds /\ stmt'.css = stmt.css /\ stmt.css \subseteq Ids
    BY <1>3, StmtKept, DsKept DEF Lists
  <2>3. \A x \in stmt.css : Gone(x) => Gone(x)'
    BY <2>2, GoneStays
  <2>4. PICK c \in Conns : c = ds[d].dc
    BY <2>1
  <2>5. CASE CloseNow(c, d) /\ UNCHANGED conn /\ Moves(u, "closeDs", {"ds"})
    BY <2>0, <2>1, <2>2, <2>3, <2>4, <2>5 DEF CloseNow, Progress, Moves
  <2>6. CASE ~CloseNow(c, d) /\ conn' = PutOff(c, d) /\ Moves(u, "removeOpen", {"ds"})
    <3>1. Gone(d)'
      <4>1. CASE conn[c].inUse
        BY <2>2, <2>4, <2>6, <4>1, PutOffAlters DEF Gone
      <4>2. CASE ~conn[c].inUse
        <5>1. conn[c].pc \in {"final", "gone"} /\ d \in stmt.css
          BY <2>0, <2>1, <2>6, <4>2 DEF CloseNow, Progress
        <5> QED  BY <2>2, <2>4, <4>2, <5>1, LeftBehind DEF Gone
      <4> QED  BY <4>1, <4>2
    <3> QED  BY <2>0, <2>1, <2>2, <2>3, <2>6, <3>1 DEF Progress, Moves
  <2>7. \/ CloseNow(c, d) /\ UNCHANGED conn /\ Moves(u, "closeDs", {"ds"})
        \/ ~CloseNow(c, d) /\ conn' = PutOff(c, d) /\ Moves(u, "removeOpen", {"ds"})
    BY <1>3, <2>1, <2>4, CloseMoves
  <2> QED  BY <2>5, <2>6, <2>7
<1>4. CASE CloseDs(u)
  <2>0. u \in Finalizers /\ user[u].pc = "closeDs" /\ Progress(u)
    BY <1>4, CloseGuards DEF Finalizers, FinalProgress, Progress
  <2>1. Moves(u, "removeOpen", {}) /\ stmt'.css = stmt.css /\ stmt.css \subseteq Ids
    BY <1>4, StmtKept, CloseMoves DEF Lists
  <2>2. \A x \in stmt.css : Gone(x) => Gone(x)'
    BY <2>1, GoneStays
  <2>3. PICK d \in Ids : d = user[u].ds
    BY <2>0, <2>1 DEF Progress
  <2>4. Gone(d)'
    BY <1>4, <2>3, ClosedGrown DEF CloseDs, Gone
  <2> QED  BY <2>0, <2>1, <2>2, <2>3, <2>4 DEF Progress, Moves
<1>5. CASE RemoveOpenStmt(u)
  <2>0. u \in Finalizers /\ user[u].pc = "removeOpen" /\ Progress(u)
    BY <1>5, CloseGuards DEF Finalizers, FinalProgress, Progress
  <2>1. /\ Moves(u, "unused", {"todo"}) /\ user'[u].todo = user[u].todo \ {user[u].ds}
        /\ stmt'.css = stmt.css /\ stmt.css \subseteq Ids
    BY <1>5, StmtKept, CloseMoves DEF Lists
  <2>2. \A x \in stmt.css : Gone(x) => Gone(x)'
    BY <2>1, GoneStays
  <2> QED  BY <2>0, <2>1, <2>2 DEF Progress, Moves
<1> QED  BY <1>1, <1>2, <1>3, <1>4, <1>5

LEMMA FinalProgressUser ==
    ASSUME Types, AllPlaced, Held, Locks, Lists, FinalProgress, NEW u \in Users, UserStep(u)
    PROVE  FinalProgress'
<1>1. \A v \in Users \ {u} : user'[v] = user[v]
  BY OneMoves
<1>2. \A w \in Finalizers' : Progress(w)'
  BY <1>1, ProgressOthers, ProgressSelf DEF Finalizers
<1> QED  BY <1>2 DEF FinalProgress, Progress

LEMMA FinalProgressConn ==
    ASSUME Types, Lists, FinalProgress, NEW c \in Conns, ConnStep(c)
    PROVE  FinalProgress'
<1>1. /\ UNCHANGED stmt /\ UNCHANGED user /\ Finalizers' = Finalizers
      /\ stmt.css \subseteq Ids /\ Grown /\ \A d \in Ids : ds[d].dc \in Conns
  BY ConnLeaves, ConnGrown, OnConns DEF Finalizers, Lists
<1>2. \A d \in Ids : Gone(d) => Gone(d)'
  BY GoneStaysConn
<1>3. \A x \in Conns : conn'[x].inUse = conn[x].inUse
  BY ConnShut
<1>4. ASSUME NEW w \in Finalizers PROVE Progress(w)'
  <2>1. Progress(w)
    BY DEF FinalProgress, Progress
  <2>2. PICK d : d = user[w].ds
    OBVIOUS
  <2> QED  BY <1>1, <1>2, <1>3, <2>1, <2>2 DEF Grown, Progress
<1> QED  BY <1>1, <1>4 DEF FinalProgress, Progress

-----------------------------------------------------------------------------
(* What is open is remembered, and somebody will close it *)

\* Why an open driver statement of a connection is not forgotten.
Claims(u, d) ==
    \/ user[u].txs = "own" /\ user[u].txds = d
    \/ user[u].dc = ds[d].dc /\ user[u].pc = "put" /\ user[u].bad
Minded(d) ==
    Gone(d) \/ conn[ds[d].dc].pc # "open" \/ d \in stmt.css \/ \E u \in Users : Claims(u, d)

LEMMA RememberedParts == Remembered <=> \A d \in Ids : Minded(d)
BY DEF Remembered, Minded, Claims

\* No connection of a driver statement is opened again.
LEMMA NotReopened ==
    ASSUME Types, AllPlaced, Held, Lists, FinalProgress, NEW u \in Users, UserStep(u),
           NEW d \in Ids, conn[ds[d].dc].pc # "open"
    PROVE  conn'[ds'[d].dc].pc # "open"
<1>1. ds[d].dc \in Conns /\ ds'[d].dc = ds[d].dc
  BY DataUser, DataGrown, OnConns DEF Grown
<1>2. conn[ds[d].dc].pc \in Shut
  BY <1>1 DEF Lists, Types, ConnType
<1>3. PICK c \in Conns : c = ds[d].dc
  BY <1>1
<1> QED  BY <1>1, <1>2, <1>3, ShutStays DEF Shut

\* What leaves the list is on a connection that was closed, or was dealt with.
LEMMA LeavesCss ==
    ASSUME Types, AllPlaced, Lists, FinalProgress, NEW u \in Users, UserStep(u),
           NEW d \in stmt.css, d \notin stmt'.css
    PROVE  (Gone(d) \/ conn[ds[d].dc].pc # "open") /\ d \in Ids
<1>0. Data(u) /\ d \in Ids
  BY DataUser DEF Lists
<1>1. CASE Sweeps(u)
  BY <1>0, <1>1 DEF Sweeps, Remaining, DbmuClosed
<1>2. CASE Empties(u)
  BY <1>0, <1>2 DEF Empties, Finalizers, FinalProgress
<1>3. CASE ~Sweeps(u) /\ ~Empties(u)
  BY <1>0, <1>3 DEF Data, Keeps, Takes, Prepares, PreparesOwn, ClosesOwn, Puts, PutsOff,
     ClosesListed, Removes
<1> QED  BY <1>1, <1>2, <1>3

\* What a transaction prepared alone is its own until it closes it or ends.
LEMMA OwnKept ==
    ASSUME Types, AllPlaced, NEW u \in Users, UserStep(u), ~TxClose(u), ~TxEnd(u),
           user[u].txs = "own"
    PROVE  user'[u].txs = "own" /\ user'[u].txds = user[u].txds
<1>0. Placed(u)
  BY DEF AllPlaced
<1>1. CASE CallStep(u)
  <2>1. StartCall(u) /\ ~user[u].tx
    BY <1>0, <1>1, CallGuards, NoTxs DEF CallStep, Placed
  <2> QED  BY <1>0, <2>1 DEF Placed
<1>2. CASE Undep(u) \/ AllUnused(u)
  <2>1. user[u].op = "close"
    BY <1>0, <1>2, CloseGuards DEF Placed, Finals
  <2>2. Moves(u, "panic", {}) \/ Moves(u, "final", {}) \/ Set(u, Done(u))
    BY <1>2, CloseMoves, CloseGuards
  <2> QED  BY <2>1, <2>2, DoneMoves DEF Moves
<1>3. CASE CloseStep(u) /\ ~Undep(u) /\ ~AllUnused(u)
  BY <1>3, CloseMoves DEF CloseStep, Moves
<1>4. CASE TxStep(u)
  <2>1. Begin(u) /\ ~user[u].tx
    BY <1>0, <1>4, TxGuards DEF TxStep, Placed, TxPcs
  <2> QED  BY <1>0, <2>1 DEF Placed
<1> QED  BY <1>1, <1>2, <1>3, <1>4 DEF UserStep

\* Who claims a driver statement goes on claiming it, or has closed it or its
\* connection.
LEMMA ClaimsStay ==
    ASSUME Types, AllPlaced, Held, Lists, InHand, FinalProgress, NEW u \in Users, UserStep(u),
           NEW d \in Ids, Claims(u, d)
    PROVE  Claims(u, d)' \/ Gone(d)' \/ conn'[ds'[d].dc].pc # "open"
<1>0. Placed(u) /\ Grown /\ ds[d].dc \in Conns /\ ds'[d].dc = ds[d].dc
  BY DataUser, DataGrown, OnConns DEF AllPlaced, Grown
<1>1. CASE user[u].dc = ds[d].dc /\ user[u].pc = "put" /\ user[u].bad
  <2>1. Put(u)
    BY <1>1, CallGuards, CloseGuards, TxGuards DEF UserStep, CallStep, CloseStep, TxStep
  <2>2. conn'[user[u].dc].pc = "closed"
    BY <1>0, <1>1, <2>1, PutAlters
  <2> QED  BY <1>0, <1>1, <2>2
<1>2. CASE user[u].txs = "own" /\ user[u].txds = d
  <2>0. user[u].dc = ds[d].dc
    BY <1>2 DEF InHand, Mine, On
  <2>1. CASE TxClose(u)
    <3>1. ds' = CloseAll({d})
      BY <1>2, <2>1, TxMoves
    <3> QED  BY <3>1, ClosedGrown DEF Gone
  <2>2. CASE TxEnd(u)
    <3>1. \/ Moves(u, "put", {"op", "bad", "txs"}) /\ user'[u].bad
          \/ ds' = CloseAll({d})
      BY <1>2, <2>2, TxMoves
    <3>2. CASE ds' = CloseAll({d})
      BY <3>2, ClosedGrown DEF Gone
    <3>3. CASE Moves(u, "put", {"op", "bad", "txs"}) /\ user'[u].bad
      BY <1>0, <2>0, <3>3 DEF Moves, Claims
    <3> QED  BY <3>1, <3>2, <3>3
  <2>3. CASE ~TxClose(u) /\ ~TxEnd(u)
    <3>1. user'[u].txs = "own" /\ user'[u].txds = user[u].txds
      BY <1>2, <2>3, OwnKept
    <3> QED  BY <1>2, <3>1 DEF Claims
  <2> QED  BY <2>1, <2>2, <2>3
<1> QED  BY <1>1, <1>2 DEF Claims

LEMMA RememberedUser ==
    ASSUME Types, AllPlaced, Held, Lists, InHand, FinalProgress, Remembered, NEW u \in Users, UserStep(u)
    PROVE  Remembered'
<1>0. Data(u) /\ Grown
  BY DataUser, DataGrown
<1>1. ASSUME NEW d \in Ids PROVE Minded(d)'
  <2>0. Minded(d) /\ ds'[d].dc = ds[d].dc
    BY <1>0, RememberedParts DEF Grown
  <2>1. Gone(d) => Gone(d)'
    BY GoneStays
  <2>2. conn[ds[d].dc].pc # "open" => conn'[ds'[d].dc].pc # "open"
    BY NotReopened
  <2>3. d \in stmt.css => d \in stmt'.css \/ Gone(d) \/ conn[ds[d].dc].pc # "open"
    BY LeavesCss
  <2>4. ASSUME NEW v \in Users, Claims(v, d)
        PROVE  Claims(v, d)' \/ Gone(d)' \/ conn'[ds'[d].dc].pc # "open"
    <3>1. CASE v = u
      BY <2>4, <3>1, ClaimsStay
    <3>2. CASE v # u
      BY <2>0, <2>4, <3>2, OneMoves DEF Claims
    <3> QED  BY <3>1, <3>2
  <2> QED  BY <2>0, <2>1, <2>2, <2>3, <2>4 DEF Minded
<1>2. ASSUME NEW d \in Ids' \ Ids PROVE Minded(d)'
  <2>1. CASE \E c \in Conns : Prepares(u, c)
    BY <1>2, <2>1, PreparedGrown DEF Prepares, Minded
  <2>2. CASE \E c \in Conns : PreparesOwn(u, c)
    BY <1>2, <2>2, PreparedGrown DEF PreparesOwn, Minded, Claims
  <2>3. CASE UNCHANGED ds
    BY <1>2, <2>3 DEF Ids
  <2>4. CASE \E ids : ds' = CloseAll(ids)
    BY <1>2, <2>4, ClosedGrown
  <2> QED  BY <1>0, <2>1, <2>2, <2>3, <2>4 DEF Data, Keeps, Takes, ClosesOwn, Puts, PutsOff,
              ClosesListed, Removes, Sweeps, Empties
<1>3. \A d \in Ids' : Minded(d)'
  BY <1>1, <1>2
<1> QED  BY <1>3 DEF Remembered, Minded, Claims

LEMMA RememberedConn ==
    ASSUME Types, Remembered, NEW c \in Conns, ConnStep(c)
    PROVE  Remembered'
<1>0. /\ Grown /\ Ids' = Ids /\ UNCHANGED stmt /\ UNCHANGED user
      /\ \A d \in Ids : ds[d].dc \in Conns
  BY ConnGrown, ConnLeaves, OnConns
<1>1. \A x \in Conns : conn'[x].pc = "open" => conn[x].pc = "open"
  BY ConnShut DEF Shut
<1>2. ASSUME NEW d \in Ids PROVE Minded(d)'
  <2>1. Minded(d) /\ ds'[d].dc = ds[d].dc
    BY <1>0, RememberedParts DEF Grown
  <2>2. Gone(d) => Gone(d)'
    BY GoneStaysConn
  <2> QED  BY <1>0, <1>1, <2>1, <2>2 DEF Minded, Claims
<1>3. \A d \in Ids' : Minded(d)'
  BY <1>0, <1>2
<1> QED  BY <1>3 DEF Remembered, Minded, Claims

LEMMA EmptiedUser ==
    ASSUME Types, AllPlaced, Locks, ClosedStays, Depends, Lists, FinalProgress, Emptied,
           NEW u \in Users, UserStep(u)
    PROVE  Emptied'
<1> SUFFICES ASSUME dep' = {}, stmt'.css # {}
             PROVE  \E v \in Users : user'[v].pc \in Finals \cup {"txDep"}
  BY DEF Emptied
<1>0. ~AllUnused(u)
  BY FinalGoesOn, CloseGuards DEF Finals
<1>1. CASE Undep(u)
  <2>1. Moves(u, "final", {})
    BY <1>1, CloseMoves, FindsToken
  <2> QED  BY <2>1 DEF Moves, Finals
<1>2. CASE TxDep(u)
  BY <1>2 DEF TxDep
<1>3. CASE ~Undep(u) /\ ~TxDep(u)
  <2>1. dep = {}
    <3>1. CASE Run(u)
      BY <3>1, CallMoves DEF Run
    <3>2. CASE ~Run(u)
      BY <1>3, <3>2, DepKept
    <3> QED  BY <3>1, <3>2
  <2>2. stmt.closed
    BY <2>1 DEF Depends
  <2>3. CASE stmt.css # {}
    <3>1. PICK v \in Users : user[v].pc \in Finals \cup {"txDep"}
      BY <2>1, <2>3 DEF Emptied
    <3>2. CASE v # u
      BY <3>1, <3>2, OneMoves
    <3>3. CASE v = u
      <4>1. user[u].pc \in Finals
        BY <1>3, <3>1, <3>3, CallGuards, CloseGuards, TxGuards
           DEF UserStep, CallStep, CloseStep, TxStep
      <4> QED  BY <1>0, <4>1, FinalGoesOn DEF Finals
    <3> QED  BY <3>2, <3>3
  <2>4. CASE stmt.css = {}
    <3>1. PICK c \in Conns : Prepares(u, c)
      BY <2>4, DataUser DEF Data, Keeps, Takes, PreparesOwn, ClosesOwn, Puts, PutsOff,
         ClosesListed, Removes, Sweeps, Empties, Remaining
    <3>2. user[u].pc = "txShare"
      BY <2>2, <3>1 DEF Prepares, ClosedStays
    <3>3. TxShare(u)
      BY <3>2, CallGuards, CloseGuards, TxGuards DEF UserStep, CallStep, CloseStep, TxStep
    <3>4. Moves(u, "txDep", {"ds"}) \/ UNCHANGED stmt
      BY <3>3, TxMoves, PrepareMoves DEF UserPcs, TxPcs
    <3> QED  BY <2>4, <3>4 DEF Moves
  <2> QED  BY <2>3, <2>4
<1> QED  BY <1>1, <1>2, <1>3

LEMMA EmptiedConn ==
    ASSUME Emptied, NEW c \in Conns, ConnStep(c)
    PROVE  Emptied'
<1>1. UNCHANGED stmt /\ UNCHANGED dep /\ UNCHANGED user
  BY ConnLeaves
<1> QED  BY <1>1 DEF Emptied

-----------------------------------------------------------------------------
(* How many connections of the list are closed for good *)

Seen == \A u \in Users : user[u].pc = "sweep" => user[u].seen <= pool.numClosed

\* A step of a goroutine makes no connection stale, and a sweep leaves none.
LEMMA StaleShrinks ==
    ASSUME Types, AllPlaced, Held, Lists, FinalProgress, NEW u \in Users, UserStep(u)
    PROVE  Stale' \subseteq Stale /\ (Sweep(u) => Stale' = {})
<1>0. Data(u) /\ Grown /\ stmt.css \subseteq Ids /\ Types
  BY DataUser, DataGrown DEF Lists
<1>1. ASSUME Sweep(u) PROVE Stale' = {}
  BY <1>1, StmtUpdates, DataKept DEF Stale, Listed, Remaining, DbmuClosed
<1>2. ASSUME NEW c \in Conns, conn'[c].pc = "gone" PROVE conn[c].pc = "gone"
  <2>1. \A x \in Conns : Puts(u, x) => conn[x].pc = "open"
    BY HeldOpen DEF Puts
  <2> QED  BY <1>0, <1>2, <2>1 DEF Data, Keeps, Takes, Prepares, PreparesOwn, ClosesOwn, Puts, PutsOff,
              ClosesListed, Removes, Sweeps, Empties, Alters
<1>3. ASSUME NEW c \in Conns, conn[c].pc = "gone", Listed(c)' # {} PROVE Listed(c) # {}
  <2>1. PICK d \in stmt'.css : ds'[d].dc = c
    BY <1>3 DEF Listed
  <2>2. CASE d \in stmt.css
    BY <1>0, <2>1, <2>2 DEF Grown, Listed
  <2>3. CASE d \notin stmt.css
    <3>1. PICK x \in Conns : Prepares(u, x) /\ d = Len(ds) + 1
      BY <1>0, <2>1, <2>3 DEF Data, Keeps, Takes, Prepares, PreparesOwn, ClosesOwn, Puts, PutsOff,
         ClosesListed, Removes, Sweeps, Empties, Remaining
    <3>2. x = c /\ conn[x].pc = "open"
      BY <2>1, <3>1, PreparedGrown, HeldOpen DEF Prepares
    <3> QED  BY <1>3, <3>2
  <2> QED  BY <2>2, <2>3
<1>4. ASSUME NEW c \in Conns, conn'[c].pc = "gone", Listed(c)' # {} PROVE c \in Stale
  BY <1>2, <1>3, <1>4 DEF Stale
<1> QED  BY <1>1, <1>4 DEF Stale

\* How a sweep is come to, and what else it leaves alone.
LEMMA SweepFrom ==
    ASSUME Types, NEW u \in Users, UserStep(u), user'[u].pc = "sweep"
    PROVE  user'[u].seen = pool.numClosed
<1>1. CASE CallStep(u)
  <2>1. CASE Put(u) \/ PutBad(u)
    <3>1. Moves(u, "closing", {}) \/ Set(u, AfterPut(u))
      BY <2>1, CallMoves DEF PutBad
    <3> QED  BY <3>1, AfterPutMoves DEF Moves
  <2>2. CASE Prepare(u)
    BY <2>2, CallMoves, PrepareMoves DEF Moves, UserPcs, CallPcs
  <2>3. CASE ~Put(u) /\ ~PutBad(u) /\ ~Prepare(u)
    BY <1>1, <2>3, CallMoves DEF CallStep, Moves
  <2> QED  BY <2>1, <2>2, <2>3
<1>2. CASE CloseStep(u)
  <2>1. CASE Undep(u)
    <3>1. Moves(u, "panic", {}) \/ Moves(u, "final", {}) \/ Set(u, Done(u))
      BY <2>1, CloseMoves
    <3> QED  BY <3>1, DoneMoves DEF Moves
  <2>2. CASE AllUnused(u)
    BY <2>2, CloseGuards, DoneMoves DEF Moves
  <2>3. CASE NoteUnused(u)
    BY <2>3, PoolUpdates
  <2>4. CASE ~Undep(u) /\ ~AllUnused(u) /\ ~NoteUnused(u)
    BY <1>2, <2>4, CloseMoves DEF CloseStep, Moves
  <2> QED  BY <2>1, <2>2, <2>3, <2>4
<1>3. CASE TxStep(u)
  <2>1. CASE TxShare(u)
    <3>1. Moves(u, "txDep", {"ds"}) \/ Moves(u, "idle", {})
      BY <2>1, TxMoves, PrepareMoves DEF UserPcs, TxPcs
    <3> QED  BY <3>1 DEF Moves
  <2>2. CASE ~TxShare(u)
    BY <1>3, <2>2, TxMoves DEF TxStep, Moves
  <2> QED  BY <2>1, <2>2
<1> QED  BY <1>1, <1>2, <1>3 DEF UserStep

LEMMA LastKept ==
    ASSUME Types, NEW u \in Users, UserStep(u), ~Sweep(u)
    PROVE  stmt'.lastNumClosed = stmt.lastNumClosed
<1>1. CASE Prepare(u)
  BY <1>1, CallMoves, StmtUpdates DEF Updates
<1>2. CASE TxShare(u)
  BY <1>2, TxMoves, StmtUpdates DEF Updates
<1>3. CASE CloseStmt(u)
  BY <1>3, StmtUpdates DEF Updates
<1>4. CASE ~Prepare(u) /\ ~TxShare(u) /\ ~CloseStmt(u)
  BY <1>4, StmtUpdates, StmtKept DEF Updates, UserStep, CallStep, CloseStep, TxStep
<1> QED  BY <1>1, <1>2, <1>3, <1>4

LEMMA SweptUser ==
    ASSUME Types, AllPlaced, Held, Lists, FinalProgress, Swept, NEW u \in Users, UserStep(u)
    PROVE  Swept'
<1>0. /\ pool.numClosed \in Nat /\ stmt.lastNumClosed \in Nat
      /\ pool'.numClosed = pool.numClosed
  <2>1. pool'.numClosed = pool.numClosed
    BY PoolUpdates
  <2> QED  BY <2>1 DEF Types, StmtType
<1>1. Seen'
  <2>1. user'[u].pc = "sweep" => user'[u].seen = pool.numClosed
    BY SweepFrom
  <2> QED  BY <1>0, <2>1, OneMoves DEF Swept, Seen
<1>2. IsFiniteSet(Stale') /\ Cardinality(Stale') <= Cardinality(Stale) /\ Cardinality(Stale') \in Nat
      /\ Cardinality(Stale) \in Nat
  BY StaleShrinks, FS_Subset, FS_CardinalityType DEF Swept
<1>3. CASE Sweep(u)
  <2>1. stmt'.lastNumClosed = user[u].seen /\ user[u].seen \in Nat /\ user[u].seen <= pool.numClosed
    BY <1>3, StmtUpdates, CallGuards DEF Swept, Types, UserType
  <2>2. Cardinality(Stale') = 0
    BY <1>3, StaleShrinks, FS_EmptySet
  <2>3. stmt'.lastNumClosed <= pool'.numClosed /\ 0 <= pool'.numClosed - stmt'.lastNumClosed
    BY <1>0, <2>1
  <2> QED  BY <1>1, <1>2, <2>2, <2>3 DEF Swept, Seen
<1>4. CASE ~Sweep(u)
  <2>1. stmt'.lastNumClosed = stmt.lastNumClosed
    BY <1>4, LastKept
  <2>2. PICK m \in Nat, n \in Nat : m = pool.numClosed /\ n = stmt.lastNumClosed
    BY <1>0
  <2>3. n <= m /\ Cardinality(Stale) <= m - n
    BY <2>2 DEF Swept
  <2>4. Cardinality(Stale') <= m - n
    BY <1>2, <2>3
  <2> QED  BY <1>0, <1>1, <1>2, <2>1, <2>2, <2>3, <2>4 DEF Swept, Seen
<1> QED  BY <1>3, <1>4

LEMMA SweptConn ==
    ASSUME Types, Lists, Swept, NEW c \in Conns, ConnStep(c)
    PROVE  Swept'
<1>0. /\ UNCHANGED stmt /\ UNCHANGED user /\ Grown /\ stmt.css \subseteq Ids
      /\ pool.numClosed \in Nat /\ stmt.lastNumClosed \in Nat
      /\ \A u \in Users : user[u].seen \in Nat
  BY ConnLeaves, ConnGrown DEF Lists, Types, StmtType, UserType
<1>1. \A x \in Conns : Listed(x)' = Listed(x)
  BY <1>0 DEF Grown, Listed
<1>2. \A x \in Conns \ {c} : conn'[x] = conn[x]
  BY ConnShut
<1>3. CASE CountClosed(c)
  <2>1. pool'.numClosed = pool.numClosed + 1
    BY <1>3 DEF CountClosed, Types
  <2>2. Stale' \subseteq Stale \cup {c}
    BY <1>1, <1>2 DEF Stale
  <2>3. /\ IsFiniteSet(Stale \cup {c}) /\ Cardinality(Stale) \in Nat
        /\ Cardinality(Stale \cup {c}) <= Cardinality(Stale) + 1
    <3>1. IsFiniteSet(Stale)
      BY DEF Swept
    <3>2. /\ IsFiniteSet(Stale \cup {c}) /\ Cardinality(Stale) \in Nat
          /\ Cardinality(Stale \cup {c}) = IF c \in Stale THEN Cardinality(Stale) ELSE Cardinality(Stale) + 1
      BY <3>1, FS_AddElement, FS_CardinalityType
    <3> QED  BY <3>2
  <2>4. /\ IsFiniteSet(Stale') /\ Cardinality(Stale') <= Cardinality(Stale \cup {c})
        /\ Cardinality(Stale') \in Nat /\ Cardinality(Stale \cup {c}) \in Nat
    BY <2>2, <2>3, FS_Subset, FS_CardinalityType
  <2>5. PICK m \in Nat, n \in Nat : m = pool.numClosed /\ n = stmt.lastNumClosed
    BY <1>0
  <2>6. n <= m /\ Cardinality(Stale) <= m - n
    BY <2>5 DEF Swept
  <2>7. Cardinality(Stale') <= (m + 1) - n /\ n <= m + 1
    BY <2>3, <2>4, <2>6
  <2>8. \A u \in Users : user[u].pc = "sweep" => user[u].seen <= m + 1
    BY <1>0, <2>5 DEF Swept
  <2> QED  BY <1>0, <2>1, <2>4, <2>5, <2>7, <2>8 DEF Swept
<1>4. CASE ~CountClosed(c)
  <2>1. UNCHANGED pool
    BY <1>4 DEF ConnStep, Expire, MarkClosed, ListOpen, CloseOpen, FinalClosed
  <2>2. conn'[c].pc # "gone"
    BY <1>4, CloseAlters DEF ConnStep, Alters
  <2>3. Stale' \subseteq Stale
    BY <1>1, <1>2, <2>2 DEF Stale
  <2>4. /\ IsFiniteSet(Stale') /\ Cardinality(Stale') <= Cardinality(Stale)
        /\ Cardinality(Stale') \in Nat /\ Cardinality(Stale) \in Nat
    BY <2>3, FS_Subset, FS_CardinalityType DEF Swept
  <2>5. PICK m \in Nat, n \in Nat : m = pool.numClosed /\ n = stmt.lastNumClosed
    BY <1>0
  <2>6. n <= m /\ Cardinality(Stale) <= m - n
    BY <2>5 DEF Swept
  <2>7. Cardinality(Stale') <= m - n
    BY <2>4, <2>6
  <2> QED  BY <1>0, <2>1, <2>4, <2>5, <2>6, <2>7 DEF Swept
<1> QED  BY <1>3, <1>4

-----------------------------------------------------------------------------
(* The invariant *)

LEMMA StInit ==
    ASSUME Init
    PROVE  StInv
<1>1. PICK c \in Conns :
        /\ conn = [x \in Conns |-> [pc |-> IF x = c THEN "open" ELSE "none", inUse |-> FALSE, onPut |-> {},
                                    openStmt |-> IF x = c THEN {1} ELSE {}, todo |-> {}]]
        /\ ds = <<[dc |-> c, closed |-> FALSE, late |-> FALSE]>>
  BY DEF Init
<1>2. /\ \A x \in Conns : /\ conn[x].pc = (IF x = c THEN "open" ELSE "none") /\ ~conn[x].inUse
                          /\ conn[x].onPut = {} /\ conn[x].todo = {}
                          /\ conn[x].openStmt = IF x = c THEN {1} ELSE {}
      /\ conn \in [Conns -> ConnType]
  BY <1>1 DEF ConnType
<1>3. /\ ds \in Seq(DsType) /\ Ids = {1} /\ ds[1].dc = c /\ ~ds[1].closed /\ ~ds[1].late
  BY <1>1 DEF DsType, Ids
<1>4. /\ stmt.css = {1} /\ ~stmt.closed /\ stmt.lastNumClosed = 0 /\ stmt.readers = {}
      /\ stmt.writer = None /\ stmt.mu = None /\ stmt \in StmtType /\ dep = {Own}
      /\ pool.numClosed = 0 /\ pool.mu = None /\ pool \in [numClosed : Nat, mu : Users \cup {None}]
  BY DEF Init, StmtType
<1>5. /\ \A u \in Users : /\ user[u].pc = "idle" /\ user[u].op = "exec" /\ user[u].dc = None
                          /\ ~user[u].tx /\ user[u].txs = "none"
      /\ user \in [Users -> UserType]
  BY DEF Init, UserType, UserPcs, Ops
<1>6. Types
  BY <1>2, <1>3, <1>4, <1>5 DEF Types, Tokens
<1>7. AllPlaced
  BY <1>5 DEF AllPlaced, Placed, TxPcs, Finals
<1>8. Held
  BY <1>2, <1>5 DEF Held
<1>9. Locks /\ Finalizers = {}
  BY <1>4, <1>5 DEF Locks, Inside, Closing, Finalizers, Finals
<1>10. ClosedStays
  BY <1>4 DEF ClosedStays
<1>11. Depends
  <2>1. \A u : Own # <<u, "rows">> /\ Own # <<u, "tx">>
    BY TokensDiffer
  <2>2. \A u \in Users : user[u].pc \notin {"undep", "rows", "put", "closing"} \cup Finals
    BY <1>5 DEF Finals
  <2>3. \A u \in Users : user[u].txs # "parent"
    BY <1>5
  <2> QED  BY <1>4, <2>1, <2>2, <2>3 DEF Depends
<1>12. Lists
  BY <1>2, <1>3, <1>4 DEF Lists, On
<1>13. CssUsable
  BY <1>2, <1>3, <1>4 DEF CssUsable
<1>14. InHand
  BY <1>5 DEF InHand
<1>15. FinalProgress
  BY <1>9 DEF FinalProgress
<1>16. Remembered
  BY <1>3, <1>4 DEF Remembered
<1>17. Emptied
  BY <1>4 DEF Emptied
<1>18. Swept
  <2>1. Stale = {}
    BY <1>2 DEF Stale
  <2>2. IsFiniteSet(Stale) /\ Cardinality(Stale) = 0
    BY <2>1, FS_EmptySet
  <2> QED  BY <1>4, <1>5, <2>2 DEF Swept
<1>19. ClosedInTime
  BY <1>3, <1>5 DEF ClosedInTime, Ids
<1> QED  BY <1>6, <1>7, <1>8, <1>9, <1>10, <1>11, <1>12, <1>13, <1>14, <1>15, <1>16, <1>17, <1>18, <1>19
         DEF StInv

LEMMA InTimeParts == ClosedInTime <=> NotLate /\ NoPanic
BY DEF ClosedInTime, NotLate, NoPanic, Ids

LEMMA StUser ==
    ASSUME StInv, NEW u \in Users, UserStep(u)
    PROVE  StInv'
<1> USE DEF StInv
<1>1. Types'
  BY CallTypes, CloseTypes, TxTypes DEF UserStep
<1>2. AllPlaced' /\ Held' /\ Locks'
  BY PlacedNext, HeldUser, LocksUser
<1>3. ClosedStays' /\ Depends' /\ Lists'
  BY ClosedStaysUser, DependsUser, ListsUser
<1>4. CssUsable' /\ InHand' /\ FinalProgress'
  BY CssUsableUser, InHandUser, FinalProgressUser
<1>5. Remembered' /\ Emptied' /\ Swept'
  BY RememberedUser, EmptiedUser, SweptUser
<1>6. NotLate /\ NoPanic
  BY InTimeParts
<1>7. NotLate' /\ NoPanic'
  BY <1>6, InTimeUser, PanicUser
<1>8. ClosedInTime'
  BY <1>7 DEF ClosedInTime, NotLate, NoPanic, Ids
<1> QED  BY <1>1, <1>2, <1>3, <1>4, <1>5, <1>8

LEMMA StConn ==
    ASSUME StInv, NEW c \in Conns, ConnStep(c)
    PROVE  StInv'
<1> USE DEF StInv
<1>0. UNCHANGED stmt /\ UNCHANGED dep /\ UNCHANGED user
  BY ConnLeaves
<1>1. Types' /\ AllPlaced'
  BY <1>0, ConnTypes DEF AllPlaced, Placed
<1>2. Held' /\ Locks' /\ ClosedStays' /\ Depends'
  BY HeldConn, LocksConn, ClosedStaysConn, DependsConn
<1>3. Lists' /\ CssUsable' /\ InHand' /\ FinalProgress'
  BY ListsConn, CssUsableConn, InHandConn, FinalProgressConn
<1>4. Remembered' /\ Emptied' /\ Swept'
  BY RememberedConn, EmptiedConn, SweptConn
<1>5. NotLate /\ NoPanic
  BY InTimeParts
<1>6. NotLate' /\ NoPanic'
  BY <1>0, <1>5, InTimeConn DEF NoPanic
<1>7. ClosedInTime'
  BY <1>6 DEF ClosedInTime, NotLate, NoPanic, Ids
<1> QED  BY <1>1, <1>2, <1>3, <1>4, <1>7

LEMMA StStutters ==
    ASSUME StInv, UNCHANGED vars
    PROVE  StInv'
<1>1. /\ UNCHANGED stmt /\ UNCHANGED dep /\ UNCHANGED ds /\ UNCHANGED conn
      /\ UNCHANGED pool /\ UNCHANGED user
  BY DEF vars
<1>2. Types' /\ AllPlaced' /\ Held' /\ ClosedStays' /\ Depends'
  BY <1>1 DEF StInv, Types, AllPlaced, Placed, Held, ClosedStays, Depends
<1>3. Locks' /\ Finalizers' = Finalizers
  BY <1>1 DEF StInv, Locks, Inside, Closing, Finalizers
<1>4. Lists' /\ InHand' /\ Emptied'
  BY <1>1 DEF StInv, Lists, InHand, Mine, On, Ids, Emptied
<1>5. CssUsable' /\ FinalProgress'
  BY <1>1, <1>3 DEF StInv, CssUsable, FinalProgress, Gone
<1>6. Remembered'
  BY <1>1 DEF StInv, Remembered, Gone, Ids
<1>7. Swept' /\ ClosedInTime'
  BY <1>1 DEF StInv, Swept, Stale, Listed, ClosedInTime
<1> QED  BY <1>2, <1>3, <1>4, <1>5, <1>6, <1>7 DEF StInv

\* The inductive invariant of the statement.
LEMMA StAlways == Spec => []StInv
<1>1. Init => StInv
  BY StInit
<1>2. StInv /\ [Next]_vars => StInv'
  BY StUser, StConn, StStutters DEF Next, UserStep
<1> QED  BY <1>1, <1>2, PTL DEF Spec

-----------------------------------------------------------------------------
(* Theorems *)

\* A driver statement that is executed, whose rows are read, or that a transaction
\* has adopted, stays open on the open connection of its goroutine, however others
\* close the statement, the connections, or sweep css meanwhile (Stmt.connStmt,
\* Tx.StmtContext, noteUnusedDriverStatement, driverConn.finalClose).
THEOREM UsableAlways == Spec => []UsableWhenUsed
<1>1. ASSUME StInv PROVE UsableWhenUsed
  <2>1. ASSUME NEW u \in Users, NEW d, Mine(u, d), user[u].dc \in Conns, user[u].pc # "closing"
        PROVE  ds[d].dc = user[u].dc /\ ~ds[d].closed /\ conn[user[u].dc].pc = "open"
    BY <1>1, <2>1, HeldOpen DEF StInv, Mine, On
  <2>2. \A u \in Users :
          /\ user[u].pc \in {"run", "rows"} => Mine(u, user[u].ds)
          /\ user[u].txs # "none" => Mine(u, user[u].txds)
    BY <1>1 DEF StInv, InHand
  <2>3. \A u \in Users : user[u].pc \in {"run", "rows"} \/ user[u].txs # "none" =>
                            user[u].dc \in Conns /\ user[u].pc # "closing"
    BY <1>1, KeepsHaving DEF StInv
  <2> QED  BY <2>1, <2>2, <2>3 DEF UsableWhenUsed
<1> QED  BY <1>1, StAlways, PTL

\* Once the statement is closed and no goroutine uses it, nothing depends on it but
\* transactions that ended with ErrBadConn; without these css is empty and no driver
\* statement is open on an open connection (Stmt.Close, removeDep, Stmt.finalClose,
\* driverConn.onPut).
THEOREM NothingIsLeft == Spec => []NothingLeft
<1>1. ASSUME StInv, stmt.closed, \A u \in Users : user[u].pc = "idle" /\ ~user[u].tx
      PROVE  /\ \A x \in dep : x[2] = "tx" /\ conn[x[1]].pc # "open"
             /\ dep = {} => /\ stmt.css = {}
                            /\ \A d \in DOMAIN ds : ds[d].closed \/ conn[ds[d].dc].pc # "open"
  <2>1. \A u \in Users : /\ user[u].txs = "none" /\ user[u].dc = None
                         /\ user[u].pc \notin {"undep", "rows", "put", "closing", "txDep"} \cup Finals
    BY <1>1 DEF StInv, AllPlaced, Placed, Types, UserType, Finals
  <2>2. Own \notin dep /\ \A u \in Users : <<u, "rows">> \notin dep
    BY <1>1, <2>1 DEF StInv, Depends
  <2>3. ASSUME NEW c \in Conns, <<c, "tx">> \in dep PROVE conn[c].pc # "open"
    BY <1>1, <2>1, <2>3 DEF StInv, Depends, Shut
  <2>4. \A x \in dep : \E c \in Conns : x = <<c, "tx">>
    BY <1>1, <2>2 DEF StInv, Types, Tokens
  <2>5. dep = {} => stmt.css = {}
    BY <1>1, <2>1 DEF StInv, Emptied
  <2>6. \A c \in Conns : ~conn[c].inUse /\ conn[c].onPut = {}
    BY <1>1, <2>1, StatementsAssumption DEF StInv, Held, Types, ConnType
  <2>7. ASSUME dep = {}, NEW d \in Ids PROVE ds[d].closed \/ conn[ds[d].dc].pc # "open"
    <3>1. ds[d].dc \in Conns
      BY <1>1, OnConns DEF StInv
    <3>2. ~\E u \in Users : Claims(u, d)
      BY <2>1 DEF Claims
    <3>3. Minded(d)
      BY <1>1, RememberedParts DEF StInv
    <3> QED  BY <2>5, <2>6, <2>7, <3>1, <3>2, <3>3 DEF Minded, Gone
  <2> QED  BY <2>3, <2>4, <2>5, <2>7 DEF Ids
<1>2. StInv => NothingLeft
  BY <1>1 DEF NothingLeft
<1> QED  BY <1>2, StAlways, PTL

\* Of the connections in css that are closed for good, no more are left than were
\* counted in numClosed since removeClosedStmtLocked last ran, although it compares
\* with a number that was read before the mutex of the pool was taken again.
THEOREM StaleStaysBounded == Spec => []StaleBounded
<1>1. StInv => StaleBounded
  BY DEF StInv, Swept, Stale, StaleBounded
<1> QED  BY <1>1, StAlways, PTL

\* No driver statement is closed after its connection, whoever gets to it first
\* (closeDBLocked, driverConn.finalClose, noteUnusedDriverStatement), and removeDep
\* never misses a dependency.
THEOREM AlwaysClosedInTime == Spec => []ClosedInTime
<1>1. StInv => ClosedInTime
  BY DEF StInv
<1> QED  BY <1>1, StAlways, PTL

=============================================================================
