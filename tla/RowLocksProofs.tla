--------------------------- MODULE RowLocksProofs ---------------------------
(***************************************************************************)
(* For any number of calls and offers, a ring of transactions that wait    *)
(* for each other has two closes in it, or a deletion of the request.      *)
(***************************************************************************)
EXTENDS RowLocks, TLAPS

\* What one transaction holds, wants and has still to do, as OrderInv says.
Ordered(t) ==
    /\ t.wants # None => t.wants \in NextRows(t.kind, t.todo)
    /\ t.holds \cap t.todo = {}
    /\ t.kind # "erase" /\ Request \in t.holds => t.todo = {}
    /\ DealEntry \in t.todo \cup t.holds => t.kind = "complete"
    /\ DealEntry \in t.holds => t.todo \subseteq {Request}
    /\ t.kind \notin {"close", "erase"} =>
          /\ t.todo \cap Offers # {} => t.holds = {}
          /\ \A o, q \in t.todo \cap Offers : o = q

\* The rows that come next are among those still to do.
LEMMA NextIsDue ==
    ASSUME NEW kind, NEW todo \in SUBSET Rows
    PROVE  NextRows(kind, todo) \subseteq todo
  BY DEF NextRows

\* A step that leaves the other transactions alone and takes a lock at most on
\* a free row keeps the invariant, if its own transaction is in order.
LEMMA OneChanges ==
    ASSUME LocksInv, NEW c \in Calls, NEW t \in Transaction,
           tx' = [tx EXCEPT ![c] = t], Ordered(t),
           \A r \in t.holds : r \in tx[c].holds \/ Free(r)
    PROVE  LocksInv'
<1>1. LocksTypeOK'
  BY DEF LocksInv, LocksTypeOK
<1>2. \A d \in Calls : tx'[d] = IF d = c THEN t ELSE tx[d]
  BY DEF LocksInv, LocksTypeOK
<1>3. Exclusive'
  <2>1. ASSUME NEW d \in Calls \ {c} PROVE t.holds \cap tx[d].holds = {}
    BY DEF LocksInv, Exclusive, Free
  <2> QED BY <1>2, <2>1 DEF LocksInv, Exclusive
<1>4. OrderInv'
  BY <1>2 DEF LocksInv, OrderInv, Ordered
<1> QED BY <1>1, <1>3, <1>4 DEF LocksInv

\* No transaction, or one that holds nothing yet.
LEMMA IdleOrdered == Idle \in Transaction /\ Ordered(Idle)
  BY RowsAssumption DEF Idle, Transaction, Kinds, Ordered

LEMMA BegunOrdered ==
    ASSUME NEW kind \in Kinds, NEW rows \in SUBSET Rows,
           DealEntry \in rows => kind = "complete",
           kind \notin {"close", "erase"} => \A o, q \in rows \cap Offers : o = q
    PROVE  LET t == [Idle EXCEPT !.kind = kind, !.todo = rows]
           IN  t \in Transaction /\ Ordered(t) /\ t.holds = {}
  BY RowsAssumption DEF Idle, Transaction, Ordered, Rows

\* Postgres begins a transaction.
LEMMA StartKeeps == ASSUME LocksInv, NEW c \in Calls, Start(c) PROVE LocksInv'
<1>1. ASSUME NEW kind \in Kinds, NEW rows \in SUBSET Rows, Begin(c, kind, rows),
             DealEntry \in rows => kind = "complete",
             kind \notin {"close", "erase"} => \A o, q \in rows \cap Offers : o = q
      PROVE  LocksInv'
  <2> DEFINE t == [Idle EXCEPT !.kind = kind, !.todo = rows]
  <2>1. t \in Transaction /\ Ordered(t) /\ t.holds = {}
    BY <1>1, BegunOrdered
  <2>2. tx' = [tx EXCEPT ![c] = t]
    BY <1>1 DEF Begin
  <2> HIDE DEF t
  <2> QED BY <2>1, <2>2, OneChanges
<1> USE RowsAssumption DEF Kinds, Rows
<1>2. ASSUME NEW o \in Offers, Begin(c, "accept", {o, Request}) PROVE LocksInv'
  BY <1>1, <1>2 DEF Request, DealEntry
<1>3. ASSUME NEW o \in Offers, Begin(c, "complete", {o, DealEntry, Request}) PROVE LocksInv'
  BY <1>1, <1>3
<1>4. ASSUME NEW o \in Offers, Begin(c, "end", {o, Request}) PROVE LocksInv'
  BY <1>1, <1>4 DEF Request, DealEntry
<1>5. CASE BeginClose(c)
  BY <1>1, <1>5 DEF BeginClose, Request, DealEntry
<1>6. CASE BeginErase(c)
  BY <1>1, <1>6 DEF BeginErase, Request, DealEntry
<1>7. ASSUME NEW r \in Offers \cup {Request}, Begin(c, "update", {r}) PROVE LocksInv'
  BY <1>1, <1>7 DEF Request, DealEntry
<1> QED BY <1>2, <1>3, <1>4, <1>5, <1>6, <1>7
        DEF Start, BeginAccept, BeginComplete, BeginEnd, BeginUpdate

\* A transaction asks for its next row.
LEMMA AskKeeps == ASSUME LocksInv, NEW c \in Calls, Ask(c) PROVE LocksInv'
<1>1. PICK r \in NextRows(tx[c].kind, tx[c].todo) : tx' = [tx EXCEPT ![c].wants = r]
  BY DEF Ask
<1> DEFINE t == [tx[c] EXCEPT !.wants = r]
<1>2. tx[c] \in Transaction /\ Ordered(tx[c])
  BY DEF LocksInv, LocksTypeOK, OrderInv, Ordered
<1>3. r \in Rows
  BY <1>2, NextIsDue DEF Transaction
<1>4. t \in Transaction /\ Ordered(t) /\ t.holds = tx[c].holds
  BY <1>2, <1>3 DEF Transaction, Ordered
<1>5. tx' = [tx EXCEPT ![c] = t]
  BY <1>1
<1> HIDE DEF t
<1> QED BY <1>4, <1>5, OneChanges

\* It gets the lock: the next row is an offer only while it holds none of the
\* request, and the request comes last unless it is being deleted.
LEMMA ObtainKeeps == ASSUME LocksInv, NEW c \in Calls, Obtain(c) PROVE LocksInv'
<1> DEFINE r == tx[c].wants
           t == [Past(c, r) EXCEPT !.holds = @ \cup {r}]
<1>1. tx[c] \in Transaction /\ Ordered(tx[c])
  BY DEF LocksInv, LocksTypeOK, OrderInv, Ordered
<1>2. r # None /\ r \in NextRows(tx[c].kind, tx[c].todo) /\ Free(r)
  BY <1>1 DEF Obtain, Ordered
<1>3. r \in tx[c].todo /\ r \in Rows
  BY <1>1, <1>2, NextIsDue DEF Transaction
<1>4. t \in Transaction
  BY <1>1, <1>3 DEF Transaction, Past
<1>5. /\ t.kind = tx[c].kind /\ t.todo = tx[c].todo \ {r} /\ t.wants = None
      /\ t.holds = tx[c].holds \cup {r}
  BY <1>1 DEF Transaction, Past
<1> HIDE DEF t
<1>6. t.kind # "erase" /\ Request \in t.holds => t.todo = {}
  <2> SUFFICES ASSUME t.kind # "erase", Request \in t.holds PROVE t.todo = {}
    OBVIOUS
  <2>1. CASE r = Request
    <3>1. tx[c].todo \cap Offers = {} /\ DealEntry \notin tx[c].todo
      BY <1>2, <1>5, <2>1, RowsAssumption DEF NextRows, Request, DealEntry
    <3>2. tx[c].todo \subseteq {Request}
      BY <1>1, <3>1 DEF Transaction, Rows
    <3> QED BY <1>5, <2>1, <3>2
  <2>2. CASE r # Request
    BY <1>1, <1>5, <2>2 DEF Ordered
  <2> QED BY <2>1, <2>2
<1>7. DealEntry \in t.holds => t.todo \subseteq {Request}
  <2> SUFFICES ASSUME DealEntry \in t.holds PROVE t.todo \subseteq {Request}
    OBVIOUS
  <2>1. CASE r = DealEntry
    <3>1. tx[c].kind = "complete" /\ tx[c].todo \cap Offers = {}
      BY <1>1, <1>2, <1>3, <2>1, RowsAssumption DEF NextRows, Ordered, Request, DealEntry
    <3>2. tx[c].todo \subseteq {Request, DealEntry}
      BY <1>1, <3>1 DEF Transaction, Rows
    <3> QED BY <1>5, <2>1, <3>2
  <2>2. CASE r # DealEntry
    BY <1>1, <1>5, <2>2 DEF Ordered
  <2> QED BY <2>1, <2>2
<1>8. t.kind \notin {"close", "erase"} => t.todo \cap Offers = {}
  <2> SUFFICES ASSUME t.kind \notin {"close", "erase"} PROVE t.todo \cap Offers = {}
    OBVIOUS
  <2>1. CASE tx[c].todo \cap Offers = {}
    BY <1>5, <2>1
  <2>2. CASE tx[c].todo \cap Offers # {}
    <3>1. r \in tx[c].todo \cap Offers
      BY <1>2, <1>5, <2>2 DEF NextRows
    <3> QED BY <1>1, <1>5, <3>1 DEF Ordered
  <2> QED BY <2>1, <2>2
<1>9. Ordered(t)
  BY <1>1, <1>3, <1>5, <1>6, <1>7, <1>8 DEF Ordered
<1>10. tx' = [tx EXCEPT ![c] = t]
  BY DEF Obtain, t
<1> QED BY <1>2, <1>4, <1>5, <1>9, <1>10, OneChanges

\* It goes on without a row.
LEMMA PassOverKeeps == ASSUME LocksInv, NEW c \in Calls, PassOver(c) PROVE LocksInv'
<1>1. PICK r \in Rows : tx' = [tx EXCEPT ![c] = Past(c, r)]
  BY DEF PassOver
<1> DEFINE t == Past(c, r)
<1>2. tx[c] \in Transaction /\ Ordered(tx[c])
  BY DEF LocksInv, LocksTypeOK, OrderInv, Ordered
<1>3. /\ t.kind = tx[c].kind /\ t.todo = tx[c].todo \ {r} /\ t.wants = None
      /\ t.holds = tx[c].holds /\ t \in Transaction
  BY <1>2 DEF Transaction, Past
<1>4. tx' = [tx EXCEPT ![c] = t]
  BY <1>1
<1> HIDE DEF t
<1>5. Ordered(t)
  BY <1>2, <1>3 DEF Ordered
<1> QED BY <1>3, <1>4, <1>5, OneChanges

\* The inductive invariant of the locks: one holder of each, and what a handler
\* may hold while it waits.
THEOREM LocksInvariance == LocksSpec => []LocksInv
<1>1. LocksInit => LocksInv
  <2> SUFFICES ASSUME LocksInit PROVE LocksInv
    OBVIOUS
  <2>1. \A c \in Calls : tx[c] = Idle
    BY DEF LocksInit
  <2>2. LocksTypeOK
    BY IdleOrdered DEF LocksInit, LocksTypeOK
  <2>3. Exclusive
    BY <2>1 DEF Exclusive, Idle
  <2>4. OrderInv
    BY <2>1, IdleOrdered DEF OrderInv, Ordered
  <2> QED BY <2>2, <2>3, <2>4 DEF LocksInv
<1>2. LocksInv /\ [LocksNext]_tx => LocksInv'
  <2> SUFFICES ASSUME LocksInv, [LocksNext]_tx PROVE LocksInv'
    OBVIOUS
  <2>1. CASE UNCHANGED tx
    BY <2>1 DEF LocksInv, LocksTypeOK, Exclusive, OrderInv
  <2>2. ASSUME NEW c \in Calls, GiveUp(c) \/ Commit(c) \/ RollBack(c) PROVE LocksInv'
    <3>1. tx' = [tx EXCEPT ![c] = Idle]
      BY <2>2 DEF GiveUp, Commit, RollBack
    <3>2. Idle.holds = {}
      BY DEF Idle
    <3> QED BY <3>1, <3>2, IdleOrdered, OneChanges
  <2> QED BY <2>1, <2>2, StartKeeps, AskKeeps, ObtainKeeps, PassOverKeeps DEF LocksNext, Go
<1> QED BY <1>1, <1>2, PTL DEF LocksSpec

\* Without a deletion, one that holds a lock and waits in a ring is a close.
LEMMA HolderWaits ==
    ASSUME LocksInv, NEW R \in SUBSET Calls, Ring(R), ~\E c \in R : tx[c].kind = "erase",
           NEW c \in R, NEW d \in R, Waits(c, d)
    PROVE  tx[d].kind = "close" /\ c # d
<1>1. /\ tx[c] \in Transaction /\ Ordered(tx[c]) /\ tx[c].kind # "erase"
      /\ tx[d] \in Transaction /\ Ordered(tx[d]) /\ tx[d].kind # "erase"
  BY DEF LocksInv, LocksTypeOK, OrderInv, Ordered
<1>2. PICK e \in R : Waits(d, e)
  BY DEF Ring
<1>3. tx[d].wants # None /\ tx[d].wants \in NextRows(tx[d].kind, tx[d].todo)
  BY <1>1, <1>2 DEF Waits, Ordered
<1>4. tx[d].wants \in tx[d].todo /\ tx[d].wants \in Rows
  BY <1>1, <1>3, NextIsDue DEF Transaction
<1>5. tx[d].holds # {} /\ Request \notin tx[d].holds
  BY <1>1, <1>4 DEF Waits, Ordered
<1>6. tx[d].wants # Request
  <2> SUFFICES ASSUME tx[d].wants = Request PROVE FALSE
    OBVIOUS
  <2>1. Request \in tx[e].holds /\ tx[e].kind # "erase"
    BY <1>2 DEF Waits
  <2>2. Ordered(tx[e]) /\ tx[e] \in Transaction
    BY DEF LocksInv, LocksTypeOK, OrderInv, Ordered
  <2>3. tx[e].todo = {}
    BY <2>1, <2>2 DEF Ordered
  <2>4. tx[e].wants # None
    BY DEF Ring, Waits
  <2> QED BY <2>2, <2>3, <2>4, NextIsDue DEF Ordered, Transaction
<1>7. tx[d].wants # DealEntry
  <2> SUFFICES ASSUME tx[d].wants = DealEntry PROVE FALSE
    OBVIOUS
  <2>1. DealEntry \in tx[e].holds /\ tx[e].kind # "erase"
    BY <1>2 DEF Waits
  <2>2. Ordered(tx[e]) /\ tx[e] \in Transaction
    BY DEF LocksInv, LocksTypeOK, OrderInv, Ordered
  <2>3. PICK f \in R : Waits(e, f)
    BY DEF Ring
  <2>4. tx[e].wants \in tx[e].todo /\ tx[e].todo \subseteq {Request}
    BY <2>1, <2>2, <2>3, NextIsDue DEF Ordered, Transaction, Waits
  <2>5. Request \in tx[f].holds /\ tx[f].kind # "erase"
    BY <2>3, <2>4 DEF Waits
  <2>6. Ordered(tx[f]) /\ tx[f] \in Transaction
    BY DEF LocksInv, LocksTypeOK, OrderInv, Ordered
  <2>7. tx[f].todo = {}
    BY <2>5, <2>6 DEF Ordered
  <2>8. tx[f].wants # None
    BY DEF Ring, Waits
  <2> QED BY <2>6, <2>7, <2>8, NextIsDue DEF Ordered, Transaction
<1>8. tx[d].wants \in tx[d].todo \cap Offers
  BY <1>4, <1>6, <1>7 DEF Rows
<1>9. tx[d].kind = "close"
  BY <1>1, <1>5, <1>8 DEF Ordered
<1>10. c # d
  <2>1. tx[c].wants \in tx[c].todo
    BY <1>1, NextIsDue DEF Ordered, Transaction, Waits
  <2> QED BY <1>1, <2>1 DEF Ordered, Waits
<1> QED BY <1>9, <1>10

\* Transactions that block each other are two closes which take the offers in
\* opposite orders, or one deletes the request: accept, complete and
\* endNegotiation hold no more than their own offer when they ask for the request.
THEOREM RingsAreCloses == LocksSpec => []RingsNeedTwoCloses
<1>1. LocksInv => RingsNeedTwoCloses
  <2> SUFFICES ASSUME LocksInv, NEW R \in SUBSET Calls, Ring(R),
                      ~\E c \in R : tx[c].kind = "erase"
               PROVE  \E c, d \in R : c # d /\ tx[c].kind = "close" /\ tx[d].kind = "close"
    BY DEF RingsNeedTwoCloses
  <2>1. PICK b \in R : TRUE
    BY DEF Ring
  <2>2. PICK c \in R : Waits(b, c)
    BY DEF Ring
  <2>3. PICK d \in R : Waits(c, d)
    BY DEF Ring
  <2>4. tx[c].kind = "close"
    BY <2>2, HolderWaits
  <2>5. tx[d].kind = "close" /\ c # d
    BY <2>3, HolderWaits
  <2> QED BY <2>4, <2>5
<1> QED BY <1>1, LocksInvariance, PTL

=============================================================================
