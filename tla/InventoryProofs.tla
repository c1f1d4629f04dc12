--------------------------- MODULE InventoryProofs --------------------------
(***************************************************************************)
(* Proofs about Inventory, for every set of sessions, clients, items and   *)
(* quantities:                                                             *)
(*   - types are preserved (TypeCorrect);                                  *)
(*   - a cached summary loses no row, whoever the sessions belong to       *)
(*     (SummaryComplete);                                                  *)
(*   - when no two sessions belong to the same client, Inventory           *)
(*     implements InventoryStore (StoreImplemented).                       *)
(***************************************************************************)
EXTENDS Inventory, TLAPS

OpRecord ==
    [pc : {"idle", "saved", "missed", "fetched", "loaded"}, items : SUBSET Items, stock : Stock]

LEMMA EmptyStockType == EmptyStock \in Stock /\ \A i \in Items : EmptyStock[i] = NoStock
  BY DEF EmptyStock, Stock

LEMMA IdleType == Idle \in OpRecord /\ Idle.pc = "idle"
  BY EmptyStockType DEF Idle, OpRecord

LEMMA InitTypeOK == Init => TypeOK
  BY InventoryAssumption, EmptyStockType, IdleType DEF Init, TypeOK, At, OpRecord

-----------------------------------------------------------------------------
(***************************************************************************)
(* What the operators the actions are made of do to op, inventories and    *)
(* table.                                                                  *)
(***************************************************************************)
\* The command holds pc, items and stock and the others are as they were.
LEMMA HoldEffect ==
  ASSUME TypeOK, NEW s \in Sessions, NEW pc \in {"saved", "missed", "fetched", "loaded"},
         NEW I \in SUBSET Items, NEW st \in Stock, Hold(s, pc, I, st)
  PROVE  /\ op' \in [Sessions -> OpRecord]
         /\ op'[s].pc = pc /\ op'[s].items = I /\ op'[s].stock = st
         /\ \A r \in Sessions \ {s} : op'[r] = op[r]
  <1> DEFINE q == [pc |-> pc, items |-> I, stock |-> st]
  <1>1. q \in OpRecord /\ q.pc = pc /\ q.items = I /\ q.stock = st
    BY DEF OpRecord
  <1>2. op' = [op EXCEPT ![s] = q]
    BY DEF Hold
  <1>3. op \in [Sessions -> OpRecord]
    BY DEF TypeOK, OpRecord
  <1> HIDE DEF q
  <1> QED
    BY <1>1, <1>2, <1>3

\* The command ends and the others are as they were.
LEMMA IdleEffect ==
  ASSUME TypeOK, NEW s \in Sessions, op' = [op EXCEPT ![s] = Idle]
  PROVE  /\ op' \in [Sessions -> OpRecord]
         /\ op'[s].pc = "idle"
         /\ \A r \in Sessions \ {s} : op'[r] = op[r]
  <1>1. op \in [Sessions -> OpRecord]
    BY DEF TypeOK, OpRecord
  <1> QED
    BY <1>1, IdleType

\* The row of one item is written.
LEMMA SaveEffect ==
  ASSUME TypeOK, NEW s \in Sessions, NEW i \in Items, NEW q \in Quantities,
         SaveStockUpdate(s, i, q)
  PROVE  /\ table' \in [Clients -> Stock]
         /\ q # NoStock
         /\ \A c \in Clients, j \in Items :
                table'[c][j] = IF c = Owner[s] /\ j = i THEN q ELSE table[c][j]
         /\ op'[s].pc = "saved" /\ op'[s].items = {i} /\ op'[s].stock[i] = q
         /\ op' \in [Sessions -> OpRecord]
         /\ \A r \in Sessions \ {s} : op'[r] = op[r]
  <1>1. q \in Quantities \cap Nat /\ q # NoStock
    BY InventoryAssumption DEF SaveStockUpdate
  <1>2. [EmptyStock EXCEPT ![i] = q] \in Stock /\ [EmptyStock EXCEPT ![i] = q][i] = q
    BY <1>1, EmptyStockType DEF Stock
  <1>3. Owner[s] \in Clients /\ table \in [Clients -> Stock]
    BY InventoryAssumption DEF TypeOK
  <1> DEFINE row == [table[Owner[s]] EXCEPT ![i] = q]
  <1>4. row \in Stock /\ \A j \in Items : row[j] = IF j = i THEN q ELSE table[Owner[s]][j]
    BY <1>1, <1>3 DEF Stock
  <1>5. table' = [table EXCEPT ![Owner[s]] = row]
    BY DEF SaveStockUpdate
  <1> HIDE DEF row
  <1>6. /\ table' \in [Clients -> Stock]
        /\ \A c \in Clients, j \in Items :
                table'[c][j] = IF c = Owner[s] /\ j = i THEN q ELSE table[c][j]
    BY <1>3, <1>4, <1>5
  <1>7. Hold(s, "saved", {i}, [EmptyStock EXCEPT ![i] = q])
    BY DEF SaveStockUpdate
  <1>8. /\ op' \in [Sessions -> OpRecord]
        /\ op'[s].pc = "saved" /\ op'[s].items = {i}
        /\ op'[s].stock = [EmptyStock EXCEPT ![i] = q]
        /\ \A r \in Sessions \ {s} : op'[r] = op[r]
    BY <1>2, <1>7, HoldEffect
  <1> QED
    BY <1>1, <1>2, <1>6, <1>8

\* The cache of the client takes what the command holds of its items.
LEMMA FillEffect ==
  ASSUME TypeOK, NEW s \in Sessions, FillCache(s)
  PROVE  /\ inventories' \in [Clients -> Stock]
         /\ \A c \in Clients, i \in Items :
                inventories'[c][i] = IF c = Owner[s] /\ i \in op[s].items
                                     THEN op[s].stock[i] ELSE inventories[c][i]
         /\ op' \in [Sessions -> OpRecord]
         /\ op'[s].pc = "idle"
         /\ \A r \in Sessions \ {s} : op'[r] = op[r]
  <1>1. op[s].stock \in Stock /\ Owner[s] \in Clients /\ inventories \in [Clients -> Stock]
    BY InventoryAssumption DEF TypeOK
  <1> DEFINE row == [i \in Items |-> IF i \in op[s].items THEN op[s].stock[i] ELSE Cached(s)[i]]
  <1>2. /\ row \in Stock
        /\ \A i \in Items : row[i] = IF i \in op[s].items THEN op[s].stock[i]
                                     ELSE inventories[Owner[s]][i]
    BY <1>1 DEF Stock, Cached
  <1>3. inventories' = [inventories EXCEPT ![Owner[s]] = row]
    BY DEF FillCache
  <1>4. op' = [op EXCEPT ![s] = Idle]
    BY DEF FillCache, Reply
  <1> HIDE DEF row
  <1> QED
    BY <1>1, <1>2, <1>3, <1>4, IdleEffect, Zenon

-----------------------------------------------------------------------------
(***************************************************************************)
(* Types.                                                                  *)
(***************************************************************************)
LEMMA TypeOKNext == TypeOK /\ [Next]_vars => TypeOK'
  <1> SUFFICES ASSUME TypeOK, [Next]_vars PROVE TypeOK'
    OBVIOUS
  <1>0. /\ op \in [Sessions -> OpRecord] /\ table \in [Clients -> Stock]
        /\ inventories \in [Clients -> Stock] /\ fullyCached \subseteq Clients
        /\ mutex \in Sessions \cup {NoSession}
        /\ \A s \in Sessions : op[s].pc = "loaded" <=> mutex = s
    BY DEF TypeOK, OpRecord, At
  <1>t. ASSUME op' \in [Sessions -> OpRecord], table' \in [Clients -> Stock],
               inventories' \in [Clients -> Stock], fullyCached' \subseteq Clients,
               mutex' \in Sessions \cup {NoSession},
               \A s \in Sessions : op'[s].pc = "loaded" <=> mutex' = s
        PROVE  TypeOK'
    BY <1>t DEF TypeOK, OpRecord, At
  <1>o. \A s \in Sessions : Owner[s] \in Clients
    BY InventoryAssumption
  <1>1. ASSUME NEW s \in Sessions, NEW i \in Items, NEW q \in Quantities, SaveStockUpdate(s, i, q)
        PROVE TypeOK'
    <2>1. /\ op' \in [Sessions -> OpRecord] /\ table' \in [Clients -> Stock]
          /\ op'[s].pc = "saved" /\ \A r \in Sessions \ {s} : op'[r] = op[r]
      BY <1>1, SaveEffect
    <2>2. op[s].pc = "idle" /\ UNCHANGED <<inventories, fullyCached, mutex>>
      BY <1>1 DEF SaveStockUpdate, At
    <2> QED
      BY <1>0, <1>t, <2>1, <2>2
  <1>2. ASSUME NEW s \in Sessions, CacheUpdate(s) PROVE TypeOK'
    BY <1>0, <1>t, <1>2, FillEffect DEF CacheUpdate, At
  <1>3. ASSUME NEW s \in Sessions, NEW i \in Items, GetStockHit(s, i) PROVE TypeOK'
    BY <1>0, <1>t, <1>3, IdleEffect, Zenon DEF GetStockHit, At, Reply
  <1>4. ASSUME NEW s \in Sessions, NEW i \in Items, GetStockMiss(s, i) PROVE TypeOK'
    BY <1>0, <1>t, <1>4, HoldEffect, EmptyStockType DEF GetStockMiss, At
  <1>5. ASSUME NEW s \in Sessions, ReadNoRow(s) PROVE TypeOK'
    BY <1>0, <1>t, <1>5, IdleEffect, Zenon DEF ReadNoRow, At, Reply
  <1>6. ASSUME NEW s \in Sessions, ReadRow(s) PROVE TypeOK'
    <2>1. op[s].items \in SUBSET Items /\ Row(s) \in Stock
      BY <1>0, <1>o DEF OpRecord, Row
    <2> QED
      BY <1>0, <1>t, <1>6, <2>1, HoldEffect DEF ReadRow, At
  <1>7. ASSUME NEW s \in Sessions, CacheStock(s) PROVE TypeOK'
    BY <1>0, <1>t, <1>7, FillEffect DEF CacheStock, At
  <1>8. ASSUME NEW s \in Sessions, ReadThrows(s) PROVE TypeOK'
    BY <1>0, <1>t, <1>8, IdleEffect, Zenon DEF ReadThrows, At
  <1>9. ASSUME NEW s \in Sessions, SummaryHit(s) \/ SummaryEmpty(s) PROVE TypeOK'
    BY <1>0, <1>t, <1>9, IdleEffect DEF SummaryHit, SummaryEmpty, At, Reply
  <1>10. ASSUME NEW s \in Sessions, SummaryRead(s) PROVE TypeOK'
    <2>1. Items \in SUBSET Items /\ Row(s) \in Stock
      BY <1>0, <1>o DEF Row
    <2>2. Hold(s, "loaded", Items, Row(s)) /\ mutex' = s /\ mutex = NoSession
      BY <1>10 DEF SummaryRead, Unlocked
    <2>3. op' \in [Sessions -> OpRecord] /\ op'[s].pc = "loaded"
          /\ \A r \in Sessions \ {s} : op'[r] = op[r]
      BY <2>1, <2>2, HoldEffect
    <2>4. \A r \in Sessions : op'[r].pc = "loaded" <=> mutex' = r
      BY <1>0, <2>2, <2>3, InventoryAssumption
    <2> QED
      BY <1>0, <1>t, <1>10, <2>2, <2>3, <2>4 DEF SummaryRead
  <1>11. ASSUME NEW s \in Sessions, SummaryFill(s) PROVE TypeOK'
    <2>1. \A r \in Sessions : op'[r].pc = "loaded" <=> mutex' = r
      BY <1>0, <1>11, FillEffect, InventoryAssumption, SMTT(30) DEF SummaryFill, At
    <2> QED
      BY <1>0, <1>o, <1>t, <1>11, <2>1, FillEffect DEF SummaryFill
  <1>12. CASE Crash
    BY <1>0, <1>t, <1>12, EmptyStockType, IdleType, InventoryAssumption DEF Crash
  <1>13. CASE UNCHANGED vars
    BY <1>0, <1>t, <1>13 DEF vars
  <1> QED
    BY <1>1, <1>2, <1>3, <1>4, <1>5, <1>6, <1>7, <1>8, <1>9, <1>10, <1>11, <1>12, <1>13
       DEF Next, SessionStep

(***************************************************************************)
(* TypeOK always holds: no negative quantity is stored or cached, and the  *)
(* session that is filling the cache with a summary holds m_mutex.         *)
(***************************************************************************)
THEOREM TypeCorrect == Spec => []TypeOK
  BY InitTypeOK, TypeOKNext, PTL DEF Spec

-----------------------------------------------------------------------------
(***************************************************************************)
(* A summary loses no row.  The invariant is not inductive: what the       *)
(* commands in progress hold will be written to the cache, so it must not  *)
(* take an entry away or add one without a row.  The last conjunct is      *)
(* about a summary that was read before an update: the update is still     *)
(* pending, because it cannot write the cache before the summary does.     *)
(***************************************************************************)
HeldRows(s) ==
    /\ At(s, "missed") => \A i, j \in op[s].items : i = j
    /\ op[s].pc \in {"saved", "fetched"} => \A i \in op[s].items : op[s].stock[i] # NoStock
    /\ op[s].pc \in {"saved", "fetched", "loaded"} =>
          \A i \in op[s].items : op[s].stock[i] # NoStock => table[Owner[s]][i] # NoStock
    /\ At(s, "loaded") =>
          /\ op[s].items = Items
          /\ \A i \in Items : table[Owner[s]][i] # NoStock /\ op[s].stock[i] = NoStock
                                 => UpdatePending(Owner[s], i)

RowsInv == TypeOK /\ SummaryLosesNoRow /\ \A s \in Sessions : HeldRows(s)

\* A step that writes neither the table nor the cache, by a command that does
\* not have an update pending.
LEMMA QuietRows ==
  ASSUME RowsInv, NEW s \in Sessions,
         \A r \in Sessions \ {s} : op'[r] = op[r],
         op[s].pc # "saved", op'[s].pc # "saved", HeldRows(s)',
         UNCHANGED <<table, inventories, fullyCached>>
  PROVE  SummaryLosesNoRow' /\ \A r \in Sessions : HeldRows(r)'
  <1>1. \A c \in Clients, i \in Items : UpdatePending(c, i)' <=> UpdatePending(c, i)
    BY DEF UpdatePending, At
  <1>2. SummaryLosesNoRow'
    BY <1>1 DEF RowsInv, SummaryLosesNoRow
  <1>3. ASSUME NEW r \in Sessions \ {s} PROVE HeldRows(r)'
    <2>1. Owner[r] \in Clients
      BY InventoryAssumption
    <2>2. HeldRows(r)
      BY DEF RowsInv
    <2> QED
      BY <1>1, <2>1, <2>2 DEF HeldRows, At
  <1> QED
    BY <1>2, <1>3

LEMMA SaveRows ==
  ASSUME RowsInv, NEW s \in Sessions, NEW i \in Items, NEW q \in Quantities,
         SaveStockUpdate(s, i, q)
  PROVE  SummaryLosesNoRow' /\ \A r \in Sessions : HeldRows(r)'
  <1>1. TypeOK /\ At(s, "idle") /\ UNCHANGED <<inventories, fullyCached>>
    BY DEF RowsInv, SaveStockUpdate
  <1>2. /\ q # NoStock
        /\ \A c \in Clients, j \in Items :
                table'[c][j] = IF c = Owner[s] /\ j = i THEN q ELSE table[c][j]
        /\ op'[s].pc = "saved" /\ op'[s].items = {i} /\ op'[s].stock[i] = q
        /\ \A r \in Sessions \ {s} : op'[r] = op[r]
    BY <1>1, SaveEffect
  <1>3. \A c \in Clients, j \in Items :
           UpdatePending(c, j)' <=> UpdatePending(c, j) \/ (c = Owner[s] /\ j = i)
    BY <1>1, <1>2 DEF UpdatePending, At
  <1>4. SummaryLosesNoRow'
    <2>1. \A c \in Clients, j \in Items : table[c][j] # NoStock => table'[c][j] # NoStock
      BY <1>2
    <2>2. \A c \in Clients, j \in Items :
             table'[c][j] # NoStock /\ ~UpdatePending(c, j)' =>
                 table[c][j] # NoStock /\ ~UpdatePending(c, j)
      BY <1>2, <1>3
    <2> QED
      BY <1>1, <2>1, <2>2 DEF RowsInv, SummaryLosesNoRow
  <1>5. HeldRows(s)'
    BY <1>2, InventoryAssumption DEF HeldRows, At
  <1>6. ASSUME NEW r \in Sessions \ {s} PROVE HeldRows(r)'
    <2>1. Owner[r] \in Clients /\ op[r].items \subseteq Items
      BY <1>1, InventoryAssumption DEF TypeOK
    <2>2. HeldRows(r) /\ op'[r] = op[r]
      BY <1>2 DEF RowsInv
    <2>3. \A j \in Items : table[Owner[r]][j] # NoStock => table'[Owner[r]][j] # NoStock
      BY <1>2, <2>1
    <2>4. \A j \in Items : table'[Owner[r]][j] # NoStock =>
              table[Owner[r]][j] # NoStock \/ UpdatePending(Owner[r], j)'
      BY <1>2, <1>3, <2>1
    <2>5. \A j \in Items : UpdatePending(Owner[r], j) => UpdatePending(Owner[r], j)'
      BY <1>3, <2>1
    <2> QED
      BY <2>1, <2>2, <2>3, <2>4, <2>5 DEF HeldRows, At
  <1> QED
    BY <1>4, <1>5, <1>6

\* A command writes what it holds to the cache.  No other command is in the
\* middle of a summary.
LEMMA FillRows ==
  ASSUME RowsInv, NEW s \in Sessions, FillCache(s), UNCHANGED table,
         op[s].pc \in {"saved", "fetched", "loaded"},
         \A r \in Sessions \ {s} : op[r].pc # "loaded",
         fullyCached' = fullyCached \/ (op[s].pc = "loaded" /\ fullyCached' = fullyCached \cup {Owner[s]})
  PROVE  SummaryLosesNoRow' /\ \A r \in Sessions : HeldRows(r)'
  <1>1. TypeOK /\ HeldRows(s) /\ Owner[s] \in Clients
    BY InventoryAssumption DEF RowsInv
  <1>2. /\ \A c \in Clients, i \in Items :
                inventories'[c][i] = IF c = Owner[s] /\ i \in op[s].items
                                     THEN op[s].stock[i] ELSE inventories[c][i]
        /\ op'[s].pc = "idle"
        /\ \A r \in Sessions \ {s} : op'[r] = op[r]
    BY <1>1, FillEffect
  <1>3. \A c \in Clients, i \in Items : UpdatePending(c, i) =>
           \/ UpdatePending(c, i)'
           \/ c = Owner[s] /\ op[s].pc = "saved" /\ i \in op[s].items
    BY <1>2 DEF UpdatePending, At
  <1>4. \A c \in Clients, i \in Items : inventories'[c][i] # NoStock => table'[c][i] # NoStock
    BY <1>1, <1>2 DEF RowsInv, SummaryLosesNoRow, HeldRows
  <1>5. ASSUME NEW c \in Clients, NEW i \in Items, c \in fullyCached', table'[c][i] # NoStock,
               ~UpdatePending(c, i)'
        PROVE  inventories'[c][i] # NoStock
    <2>1. CASE c = Owner[s] /\ i \in op[s].items /\ op[s].pc \in {"saved", "fetched"}
      BY <1>1, <1>2, <2>1 DEF HeldRows
    <2>2. CASE c = Owner[s] /\ op[s].pc = "loaded"
      <3>1. ~UpdatePending(c, i) /\ op[s].items = Items
        BY <1>1, <1>3, <1>5, <2>2 DEF HeldRows, At
      <3> QED
        BY <1>1, <1>2, <1>5, <2>2, <3>1 DEF HeldRows, At
    <2>3. CASE ~(c = Owner[s] /\ i \in op[s].items) /\ ~(c = Owner[s] /\ op[s].pc = "loaded")
      <3>1. ~UpdatePending(c, i) /\ c \in fullyCached
        BY <1>3, <1>5, <2>3
      <3> QED
        BY <1>2, <1>5, <2>3, <3>1 DEF RowsInv, SummaryLosesNoRow
    <2> QED
      BY <2>1, <2>2, <2>3
  <1>6. HeldRows(s)'
    BY <1>2 DEF HeldRows, At
  <1>7. ASSUME NEW r \in Sessions \ {s} PROVE HeldRows(r)'
    BY <1>2 DEF RowsInv, HeldRows, At
  <1> QED
    BY <1>4, <1>5, <1>6, <1>7 DEF SummaryLosesNoRow

LEMMA RowsInvInit == Init => RowsInv
  BY InitTypeOK, EmptyStockType, IdleType
     DEF Init, RowsInv, SummaryLosesNoRow, HeldRows, At

LEMMA RowsInvNext == RowsInv /\ [Next]_vars => RowsInv'
  <1> SUFFICES ASSUME RowsInv, [Next]_vars
               PROVE  SummaryLosesNoRow' /\ \A r \in Sessions : HeldRows(r)'
    BY TypeOKNext DEF RowsInv
  <1>0. TypeOK /\ (\A s \in Sessions : op[s].pc = "loaded" <=> mutex = s)
        /\ \A s \in Sessions : Owner[s] \in Clients /\ op[s].items \in SUBSET Items
    BY InventoryAssumption DEF RowsInv, TypeOK, At
  <1>1. ASSUME NEW s \in Sessions, NEW i \in Items, NEW q \in Quantities, SaveStockUpdate(s, i, q)
        PROVE  SummaryLosesNoRow' /\ \A r \in Sessions : HeldRows(r)'
    BY <1>1, SaveRows
  <1>2. ASSUME NEW s \in Sessions, CacheUpdate(s) \/ CacheStock(s)
        PROVE  SummaryLosesNoRow' /\ \A r \in Sessions : HeldRows(r)'
    BY <1>0, <1>2, FillRows, InventoryAssumption DEF CacheUpdate, CacheStock, Unlocked, At
  <1>3. ASSUME NEW s \in Sessions, SummaryFill(s)
        PROVE  SummaryLosesNoRow' /\ \A r \in Sessions : HeldRows(r)'
    BY <1>0, <1>3, FillRows DEF SummaryFill, At
  <1>4. ASSUME NEW s \in Sessions, op[s].pc # "saved", op' = [op EXCEPT ![s] = Idle],
               UNCHANGED <<table, inventories, fullyCached>>
        PROVE  SummaryLosesNoRow' /\ \A r \in Sessions : HeldRows(r)'
    <2>1. op'[s].pc = "idle" /\ \A r \in Sessions \ {s} : op'[r] = op[r]
      BY <1>0, <1>4, IdleEffect, Zenon
    <2>2. HeldRows(s)'
      BY <2>1 DEF HeldRows, At
    <2> QED
      BY <1>4, <2>1, <2>2, QuietRows
  <1>5. ASSUME NEW s \in Sessions, NEW i \in Items, GetStockHit(s, i)
        PROVE  SummaryLosesNoRow' /\ \A r \in Sessions : HeldRows(r)'
    BY <1>4, <1>5, Zenon DEF GetStockHit, Reply, At
  <1>6. ASSUME NEW s \in Sessions,
               ReadNoRow(s) \/ ReadThrows(s) \/ SummaryHit(s) \/ SummaryEmpty(s)
        PROVE  SummaryLosesNoRow' /\ \A r \in Sessions : HeldRows(r)'
    BY <1>4, <1>6 DEF ReadNoRow, ReadThrows, SummaryHit, SummaryEmpty, Reply, At
  <1>7. ASSUME NEW s \in Sessions, NEW i \in Items, GetStockMiss(s, i)
        PROVE  SummaryLosesNoRow' /\ \A r \in Sessions : HeldRows(r)'
    <2>1. /\ op'[s].pc = "missed" /\ op'[s].items = {i}
          /\ \A r \in Sessions \ {s} : op'[r] = op[r]
      BY <1>0, <1>7, HoldEffect, EmptyStockType, SMTT(30) DEF GetStockMiss
    <2>2. HeldRows(s)'
      BY <2>1 DEF HeldRows, At
    <2> QED
      BY <1>7, <2>1, <2>2, QuietRows DEF GetStockMiss, At
  <1>8. ASSUME NEW s \in Sessions, ReadRow(s)
        PROVE  SummaryLosesNoRow' /\ \A r \in Sessions : HeldRows(r)'
    <2>0. Row(s) \in Stock /\ HeldRows(s)
      BY <1>0 DEF TypeOK, Row, RowsInv
    <2>1. /\ op'[s].pc = "fetched" /\ op'[s].items = op[s].items /\ op'[s].stock = Row(s)
          /\ \A r \in Sessions \ {s} : op'[r] = op[r]
      BY <1>0, <1>8, <2>0, HoldEffect DEF ReadRow
    <2>2. \A i \in op[s].items : Row(s)[i] # NoStock
      BY <1>8, <2>0 DEF ReadRow, HeldRows, At
    <2>3. HeldRows(s)'
      BY <1>8, <2>1, <2>2 DEF HeldRows, At, Row, ReadRow
    <2> QED
      BY <1>8, <2>1, <2>3, QuietRows DEF ReadRow, At
  <1>9. ASSUME NEW s \in Sessions, SummaryRead(s)
        PROVE  SummaryLosesNoRow' /\ \A r \in Sessions : HeldRows(r)'
    <2>0. Row(s) \in Stock /\ Items \in SUBSET Items
      BY <1>0 DEF TypeOK, Row
    <2>1. /\ op'[s].pc = "loaded" /\ op'[s].items = Items /\ op'[s].stock = Row(s)
          /\ \A r \in Sessions \ {s} : op'[r] = op[r]
      BY <1>0, <1>9, <2>0, HoldEffect DEF SummaryRead
    <2>2. HeldRows(s)'
      BY <1>9, <2>1 DEF HeldRows, At, Row, SummaryRead
    <2> QED
      BY <1>9, <2>1, <2>2, QuietRows DEF SummaryRead, At
  <1>10. CASE Crash
    <2>1. \A r \in Sessions : op'[r].pc = "idle"
      BY <1>10, IdleType DEF Crash
    <2> QED
      BY <1>10, <2>1, EmptyStockType DEF Crash, SummaryLosesNoRow, HeldRows, At
  <1>11. CASE UNCHANGED vars
    BY <1>11 DEF vars, RowsInv, SummaryLosesNoRow, HeldRows, UpdatePending, At
  <1> QED
    BY <1>1, <1>2, <1>3, <1>5, <1>6, <1>7, <1>8, <1>9, <1>10, <1>11 DEF Next, SessionStep

(***************************************************************************)
(* However many sessions a client has, a cached summary has an entry for   *)
(* every row of the table but those of updates in progress, and no other.  *)
(***************************************************************************)
THEOREM SummaryComplete == Spec => []SummaryLosesNoRow
  <1>1. RowsInv => SummaryLosesNoRow
    BY DEF RowsInv
  <1> QED
    BY <1>1, RowsInvInit, RowsInvNext, PTL DEF Spec

-----------------------------------------------------------------------------
(***************************************************************************)
(* The refinement, when no two sessions are logged in as the same client.  *)
(* The inductive invariant says that what a command holds, and what is     *)
(* cached, is what the table has, save for the item of an update that is   *)
(* between its two writes.                                                 *)
(***************************************************************************)
OneSessionPerClient == \A r, s \in Sessions : Owner[r] = Owner[s] => r = s

FreshHeld(s) ==
    /\ op[s].pc \in {"saved", "missed", "fetched"} => \E i \in Items : op[s].items = {i}
    /\ At(s, "loaded") => op[s].items = Items
    /\ op[s].pc \in {"saved", "fetched", "loaded"} =>
          \A i \in op[s].items : op[s].stock[i] = table[Owner[s]][i]

FreshCache ==
    \A c \in Clients, i \in Items :
        \/ inventories[c][i] = table[c][i]
        \/ inventories[c][i] = NoStock /\ c \notin fullyCached
        \/ UpdatePending(c, i)

FreshInv == TypeOK /\ FreshCache /\ \A s \in Sessions : FreshHeld(s)

\* A step that writes neither the table nor the cache, by a command that does
\* not have an update pending.
LEMMA QuietFresh ==
  ASSUME FreshInv, NEW s \in Sessions,
         \A r \in Sessions \ {s} : op'[r] = op[r],
         op[s].pc # "saved", FreshHeld(s)',
         UNCHANGED <<table, inventories, fullyCached>>
  PROVE  FreshCache' /\ \A r \in Sessions : FreshHeld(r)'
  <1>1. \A c \in Clients, i \in Items : UpdatePending(c, i) => UpdatePending(c, i)'
    BY DEF UpdatePending, At
  <1>2. FreshCache'
    BY <1>1 DEF FreshInv, FreshCache
  <1>3. ASSUME NEW r \in Sessions \ {s} PROVE FreshHeld(r)'
    BY DEF FreshInv, FreshHeld, At
  <1> QED
    BY <1>2, <1>3

LEMMA SaveFresh ==
  ASSUME OneSessionPerClient, FreshInv, NEW s \in Sessions, NEW i \in Items,
         NEW q \in Quantities, SaveStockUpdate(s, i, q)
  PROVE  FreshCache' /\ \A r \in Sessions : FreshHeld(r)'
  <1>1. TypeOK /\ At(s, "idle") /\ UNCHANGED <<inventories, fullyCached>>
    BY DEF FreshInv, SaveStockUpdate
  <1>2. /\ \A c \in Clients, j \in Items :
                table'[c][j] = IF c = Owner[s] /\ j = i THEN q ELSE table[c][j]
        /\ op'[s].pc = "saved" /\ op'[s].items = {i} /\ op'[s].stock[i] = q
        /\ \A r \in Sessions \ {s} : op'[r] = op[r]
    BY <1>1, SaveEffect
  <1>3. \A c \in Clients, j \in Items :
           UpdatePending(c, j) \/ (c = Owner[s] /\ j = i) => UpdatePending(c, j)'
    BY <1>1, <1>2, SMTT(30) DEF UpdatePending, At
  <1>4. FreshCache'
    BY <1>1, <1>2, <1>3 DEF FreshInv, FreshCache
  <1>5. FreshHeld(s)'
    BY <1>2, InventoryAssumption DEF FreshHeld, At
  <1>6. ASSUME NEW r \in Sessions \ {s} PROVE FreshHeld(r)'
    <2>1. Owner[r] \in Clients /\ Owner[r] # Owner[s] /\ op[r].items \subseteq Items
      BY <1>1, InventoryAssumption, SMTT(30) DEF TypeOK, OneSessionPerClient
    <2>2. FreshHeld(r) /\ op'[r] = op[r]
      BY <1>2 DEF FreshInv
    <2>3. \A j \in Items : table'[Owner[r]][j] = table[Owner[r]][j]
      BY <1>2, <2>1
    <2> QED
      BY <2>1, <2>2, <2>3 DEF FreshHeld, At
  <1> QED
    BY <1>4, <1>5, <1>6

LEMMA FillFresh ==
  ASSUME FreshInv, NEW s \in Sessions, FillCache(s), UNCHANGED table,
         op[s].pc \in {"saved", "fetched", "loaded"},
         fullyCached' = fullyCached \/ (op[s].pc = "loaded" /\ fullyCached' = fullyCached \cup {Owner[s]})
  PROVE  FreshCache' /\ \A r \in Sessions : FreshHeld(r)'
  <1>1. TypeOK /\ FreshHeld(s) /\ Owner[s] \in Clients
    BY InventoryAssumption DEF FreshInv
  <1>2. /\ \A c \in Clients, i \in Items :
                inventories'[c][i] = IF c = Owner[s] /\ i \in op[s].items
                                     THEN op[s].stock[i] ELSE inventories[c][i]
        /\ op'[s].pc = "idle"
        /\ \A r \in Sessions \ {s} : op'[r] = op[r]
    BY <1>1, FillEffect
  <1>3. \A c \in Clients, i \in Items : UpdatePending(c, i) =>
           UpdatePending(c, i)' \/ (c = Owner[s] /\ i \in op[s].items)
    BY <1>2 DEF UpdatePending, At
  <1>4. ASSUME NEW c \in Clients, NEW i \in Items
        PROVE  \/ inventories'[c][i] = table'[c][i]
               \/ inventories'[c][i] = NoStock /\ c \notin fullyCached'
               \/ UpdatePending(c, i)'
    <2>1. CASE c = Owner[s] /\ i \in op[s].items
      BY <1>1, <1>2, <2>1 DEF FreshHeld
    <2>2. CASE ~(c = Owner[s] /\ i \in op[s].items)
      <3>1. c \in fullyCached' => c \in fullyCached
        BY <1>1, <2>2 DEF FreshHeld, At
      <3>2. inventories'[c][i] = inventories[c][i] /\ (UpdatePending(c, i) => UpdatePending(c, i)')
        BY <1>2, <1>3, <2>2
      <3> QED
        BY <3>1, <3>2 DEF FreshInv, FreshCache
    <2> QED
      BY <2>1, <2>2
  <1>5. FreshCache'
    BY <1>4 DEF FreshCache
  <1>6. FreshHeld(s)'
    BY <1>2 DEF FreshHeld, At
  <1>7. ASSUME NEW r \in Sessions \ {s} PROVE FreshHeld(r)'
    BY <1>2 DEF FreshInv, FreshHeld, At
  <1> QED
    BY <1>5, <1>6, <1>7

LEMMA FreshInvInit == Init => FreshInv
  BY InitTypeOK, EmptyStockType, IdleType
     DEF Init, FreshInv, FreshCache, FreshHeld, At

LEMMA FreshInvNext ==
  ASSUME OneSessionPerClient
  PROVE  FreshInv /\ [Next]_vars => FreshInv'
  <1> SUFFICES ASSUME FreshInv, [Next]_vars
               PROVE  FreshCache' /\ \A r \in Sessions : FreshHeld(r)'
    BY TypeOKNext DEF FreshInv
  <1>0. TypeOK /\ \A s \in Sessions : Owner[s] \in Clients /\ op[s].items \in SUBSET Items
    BY InventoryAssumption DEF FreshInv, TypeOK
  <1>1. ASSUME NEW s \in Sessions, NEW i \in Items, NEW q \in Quantities, SaveStockUpdate(s, i, q)
        PROVE  FreshCache' /\ \A r \in Sessions : FreshHeld(r)'
    BY <1>1, SaveFresh
  <1>2. ASSUME NEW s \in Sessions, CacheUpdate(s) \/ CacheStock(s) \/ SummaryFill(s)
        PROVE  FreshCache' /\ \A r \in Sessions : FreshHeld(r)'
    BY <1>2, FillFresh DEF CacheUpdate, CacheStock, SummaryFill, At
  <1>3. ASSUME NEW s \in Sessions, op[s].pc # "saved", op' = [op EXCEPT ![s] = Idle],
               UNCHANGED <<table, inventories, fullyCached>>
        PROVE  FreshCache' /\ \A r \in Sessions : FreshHeld(r)'
    <2>1. op'[s].pc = "idle" /\ \A r \in Sessions \ {s} : op'[r] = op[r]
      BY <1>0, <1>3, IdleEffect, Zenon
    <2>2. FreshHeld(s)'
      BY <2>1 DEF FreshHeld, At
    <2> QED
      BY <1>3, <2>1, <2>2, QuietFresh
  <1>4. ASSUME NEW s \in Sessions, NEW i \in Items, GetStockHit(s, i)
        PROVE  FreshCache' /\ \A r \in Sessions : FreshHeld(r)'
    BY <1>3, <1>4, Zenon DEF GetStockHit, Reply, At
  <1>5. ASSUME NEW s \in Sessions,
               ReadNoRow(s) \/ ReadThrows(s) \/ SummaryHit(s) \/ SummaryEmpty(s)
        PROVE  FreshCache' /\ \A r \in Sessions : FreshHeld(r)'
    BY <1>3, <1>5, SMTT(30) DEF ReadNoRow, ReadThrows, SummaryHit, SummaryEmpty, Reply, At
  <1>6. ASSUME NEW s \in Sessions, NEW i \in Items, GetStockMiss(s, i)
        PROVE  FreshCache' /\ \A r \in Sessions : FreshHeld(r)'
    <2>1. /\ op'[s].pc = "missed" /\ op'[s].items = {i}
          /\ \A r \in Sessions \ {s} : op'[r] = op[r]
      BY <1>0, <1>6, HoldEffect, EmptyStockType DEF GetStockMiss
    <2>2. FreshHeld(s)'
      BY <2>1 DEF FreshHeld, At
    <2> QED
      BY <1>6, <2>1, <2>2, QuietFresh DEF GetStockMiss, At
  <1>7. ASSUME NEW s \in Sessions, ReadRow(s)
        PROVE  FreshCache' /\ \A r \in Sessions : FreshHeld(r)'
    <2>0. Row(s) \in Stock /\ FreshHeld(s)
      BY <1>0 DEF TypeOK, Row, FreshInv
    <2>1. /\ op'[s].pc = "fetched" /\ op'[s].items = op[s].items /\ op'[s].stock = Row(s)
          /\ \A r \in Sessions \ {s} : op'[r] = op[r]
      BY <1>0, <1>7, <2>0, HoldEffect, SMTT(30) DEF ReadRow
    <2>2. FreshHeld(s)'
      BY <1>7, <2>0, <2>1, SMTT(30) DEF FreshHeld, At, Row, ReadRow
    <2> QED
      BY <1>7, <2>1, <2>2, QuietFresh DEF ReadRow, At
  <1>8. ASSUME NEW s \in Sessions, SummaryRead(s)
        PROVE  FreshCache' /\ \A r \in Sessions : FreshHeld(r)'
    <2>0. Row(s) \in Stock /\ Items \in SUBSET Items
      BY <1>0 DEF TypeOK, Row
    <2>1. /\ op'[s].pc = "loaded" /\ op'[s].items = Items /\ op'[s].stock = Row(s)
          /\ \A r \in Sessions \ {s} : op'[r] = op[r]
      BY <1>0, <1>8, <2>0, HoldEffect, SMTT(30) DEF SummaryRead
    <2>2. FreshHeld(s)'
      BY <1>8, <2>1 DEF FreshHeld, At, Row, SummaryRead
    <2> QED
      BY <1>8, <2>1, <2>2, QuietFresh DEF SummaryRead, At
  <1>9. CASE Crash
    <2>1. \A r \in Sessions : op'[r].pc = "idle"
      BY <1>9, IdleType, SMTT(30) DEF Crash
    <2> QED
      BY <1>9, <2>1, EmptyStockType DEF Crash, FreshCache, FreshHeld, At
  <1>10. CASE UNCHANGED vars
    BY <1>10 DEF vars, FreshInv, FreshCache, FreshHeld, UpdatePending, At
  <1> QED
    BY <1>1, <1>2, <1>4, <1>5, <1>6, <1>7, <1>8, <1>9, <1>10 DEF Next, SessionStep

\* An answer with the quantities of the table is an answer of the store.
LEMMA AnswerStep ==
  ASSUME NEW s \in Sessions, NEW I, NEW st, I = Items \/ (\E i \in Items : I = {i}),
         \A i \in I : st[i] = table[Owner[s]][i],
         Reply(s, I, st), UNCHANGED table
  PROVE  Store!Next
  <1>1. [i \in I |-> st[i]] = [i \in I |-> table[Owner[s]][i]]
    OBVIOUS
  <1>2. Store!Answer(s, I)
    BY <1>1, Zenon DEF Reply, Store!Answer
  <1> QED
    BY <1>2, Zenon DEF Store!Next

LEMMA StepRefines ==
  ASSUME OneSessionPerClient
  PROVE  FreshInv /\ [Next]_vars => [Store!Next]_(Store!vars)
  <1> SUFFICES ASSUME FreshInv, [Next]_vars
               PROVE  Store!Next \/ UNCHANGED <<table, reply>>
    BY DEF Store!vars
  <1>0. /\ TypeOK /\ FreshCache
        /\ \A s \in Sessions : Owner[s] \in Clients /\ FreshHeld(s) /\ op[s].items \in SUBSET Items
    BY InventoryAssumption, SMTT(30) DEF FreshInv, TypeOK
  <1>p. ASSUME NEW s \in Sessions, At(s, "idle"), NEW i \in Items
        PROVE  ~UpdatePending(Owner[s], i)
    BY <1>p DEF UpdatePending, OneSessionPerClient, At
  <1>1. ASSUME NEW s \in Sessions, NEW i \in Items, NEW q \in Quantities, SaveStockUpdate(s, i, q)
        PROVE  Store!Next
    <2>1. Store!Write(s, i, q)
      BY <1>1 DEF SaveStockUpdate, Store!Write
    <2> QED
      BY <2>1 DEF Store!Next
  <1>2. ASSUME NEW s \in Sessions, CacheUpdate(s) \/ CacheStock(s) \/ SummaryFill(s)
        PROVE  Store!Next
    <2>1. /\ op[s].pc \in {"saved", "fetched", "loaded"}
          /\ Reply(s, op[s].items, op[s].stock) /\ UNCHANGED table
      BY <1>2 DEF CacheUpdate, CacheStock, SummaryFill, FillCache, At
    <2>2. /\ op[s].items = Items \/ \E i \in Items : op[s].items = {i}
          /\ \A i \in op[s].items : op[s].stock[i] = table[Owner[s]][i]
      BY <1>0, <2>1 DEF FreshHeld, At
    <2> QED
      BY <2>1, <2>2, AnswerStep, SMTT(30)
  <1>3. ASSUME NEW s \in Sessions, NEW i \in Items, GetStockHit(s, i)
        PROVE  Store!Next
    <2>1. At(s, "idle") /\ Cached(s)[i] # NoStock /\ Reply(s, {i}, Cached(s)) /\ UNCHANGED table
      BY <1>3, SMTT(30) DEF GetStockHit
    <2>2. Cached(s)[i] = table[Owner[s]][i]
      BY <1>0, <1>p, <2>1 DEF FreshCache, Cached
    <2> QED
      BY <2>1, <2>2, AnswerStep
  <1>4. ASSUME NEW s \in Sessions, ReadNoRow(s)
        PROVE  Store!Next
    <2>1. /\ \A i \in op[s].items : EmptyStock[i] = table[Owner[s]][i]
          /\ Reply(s, op[s].items, EmptyStock) /\ UNCHANGED table
      BY <1>0, <1>4, EmptyStockType, SMTT(30) DEF ReadNoRow, Row
    <2>2. \E i \in Items : op[s].items = {i}
      BY <1>0, <1>4 DEF ReadNoRow, FreshHeld, At
    <2> QED
      BY <2>1, <2>2, AnswerStep
  <1>5. ASSUME NEW s \in Sessions, SummaryHit(s)
        PROVE  Store!Next
    <2>1. /\ At(s, "idle") /\ Owner[s] \in fullyCached
          /\ Reply(s, Items, Cached(s)) /\ UNCHANGED table
      BY <1>5 DEF SummaryHit
    <2>2. \A i \in Items : Cached(s)[i] = table[Owner[s]][i]
      BY <1>0, <1>p, <2>1 DEF FreshCache, Cached
    <2> QED
      BY <2>1, <2>2, AnswerStep
  <1>6. ASSUME NEW s \in Sessions, SummaryEmpty(s)
        PROVE  Store!Next
    <2>1. Row(s) = EmptyStock /\ Reply(s, Items, EmptyStock) /\ UNCHANGED table
      BY <1>6 DEF SummaryEmpty
    <2> QED
      BY <2>1, AnswerStep DEF Row
  <1>7. ASSUME NEW s \in Sessions,
               \/ \E i \in Items : GetStockMiss(s, i)
               \/ ReadRow(s) \/ ReadThrows(s) \/ SummaryRead(s)
        PROVE  UNCHANGED <<table, reply>>
    BY <1>7, Zenon DEF GetStockMiss, ReadRow, ReadThrows, SummaryRead
  <1>8. CASE Crash
    BY <1>8 DEF Crash, Store!Restart, Store!Next
  <1>9. CASE UNCHANGED vars
    BY <1>9 DEF vars
  <1> QED
    BY <1>1, <1>2, <1>3, <1>4, <1>5, <1>6, <1>7, <1>8, <1>9 DEF Next, SessionStep

(***************************************************************************)
(* When no two sessions are logged in as the same client, the cache cannot *)
(* be told from the table: Inventory implements InventoryStore.            *)
(***************************************************************************)
THEOREM StoreImplemented ==
    ASSUME OneSessionPerClient
    PROVE  Spec => ImplementsStore
  <1>1. Init => Store!Init
    BY DEF Init, EmptyStock, Store!Init
  <1> QED
    BY <1>1, FreshInvInit, FreshInvNext, StepRefines, PTL DEF Spec, ImplementsStore, Store!Spec
=============================================================================
