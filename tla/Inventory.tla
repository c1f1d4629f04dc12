----------------------------- MODULE Inventory ------------------------------
(***************************************************************************)
(* Inventory (src/server/inventory.cpp): a cache in front of the inventory *)
(* table of Storage, used by the workers that run client sessions.         *)
(*                                                                         *)
(* Each session is run by one worker at a time and executes one command at *)
(* a time for the client it is logged in as.  A statement on the table is  *)
(* atomic (Storage::m_dbMutex), and so is each access to the cache         *)
(* (Inventory::m_mutex), but updateStock and getStock visit the two in     *)
(* separate critical sections.  getInventorySummary holds m_mutex across   *)
(* its query.  A missing row or entry is NoStock.                          *)
(***************************************************************************)
EXTENDS Integers

CONSTANTS Sessions, Clients, Owner, Items, Quantities, NoStock, NoReply,
          ValidItems,  \* s_validItems
          Hubs,        \* client identifiers that start with "Hub"
          NoSession    \* m_mutex is not held across a query

ASSUME InventoryAssumption ==
    /\ Owner \in [Sessions -> Clients]
    /\ ValidItems \subseteq Items
    /\ Quantities \subseteq Int
    /\ NoStock \notin Int
    /\ NoSession \notin Sessions

VARIABLES table,         \* the inventory table: table[c][i]
          inventories,   \* m_inventories: inventories[c][i]
          fullyCached,   \* m_fullyCachedClients
          mutex,         \* m_mutex: the session holding it across a query
          op,            \* the command each session is in the middle of
          reply          \* the last answer about stock given to each session

vars == <<table, inventories, fullyCached, mutex, op, reply>>

EmptyStock == [i \in Items |-> NoStock]
Idle == [pc |-> "idle", items |-> {}, stock |-> EmptyStock]

Init ==
    /\ table = [c \in Clients |-> EmptyStock]
    /\ inventories = [c \in Clients |-> EmptyStock]
    /\ fullyCached = {}
    /\ mutex = NoSession
    /\ op = [s \in Sessions |-> Idle]
    /\ reply = [s \in Sessions |-> NoReply]

At(s, pc) == op[s].pc = pc
Row(s) == table[Owner[s]]
Cached(s) == inventories[Owner[s]]
Unlocked == mutex = NoSession

\* The command goes on, holding the quantities of the items I in its variables.
Hold(s, pc, I, stock) == op' = [op EXCEPT ![s] = [pc |-> pc, items |-> I, stock |-> stock]]

\* The command answers with the quantities of the items I and ends.
Reply(s, I, stock) ==
    /\ reply' = [reply EXCEPT ![s] = [i \in I |-> stock[i]]]
    /\ op' = [op EXCEPT ![s] = Idle]

\* Write what the command holds into the cache, then answer with it.
FillCache(s) ==
    /\ inventories' = [inventories EXCEPT ![Owner[s]] =
           [i \in Items |-> IF i \in op[s].items THEN op[s].stock[i] ELSE Cached(s)[i]]]
    /\ Reply(s, op[s].items, op[s].stock)

-----------------------------------------------------------------------------
(***************************************************************************)
(* updateStock.  A Hub, an unknown category or item, or a negative         *)
(* quantity is answered with an error and nothing changes.                 *)
(***************************************************************************)
SaveAnyQuantity(s, i, q) ==
    /\ At(s, "idle")
    /\ Owner[s] \notin Hubs /\ i \in ValidItems
    /\ table' = [table EXCEPT ![Owner[s]] = [@ EXCEPT ![i] = q]]
    /\ Hold(s, "saved", {i}, [EmptyStock EXCEPT ![i] = q])
    /\ UNCHANGED <<inventories, fullyCached, mutex, reply>>

SaveStockUpdate(s, i, q) ==
    /\ At(s, "idle")
    /\ Owner[s] \notin Hubs /\ i \in ValidItems /\ q >= 0
    /\ table' = [table EXCEPT ![Owner[s]] = [@ EXCEPT ![i] = q]]
    /\ Hold(s, "saved", {i}, [EmptyStock EXCEPT ![i] = q])
    /\ UNCHANGED <<inventories, fullyCached, mutex, reply>>

SkipCacheUpdate(s) ==
    /\ At(s, "saved") /\ Unlocked
    /\ Reply(s, op[s].items, op[s].stock)
    /\ UNCHANGED <<table, inventories, fullyCached, mutex>>

CacheUpdate(s) ==
    /\ At(s, "saved") /\ Unlocked
    /\ FillCache(s)
    /\ UNCHANGED <<table, fullyCached, mutex>>

-----------------------------------------------------------------------------
(***************************************************************************)
(* getStock: the cache, then the table, then the cache again.              *)
(***************************************************************************)
GetStockHit(s, i) ==
    /\ At(s, "idle") /\ Unlocked
    /\ Cached(s)[i] # NoStock
    /\ Reply(s, {i}, Cached(s))
    /\ UNCHANGED <<table, inventories, fullyCached, mutex>>

GetStockMiss(s, i) ==
    /\ At(s, "idle") /\ Unlocked
    /\ Cached(s)[i] = NoStock
    /\ Hold(s, "missed", {i}, EmptyStock)
    /\ UNCHANGED <<table, inventories, fullyCached, mutex, reply>>

ReadNoRow(s) ==
    /\ At(s, "missed")
    /\ \A i \in op[s].items : Row(s)[i] = NoStock
    /\ Reply(s, op[s].items, EmptyStock)
    /\ UNCHANGED <<table, inventories, fullyCached, mutex>>

ReadRow(s) ==
    /\ At(s, "missed")
    /\ \E i \in op[s].items : Row(s)[i] # NoStock
    /\ Hold(s, "fetched", op[s].items, Row(s))
    /\ UNCHANGED <<table, inventories, fullyCached, mutex, reply>>

CacheStock(s) ==
    /\ At(s, "fetched") /\ Unlocked
    /\ FillCache(s)
    /\ UNCHANGED <<table, fullyCached, mutex>>

\* The query throws: the session answers with an internal error.
ReadThrows(s) ==
    /\ At(s, "missed")
    /\ op' = [op EXCEPT ![s] = Idle]
    /\ UNCHANGED <<table, inventories, fullyCached, mutex, reply>>

-----------------------------------------------------------------------------
(***************************************************************************)
(* getInventorySummary, all of it under m_mutex.                           *)
(***************************************************************************)
SummaryHit(s) ==
    /\ At(s, "idle") /\ Unlocked
    /\ Owner[s] \in fullyCached
    /\ Reply(s, Items, Cached(s))
    /\ UNCHANGED <<table, inventories, fullyCached, mutex>>

SummaryEmpty(s) ==
    /\ At(s, "idle") /\ Unlocked
    /\ Owner[s] \notin fullyCached
    /\ Row(s) = EmptyStock
    /\ Reply(s, Items, EmptyStock)
    /\ UNCHANGED <<table, inventories, fullyCached, mutex>>

\* getFullInventory returned; the table may change before the cache is filled.
SummaryRead(s) ==
    /\ At(s, "idle") /\ Unlocked
    /\ Owner[s] \notin fullyCached
    /\ Row(s) # EmptyStock
    /\ Hold(s, "loaded", Items, Row(s))
    /\ mutex' = s
    /\ UNCHANGED <<table, inventories, fullyCached, reply>>

SummaryMarkOnly(s) ==
    /\ At(s, "loaded")
    /\ Reply(s, op[s].items, op[s].stock)
    /\ fullyCached' = fullyCached \cup {Owner[s]}
    /\ mutex' = NoSession
    /\ UNCHANGED <<table, inventories>>

SummaryFill(s) ==
    /\ At(s, "loaded")
    /\ FillCache(s)
    /\ fullyCached' = fullyCached \cup {Owner[s]}
    /\ mutex' = NoSession
    /\ UNCHANGED table

-----------------------------------------------------------------------------
\* The process dies and is started again: the table is all that survives.
Crash ==
    /\ inventories' = [c \in Clients |-> EmptyStock]
    /\ fullyCached' = {}
    /\ mutex' = NoSession
    /\ op' = [s \in Sessions |-> Idle]
    /\ reply' = [s \in Sessions |-> NoReply]
    /\ UNCHANGED table

SessionStep(s) ==
    \/ \E i \in Items, q \in Quantities : SaveStockUpdate(s, i, q)
    \/ CacheUpdate(s)
    \/ \E i \in Items : GetStockHit(s, i) \/ GetStockMiss(s, i)
    \/ ReadNoRow(s) \/ ReadRow(s) \/ CacheStock(s) \/ ReadThrows(s)
    \/ SummaryHit(s) \/ SummaryEmpty(s) \/ SummaryRead(s) \/ SummaryFill(s)

Next == (\E s \in Sessions : SessionStep(s)) \/ Crash

Spec == Init /\ [][Next]_vars

-----------------------------------------------------------------------------
Stock == [Items -> (Quantities \cap Nat) \cup {NoStock}]

(***************************************************************************)
(* Every variable has its type; no negative quantity is ever stored or     *)
(* cached, and m_mutex is held across a query by the session that is       *)
(* filling the cache with its result.                                      *)
(***************************************************************************)
TypeOK ==
    /\ table \in [Clients -> Stock]
    /\ inventories \in [Clients -> Stock]
    /\ fullyCached \subseteq Clients
    /\ mutex \in Sessions \cup {NoSession}
    /\ op \in [Sessions -> [pc : {"idle", "saved", "missed", "fetched", "loaded"},
                            items : SUBSET Items, stock : Stock]]
    /\ \A s \in Sessions : At(s, "loaded") <=> mutex = s

\* A session of client c has written the row of item i and not yet the cache.
UpdatePending(c, i) ==
    \E s \in Sessions : Owner[s] = c /\ At(s, "saved") /\ i \in op[s].items

(***************************************************************************)
(* A cached summary loses no row: for a client in m_fullyCachedClients the *)
(* cache has an entry for every row of the table, save for an update that  *)
(* is between its two writes, and no entry without a row.  It holds        *)
(* however many sessions the client has, because getInventorySummary keeps *)
(* m_mutex from its query to its write of the cache.                       *)
(***************************************************************************)
SummaryLosesNoRow ==
    \A c \in Clients, i \in Items :
        /\ inventories[c][i] # NoStock => table[c][i] # NoStock
        /\ c \in fullyCached /\ table[c][i] # NoStock /\ ~UpdatePending(c, i)
              => inventories[c][i] # NoStock

(***************************************************************************)
(* Inventory keeps the promises of InventoryStore: an answer from the      *)
(* cache is the stock of the table.  With two sessions of one client it is *)
(* not: updateStock writes the table and the cache in two critical         *)
(* sections, and getStock caches what it read before another's update.     *)
(***************************************************************************)
Store == INSTANCE InventoryStore WITH stock <- table
ImplementsStore == Store!Spec

=============================================================================
