--------------------------- MODULE InventoryStore ---------------------------
(***************************************************************************)
(* What the inventory promises its clients: there is one stock per client, *)
(* it survives a restart of the server, and every answer a session gets is *)
(* the stock of its client at that moment.                                 *)
(***************************************************************************)
CONSTANTS Sessions,    \* connections that send commands
          Clients,     \* client identifiers
          Owner,       \* the client each session is logged in as
          Items,       \* category and item
          Quantities,  \* stock quantities
          NoStock,     \* the client has no entry for the item
          NoReply      \* a session that was not answered yet

VARIABLES stock,       \* stock[c][i]
          reply        \* the last answer about stock given to each session

vars == <<stock, reply>>

Init ==
    /\ stock = [c \in Clients |-> [i \in Items |-> NoStock]]
    /\ reply = [s \in Sessions |-> NoReply]

Write(s, i, q) ==
    /\ stock' = [stock EXCEPT ![Owner[s]] = [@ EXCEPT ![i] = q]]
    /\ UNCHANGED reply

\* The answer to get_stock or get_inventory, and what a successful update_stock
\* reports: the quantities of the items I.
Answer(s, I) ==
    /\ reply' = [reply EXCEPT ![s] = [i \in I |-> stock[Owner[s]][i]]]
    /\ UNCHANGED stock

Restart ==
    /\ reply' = [s \in Sessions |-> NoReply]
    /\ UNCHANGED stock

Next ==
    \/ \E s \in Sessions, i \in Items, q \in Quantities : Write(s, i, q)
    \/ \E s \in Sessions : Answer(s, Items) \/ \E i \in Items : Answer(s, {i})
    \/ Restart

Spec == Init /\ [][Next]_vars
=============================================================================
