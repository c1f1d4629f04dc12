----------------------------- MODULE MCDialogue -----------------------------
(* One line of every kind: well formed, short of words, not numeric.       *)
EXTENDS Dialogue

Single == {"status", "end", "get_inventory", "get_history", "other"}
Typed(word, args) == [word |-> word, args |-> args, numeric |-> TRUE]

MCLines ==
    {Typed(word, 0) : word \in Words \ {"login", "unlock_client", "get_stock"}}
    \cup {Typed(word, 3) : word \in Words \ (Single \cup {Blank, Empty})}
    \cup {[word |-> "update_stock", args |-> 3, numeric |-> FALSE], Typed("end", 1)}

=============================================================================
