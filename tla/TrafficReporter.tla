-------------------------- MODULE TrafficReporter ---------------------------
(***************************************************************************)
(* The traffic counters (trafficReporter.cpp).  The prometheus library     *)
(* keeps the counters and is thread safe; the reporter keeps three maps,   *)
(* for messages, errors and reconnections, from labels to pointers to the  *)
(* counters, and takes no mutex for them.  Every handler calls it, from    *)
(* the event loop and from the workers.                                    *)
(*                                                                         *)
(* A counter is a pair <<map, label>>.  A lookup or an insertion while     *)
(* another thread inserts into the same map is a data race: it misses an   *)
(* entry, loses one, or the process ends.                                  *)
(***************************************************************************)
EXTENDS Naturals, FiniteSetsExt

CONSTANTS Threads, Counters, NoCounter,
          MaxCalls   \* bound: messages counted by a process

VARIABLES at,        \* where each thread is in incrementMessage, -Error, -Reconnection
          counting,  \* its counter
          entries,   \* the counters that are in their map
          value      \* the counters of prometheus

\* Observers, since the start of the process.
VARIABLES calls,     \* calls for each counter
          raced      \* a data race has happened

\* A new process has new maps and counters.
TrafficInit ==
    /\ at = [t \in Threads |-> "idle"] /\ counting = [t \in Threads |-> NoCounter]
    /\ entries = {} /\ value = [c \in Counters |-> 0]
    /\ calls = [c \in Counters |-> 0] /\ raced = FALSE

TrafficRestart ==
    /\ at' = [t \in Threads |-> "idle"] /\ counting' = [t \in Threads |-> NoCounter]
    /\ entries' = {} /\ value' = [c \in Counters |-> 0]
    /\ calls' = [c \in Counters |-> 0] /\ raced' = FALSE

\* Another thread is inserting into the map of counter c.
Conflict(t, c) ==
    \E u \in Threads \ {t} : at[u] = "insert" /\ counting[u][1] = c[1]

CallsMade == MapThenSumSet(LAMBDA c : calls[c], Counters)

At(t, label) == at' = [at EXCEPT ![t] = label]

-----------------------------------------------------------------------------
\* The lookup: m_message_counters.find and its likes.
Find(t, c) ==
    /\ at[t] = "idle" /\ CallsMade < MaxCalls
    /\ calls' = [calls EXCEPT ![c] = @ + 1]
    /\ counting' = [counting EXCEPT ![t] = c]
    /\ \/ c \in entries /\ At(t, "increment")
       \/ (c \notin entries \/ Conflict(t, c)) /\ At(t, "add")
    /\ raced' = (raced \/ Conflict(t, c))
    /\ UNCHANGED <<entries, value>>

\* Family::Add, which answers with the counter of these labels, old or new.
Add(t) ==
    /\ at[t] = "add"
    /\ At(t, "insert")
    /\ UNCHANGED <<counting, entries, value, calls, raced>>

\* A mutant: the message that creates the counter is not counted.
InsertOnly(t) ==
    /\ at[t] = "insert"
    /\ entries' = entries \cup {counting[t]}
    /\ raced' = (raced \/ Conflict(t, counting[t]))
    /\ At(t, "idle")
    /\ counting' = [counting EXCEPT ![t] = NoCounter]
    /\ UNCHANGED <<value, calls>>

\* The entry is in the map, or lost in a race.
Insert(t) ==
    /\ at[t] = "insert"
    /\ \/ entries' = entries \cup {counting[t]}
       \/ Conflict(t, counting[t]) /\ UNCHANGED entries
    /\ raced' = (raced \/ Conflict(t, counting[t]))
    /\ At(t, "increment")
    /\ UNCHANGED <<counting, value, calls>>

\* Counter::Increment is atomic.
Increment(t) ==
    /\ at[t] = "increment"
    /\ value' = [value EXCEPT ![counting[t]] = @ + 1]
    /\ counting' = [counting EXCEPT ![t] = NoCounter]
    /\ At(t, "idle")
    /\ UNCHANGED <<entries, calls, raced>>

\* A race that ends the process.
Ends(t) == at[t] \in {"add", "insert"} /\ Conflict(t, counting[t])

CountStep(t) == Add(t) \/ Insert(t) \/ Increment(t)

\* getMessageCount, getErrorCount and getReconnectionCount.
getCount(c) == IF c \in entries THEN value[c] ELSE 0

=============================================================================
