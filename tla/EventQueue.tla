----------------------------- MODULE EventQueue -----------------------------
(***************************************************************************)
(* EventQueue (src/server/eventQueue.cpp): one bounded deque of alerts per *)
(* user.  The class has no mutex; the module that uses it decides which    *)
(* calls may overlap.  A missing map entry and an empty deque behave alike *)
(* (popEvent erases empty deques), so both are the empty sequence here.    *)
(***************************************************************************)
EXTENDS Naturals, Sequences

CONSTANTS Recipients,   \* keys of m_eventQueueMap
          Events,       \* events, all of type NOTIFICATION
          QueueSize     \* m_queueSize; Config::serverConfig rejects <= 0

VARIABLE eventQueue     \* m_eventQueueMap

EventQueueInit == eventQueue = [u \in Recipients |-> <<>>]

PushedUnbounded(q, e) == Append(q, e)

PushedKeepingOldest(q, e) == IF Len(q) >= QueueSize THEN q ELSE Append(q, e)

\* At capacity the oldest event makes room for the new one.
Pushed(q, e) == IF Len(q) >= QueueSize THEN Append(Tail(q), e) ELSE Append(q, e)

pushEvent(u, e) == eventQueue' = [eventQueue EXCEPT ![u] = Pushed(@, e)]

hasEvent(u) == eventQueue[u] # <<>>

\* popEvent returning true with event e; with an empty deque it returns false.
popEvent(u, e) ==
    /\ hasEvent(u)
    /\ e = Head(eventQueue[u])
    /\ eventQueue' = [eventQueue EXCEPT ![u] = Tail(@)]

EventQueueTypeOK ==
    /\ eventQueue \in [Recipients -> Seq(Events)]
    /\ \A u \in Recipients : Len(eventQueue[u]) <= QueueSize
=============================================================================
