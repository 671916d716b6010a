--------------------------- MODULE MCQueueRouting ---------------------------
(***************************************************************************)
(* Two queues that name each other, and one that both may name; a list may  *)
(* come and go, with other people to dial.                                  *)
(***************************************************************************)
EXTENDS QueueRouting

To(who, priority) == [to |-> who, priority |-> priority]

MCQueues == {"day", "after", "late"}

MCListings ==
    [day   |-> {{To("alice", 0), To("after", 10), To("late", 20)}, {To("bob", 0), To("alice", 5)}},
     after |-> {{To("carol", 0), To("day", 10)}},
     late  |-> {{}, {To("dave", 0)}}]

\* One queue is enough for its hours.
OneQueue == {"day"}
OneListing == [day |-> {{To("alice", 0)}}]
=============================================================================
