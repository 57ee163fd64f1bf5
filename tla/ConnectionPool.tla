---------------------------- MODULE ConnectionPool ----------------------------
(***************************************************************************)
(* ConnectionPool (src/unity_bridge/host/transport.py): persistent         *)
(* connections of several threads, one per logical lane, replaced when the *)
(* endpoint behind the lane changes (its identity) and evicted when there  *)
(* are more lanes than the pool's capacity.                                *)
(*                                                                         *)
(* Two kinds of lock: the pool's own, and one per connection held for an   *)
(* exchange. retire() and the end of an exchange touch `retired` and the   *)
(* connection's lock in separate steps, so they are separate actions.      *)
(***************************************************************************)
EXTENDS Naturals, Sequences, FiniteSets, SequencesExt

CONSTANTS Threads,     \* threads that post
          Lanes,       \* keys of the pool
          Identities,  \* endpoint generations
          Capacity,    \* connections kept (32 in the code)
          MaxPosts,    \* bound on the posts of one thread
          Closes,      \* whether the owner closes the pool in this instance
          None         \* absent value

ASSUME PoolAssumption ==
    /\ IsFiniteSet(Threads)
    /\ {Capacity, MaxPosts} \subseteq Nat \ {0}
    /\ Closes \in BOOLEAN
    /\ None \notin Threads \cup Nat

VARIABLES
    order,     \* the pooled entries, least recently claimed first
    entry,     \* every entry made: its key, retired flag, connection and lock
    poolLock,  \* the thread that holds the pool's lock between two steps
    post,      \* post[t]: the post of thread t under way
    posts,     \* posts[t]: how many posts t has made
    closing    \* close(): entries still to be retired, and the one being retired

vars == <<order, entry, poolLock, post, posts, closing>>

Pcs == {"idle", "claim", "retire", "wait", "check", "sent", "finally", "release"}
Entries == 1..Len(entry)

\* The pool keeps one connection per lane and Capacity of them at most.
TypeOK ==
    /\ order \in Seq(Entries) /\ Len(order) <= Capacity
    /\ \A i, k \in DOMAIN order : entry[order[i]].lane = entry[order[k]].lane => i = k
    /\ entry \in Seq([lane : Lanes, identity : Identities, retired : BOOLEAN,
                      open : BOOLEAN, holder : Threads \cup {None}])
    /\ poolLock \in Threads \cup {None}
    /\ post \in [Threads -> [pc : Pcs, lane : Lanes \cup {None},
                             identity : Identities \cup {None},
                             entry : Entries \cup {None}, victim : Entries \cup {None}]]
    /\ posts \in [Threads -> 0..MaxPosts]
    /\ closing \in [left : SUBSET Entries, victim : Entries \cup {None}]

Idle == [pc |-> "idle", lane |-> None, identity |-> None, entry |-> None, victim |-> None]

Init ==
    /\ order = <<>>
    /\ entry = <<>>
    /\ poolLock = None
    /\ post = [t \in Threads |-> Idle]
    /\ posts = [t \in Threads |-> 0]
    /\ closing = [left |-> {}, victim |-> None]

At(t, p) == post[t].pc = p
Goto(t, p) == post' = [post EXCEPT ![t].pc = p]
Shut(e) == entry' = [entry EXCEPT ![e].open = FALSE]

-----------------------------------------------------------------------------

Begin(t, lane, identity) ==
    /\ At(t, "idle")
    /\ posts[t] < MaxPosts
    /\ posts' = [posts EXCEPT ![t] = @ + 1]
    /\ post' = [post EXCEPT ![t] = [Idle EXCEPT !.pc = "claim", !.lane = lane,
                                                !.identity = identity]]
    /\ UNCHANGED <<order, entry, poolLock, closing>>

\* The places in the order that hold a lane's connection: one at most.
Pooled(lane) == {n \in DOMAIN order : entry[order[n]].lane = lane}
Reusable(t) == {n \in Pooled(post[t].lane) : entry[order[n]].identity = post[t].identity}

Claimed(t, e, victim) ==
    /\ post' = [post EXCEPT ![t].entry = e, ![t].victim = victim,
                            ![t].pc = IF victim = None THEN "wait" ELSE "retire"]
    /\ poolLock' = IF victim = None THEN None ELSE t

\* A lane's connection is reused while its identity is the caller's.
Reuse(t) ==
    /\ At(t, "claim")
    /\ poolLock = None
    /\ \E n \in Reusable(t) :
          /\ order' = Append(RemoveAt(order, n), order[n])
          /\ Claimed(t, order[n], None)
    /\ UNCHANGED <<entry, posts, closing>>

Displaced_late(t) ==
    IF Pooled(post[t].lane) # {} THEN Pooled(post[t].lane)
    ELSE IF Len(order) > Capacity THEN {1} ELSE {}

\* The place a new entry takes away: the lane's former one, or the oldest of all.
Displaced(t) ==
    IF Pooled(post[t].lane) # {} THEN Pooled(post[t].lane)
    ELSE IF Len(order) = Capacity THEN {1} ELSE {}

Marked(e, victim) == entry[e].retired \/ e = victim

\* retire() first marks its entry and then tries the connection's lock.
Create(t) ==
    LET new == [lane |-> post[t].lane, identity |-> post[t].identity, retired |-> FALSE,
                open |-> FALSE, holder |-> None]
        n == Len(entry) + 1
        Enter(left, victim) ==
            /\ order' = Append(left, n)
            /\ entry' = [e \in 1..n |-> IF e = n THEN new
                                        ELSE [entry[e] EXCEPT !.retired = Marked(e, victim)]]
            /\ Claimed(t, n, victim)
    IN /\ At(t, "claim")
       /\ poolLock = None
       /\ Reusable(t) = {}
       /\ \/ Displaced(t) = {} /\ Enter(order, None)
          \/ \E v \in Displaced(t) : Enter(RemoveAt(order, v), order[v])
       /\ UNCHANGED <<posts, closing>>

ShutIfFree_blindly(e) == Shut(e)

ShutIfFree(e) == IF entry[e].holder = None THEN Shut(e) ELSE UNCHANGED entry

RetireTry_waits(t) ==
    /\ At(t, "retire")
    /\ entry[post[t].victim].holder = None
    /\ Shut(post[t].victim)
    /\ post' = [post EXCEPT ![t].pc = "wait", ![t].victim = None]
    /\ poolLock' = None
    /\ UNCHANGED <<order, posts, closing>>

RetireTry(t) ==
    /\ At(t, "retire")
    /\ ShutIfFree(post[t].victim)
    /\ post' = [post EXCEPT ![t].pc = "wait", ![t].victim = None]
    /\ poolLock' = None
    /\ UNCHANGED <<order, posts, closing>>

Acquire(t) ==
    /\ At(t, "wait")
    /\ entry[post[t].entry].holder = None
    /\ entry' = [entry EXCEPT ![post[t].entry].holder = t]
    /\ Goto(t, "check")
    /\ UNCHANGED <<order, poolLock, posts, closing>>

\* The deadline ends the wait for the connection; nothing was sent.
GiveUp(t) ==
    /\ At(t, "wait")
    /\ post' = [post EXCEPT ![t] = Idle]
    /\ UNCHANGED <<order, entry, poolLock, posts, closing>>

\* A missing, idle or closed socket is replaced before anything is written.
Transmit(t) ==
    /\ At(t, "check")
    /\ entry' = [entry EXCEPT ![post[t].entry].open = TRUE]
    /\ Goto(t, "sent")
    /\ UNCHANGED <<order, poolLock, posts, closing>>

Answer(t) ==
    /\ At(t, "sent")
    /\ Goto(t, "finally")
    /\ UNCHANGED <<order, entry, poolLock, posts, closing>>

\* A late or failed exchange closes its connection and is not repeated.
Fail(t) ==
    /\ post[t].pc \in {"check", "sent"}
    /\ Shut(post[t].entry)
    /\ Goto(t, "finally")
    /\ UNCHANGED <<order, poolLock, posts, closing>>

Finally(t) ==
    /\ At(t, "finally")
    /\ IF entry[post[t].entry].retired THEN Shut(post[t].entry) ELSE UNCHANGED entry
    /\ Goto(t, "release")
    /\ UNCHANGED <<order, poolLock, posts, closing>>

Release(t) ==
    /\ At(t, "release")
    /\ entry' = [entry EXCEPT ![post[t].entry].holder = None]
    /\ post' = [post EXCEPT ![t] = Idle]
    /\ UNCHANGED <<order, poolLock, posts, closing>>

\* close() empties the pool under its lock and retires the entries afterwards.
Close ==
    /\ Closes
    /\ poolLock = None
    /\ order # <<>>
    /\ closing.left = {}
    /\ closing' = [closing EXCEPT !.left = ToSet(order)]
    /\ order' = <<>>
    /\ UNCHANGED <<entry, poolLock, post, posts>>

CloseMark ==
    /\ closing.victim = None
    /\ \E e \in closing.left :
          /\ closing' = [left |-> closing.left \ {e}, victim |-> e]
          /\ entry' = [entry EXCEPT ![e].retired = TRUE]
    /\ UNCHANGED <<order, poolLock, post, posts>>

CloseTry ==
    /\ closing.victim # None
    /\ ShutIfFree(closing.victim)
    /\ closing' = [closing EXCEPT !.victim = None]
    /\ UNCHANGED <<order, poolLock, post, posts>>

-----------------------------------------------------------------------------

Post(t) == \/ Reuse(t) \/ Create(t) \/ RetireTry(t) \/ Acquire(t) \/ GiveUp(t)
           \/ Transmit(t) \/ Answer(t) \/ Fail(t) \/ Finally(t) \/ Release(t)

Next == \/ \E t \in Threads : Post(t) \/ \E l \in Lanes, i \in Identities : Begin(t, l, i)
        \/ Close \/ CloseMark \/ CloseTry

Spec == Init /\ [][Next]_vars

-----------------------------------------------------------------------------
(* Properties *)

Sending(t) == At(t, "sent")

\* An exchange has its connection to itself, from the first byte to the answer: whoever
\* replaces, evicts or closes connections leaves it open, nobody else uses it, also who
\* waited for it when it was retired, and it goes to the endpoint it was meant for.
PrivateExchange ==
    \A t \in Threads : Sending(t) =>
        LET e == post[t].entry IN
        /\ entry[e].open
        /\ \A u \in Threads \ {t} : Sending(u) => post[u].entry # e
        /\ entry[e].lane = post[t].lane /\ entry[e].identity = post[t].identity

\* Whoever has the pool's lock can go on and release it, although every exchange may
\* last for ever: nothing under that lock waits for a connection.
PoolNeverBlocks == \A t \in Threads : poolLock = t => ENABLED Post(t)

\* Docstring: retiring a busy connection "closes it after its response": once nobody
\* uses a retired connection or is about to close it, it is closed.
RetiredIsClosed ==
    \A e \in Entries :
        /\ entry[e].retired
        /\ entry[e].holder = None
        /\ closing.victim # e
        /\ \A t \in Threads : post[t].victim # e /\ post[t].entry # e
        => ~entry[e].open
=============================================================================
