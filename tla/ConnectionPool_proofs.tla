------------------------- MODULE ConnectionPool_proofs -------------------------
(* Proofs about ConnectionPool, for any finite set of threads and any lanes,  *)
(* endpoints and capacity.  The inductive invariant IInv says that an entry's *)
(* lock and the thread that has it know of each other, that a post works with *)
(* an entry made for its lane and endpoint, and that a connection stays open  *)
(* while an exchange is under way on it.                                      *)
EXTENDS ConnectionPool, SequenceTheorems, TLAPS

\* What is left of a sequence from which one place is taken.
LEMMA RemoveAtProperties ==
  ASSUME NEW S, NEW s \in Seq(S), NEW n \in 1..Len(s)
  PROVE  /\ RemoveAt(s, n) \in Seq(S)
         /\ Len(RemoveAt(s, n)) = Len(s) - 1
         /\ \A i \in 1..(Len(s) - 1) : RemoveAt(s, n)[i] = IF i < n THEN s[i] ELSE s[i + 1]
<1> DEFINE a == SubSeq(s, 1, n - 1)
           b == SubSeq(s, n + 1, Len(s))
<1>1. Len(s) \in Nat /\ \A i \in 1..Len(s) : s[i] \in S
  BY LenProperties, ElementOfSeq
<1>2. /\ a \in Seq(S) /\ Len(a) = n - 1
      /\ \A i \in 1..(n - 1) : a[i] = s[i]
  BY <1>1, SubSeqProperties
<1>3. /\ b \in Seq(S) /\ Len(b) = Len(s) - n
      /\ \A i \in 1..(Len(s) - n) : b[i] = s[n + i]
  <2>1. /\ b \in Seq(S) /\ Len(b) = (IF n + 1 <= Len(s) THEN Len(s) - (n + 1) + 1 ELSE 0)
        /\ \A i \in 1..(Len(s) - (n + 1) + 1) : b[i] = s[n + 1 + i - 1]
    BY <1>1, SubSeqProperties
  <2> HIDE DEF b
  <2>2. ASSUME NEW i \in 1..(Len(s) - n) PROVE b[i] = s[n + i]
    <3>1. i \in 1..(Len(s) - (n + 1) + 1) /\ n + 1 + i - 1 = n + i
      BY <1>1
    <3> QED BY <2>1, <3>1
  <2> QED BY <1>1, <2>1, <2>2
<1>4. RemoveAt(s, n) = a \o b
  BY DEF RemoveAt
<1> HIDE DEF a, b
<1>5. /\ a \o b \in Seq(S) /\ Len(a \o b) = Len(a) + Len(b)
      /\ \A i \in 1..(Len(a) + Len(b)) : (a \o b)[i] = IF i <= Len(a) THEN a[i] ELSE b[i - Len(a)]
  BY <1>2, <1>3, ConcatProperties
<1>6. ASSUME NEW i \in 1..(Len(s) - 1)
      PROVE  (a \o b)[i] = IF i < n THEN s[i] ELSE s[i + 1]
  <2>1. i \in 1..(Len(a) + Len(b)) /\ (i <= Len(a) <=> i < n)
    BY <1>1, <1>2, <1>3
  <2>2. CASE i < n
    BY <1>2, <1>5, <2>1, <2>2
  <2>3. CASE ~(i < n)
    <3>1. i - Len(a) \in 1..(Len(s) - n) /\ n + (i - Len(a)) = i + 1
      BY <1>1, <1>2, <2>3
    <3> QED BY <1>3, <1>5, <2>1, <2>3, <3>1
  <2> QED BY <2>2, <2>3
<1> QED BY <1>1, <1>2, <1>3, <1>4, <1>5, <1>6

\* Between taking and releasing the connection's lock.
Busy(t) == post[t].pc \in {"check", "sent", "finally", "release"}

PostOK(t) ==
  /\ post[t].pc # "idle" => post[t].lane \in Lanes /\ post[t].identity \in Identities
  /\ post[t].pc \notin {"idle", "claim"} =>
        /\ post[t].entry \in Entries
        /\ entry[post[t].entry].lane = post[t].lane
        /\ entry[post[t].entry].identity = post[t].identity
  /\ post[t].pc = "retire" => post[t].victim \in Entries
  /\ Busy(t) => entry[post[t].entry].holder = t
  /\ post[t].pc = "sent" => entry[post[t].entry].open

HolderInv ==
  \A e \in Entries : entry[e].holder # None =>
                        Busy(entry[e].holder) /\ post[entry[e].holder].entry = e

IInv == TypeOK /\ HolderInv /\ \A t \in Threads : PostOK(t)

EntryRecord == [lane : Lanes, identity : Identities, retired : BOOLEAN, open : BOOLEAN,
                holder : Threads \cup {None}]

PostRecord == [pc : Pcs, lane : Lanes \cup {None}, identity : Identities \cup {None},
               entry : Entries \cup {None}, victim : Entries \cup {None}]

--------------------------------------------------------------------------------
(* Records of entries and of posts *)

\* The types of the two records, as the type invariant has them.
LEMMA RecordTypes ==
  ASSUME TypeOK
  PROVE  /\ entry \in Seq(EntryRecord) /\ Len(entry) \in Nat
         /\ \A e \in Entries : entry[e] \in EntryRecord
         /\ post \in [Threads -> PostRecord]
<1>1. entry \in Seq(EntryRecord) /\ post \in [Threads -> PostRecord]
  BY DEF TypeOK, EntryRecord, PostRecord
<1> QED BY <1>1, LenProperties, ElementOfSeq DEF Entries

\* A step that changes one entry in its flags.
LEMMA EntryChange ==
  ASSUME TypeOK, NEW e \in Entries, NEW f \in EntryRecord,
         f.lane = entry[e].lane, f.identity = entry[e].identity,
         entry' = [entry EXCEPT ![e] = f]
  PROVE  /\ entry' \in Seq(EntryRecord) /\ Len(entry') = Len(entry) /\ Entries' = Entries
         /\ entry'[e] = f
         /\ \A k \in Entries \ {e} : entry'[k] = entry[k]
         /\ \A k \in Entries : entry'[k].lane = entry[k].lane /\ entry'[k].identity = entry[k].identity
<1>1. entry \in Seq(EntryRecord)
  BY RecordTypes
<1>2. /\ entry' \in Seq(EntryRecord) /\ Len(entry') = Len(entry) /\ entry'[e] = f
      /\ \A k \in Entries \ {e} : entry'[k] = entry[k]
  BY <1>1, ExceptSeq DEF Entries
<1> QED BY <1>2 DEF Entries

\* Closing a connection and marking an entry change nothing else.
LEMMA ShutChange ==
  ASSUME TypeOK, NEW e \in Entries, Shut(e)
  PROVE  /\ entry' \in Seq(EntryRecord) /\ Len(entry') = Len(entry) /\ Entries' = Entries
         /\ \A k \in Entries \ {e} : entry'[k] = entry[k]
         /\ \A k \in Entries : /\ entry'[k].lane = entry[k].lane
                               /\ entry'[k].identity = entry[k].identity
                               /\ entry'[k].holder = entry[k].holder
<1> DEFINE f == [entry[e] EXCEPT !.open = FALSE]
<1>1. /\ f \in EntryRecord /\ f.lane = entry[e].lane /\ f.identity = entry[e].identity
      /\ f.holder = entry[e].holder
  BY RecordTypes DEF EntryRecord
<1>2. entry' = [entry EXCEPT ![e] = f]
  BY DEF Shut
<1> HIDE DEF f
<1>3. /\ entry' \in Seq(EntryRecord) /\ Len(entry') = Len(entry) /\ Entries' = Entries
      /\ entry'[e] = f
      /\ \A k \in Entries \ {e} : entry'[k] = entry[k]
      /\ \A k \in Entries : entry'[k].lane = entry[k].lane /\ entry'[k].identity = entry[k].identity
  BY <1>1, <1>2, EntryChange
<1> QED BY <1>1, <1>3

\* A post goes on.
LEMMA GotoChange ==
  ASSUME TypeOK, NEW t \in Threads, NEW p \in Pcs, Goto(t, p)
  PROVE  /\ post' \in [Threads -> PostRecord]
         /\ \A u \in Threads \ {t} : post'[u] = post[u]
         /\ post'[t] \in PostRecord /\ post'[t].pc = p
         /\ post'[t].lane = post[t].lane /\ post'[t].identity = post[t].identity
         /\ post'[t].entry = post[t].entry /\ post'[t].victim = post[t].victim
<1> DEFINE q == [post[t] EXCEPT !.pc = p]
<1>1. /\ q \in PostRecord /\ q.pc = p /\ q.lane = post[t].lane /\ q.identity = post[t].identity
      /\ q.entry = post[t].entry /\ q.victim = post[t].victim
  BY RecordTypes DEF PostRecord
<1>2. post' = [post EXCEPT ![t] = q]
  BY DEF Goto
<1> HIDE DEF q
<1>3. post \in [Threads -> PostRecord]
  BY RecordTypes
<1> QED BY <1>1, <1>2, <1>3

\* The first states satisfy the invariant.
LEMMA InitInv == Init => IInv
<1> SUFFICES ASSUME Init PROVE IInv
  OBVIOUS
<1>1. Entries = {} /\ entry = <<>> /\ order = <<>>
  BY DEF Init, Entries
<1>2. TypeOK
  BY <1>1, PoolAssumption DEF Init, TypeOK, Idle, Pcs
<1>3. HolderInv /\ \A t \in Threads : PostOK(t)
  BY <1>1 DEF Init, Idle, HolderInv, PostOK, Busy
<1> QED BY <1>2, <1>3 DEF IInv

--------------------------------------------------------------------------------
(* The steps of a post *)

\* What is left to show of a step of one thread that leaves the order alone: that it
\* takes no connection from another thread's exchange.
LEMMA ThreadFrame ==
  ASSUME IInv, NEW t \in Threads, UNCHANGED <<order, closing>>,
         entry' \in Seq(EntryRecord), Len(entry') = Len(entry),
         \A e \in Entries : entry'[e].lane = entry[e].lane /\ entry'[e].identity = entry[e].identity,
         post' \in [Threads -> PostRecord],
         \A u \in Threads \ {t} : post'[u] = post[u],
         posts' \in [Threads -> 0..MaxPosts], poolLock' \in Threads \cup {None},
         \A e \in Entries : \A u \in Threads \ {t} :
            /\ entry[e].holder = u => entry'[e].holder = u /\ entry'[e].open = entry[e].open
            /\ entry'[e].holder = u => entry[e].holder = u,
         \A e \in Entries : entry'[e].holder = t => Busy(t)' /\ post'[t].entry = e,
         PostOK(t)'
  PROVE  IInv'
<1> USE DEF IInv
<1>1. Entries' = Entries
  BY DEF Entries
<1>2. TypeOK'
  <2>1. order' \in Seq(Entries') /\ Len(order') <= Capacity
    BY <1>1 DEF TypeOK
  <2>2. \A i, k \in DOMAIN order' :
           entry'[order'[i]].lane = entry'[order'[k]].lane => i = k
    <3>1. \A i \in DOMAIN order : order[i] \in Entries
      BY DEF TypeOK
    <3> QED BY <3>1 DEF TypeOK
  <2>3. closing' \in [left : SUBSET Entries', victim : Entries' \cup {None}]
    BY <1>1 DEF TypeOK
  <2>4. /\ entry' \in Seq([lane : Lanes, identity : Identities, retired : BOOLEAN,
                           open : BOOLEAN, holder : Threads \cup {None}])
        /\ post' \in [Threads -> [pc : Pcs, lane : Lanes \cup {None},
                                  identity : Identities \cup {None},
                                  entry : Entries' \cup {None}, victim : Entries' \cup {None}]]
    BY <1>1 DEF EntryRecord, PostRecord
  <2> QED BY <2>1, <2>2, <2>3, <2>4 DEF TypeOK
<1>3. HolderInv'
  <2> SUFFICES ASSUME NEW e \in Entries, entry'[e].holder # None
               PROVE  (Busy(entry[e].holder) /\ post[entry[e].holder].entry = e)'
    BY <1>1 DEF HolderInv
  <2>1. entry'[e] \in EntryRecord
    <3>1. e \in 1..Len(entry')
      BY DEF Entries
    <3> QED BY <3>1, ElementOfSeq
  <2>2. entry'[e].holder \in Threads
    BY <2>1 DEF EntryRecord
  <2>3. CASE entry'[e].holder = t
    BY <2>3 DEF Busy
  <2>4. CASE entry'[e].holder # t
    BY <2>2, <2>4 DEF HolderInv, Busy
  <2> QED BY <2>3, <2>4
<1>4. \A u \in Threads \ {t} : PostOK(u)'
  <2> SUFFICES ASSUME NEW u \in Threads \ {t} PROVE PostOK(u)'
    OBVIOUS
  <2>1. PostOK(u) /\ post'[u] = post[u]
    OBVIOUS
  <2> QED BY <1>1, <2>1 DEF PostOK, Busy
<1> QED BY <1>2, <1>3, <1>4

\* A post begins, takes its connection, or works with it.
LEMMA BeginStep ==
  ASSUME IInv, NEW t \in Threads, NEW l \in Lanes, NEW i \in Identities, Begin(t, l, i)
  PROVE  IInv'
<1> USE DEF IInv
<1> DEFINE q == [Idle EXCEPT !.pc = "claim", !.lane = l, !.identity = i]
<1>0. Idle \in PostRecord
  BY DEF PostRecord, Pcs, Idle
<1>1. q \in PostRecord /\ q.pc = "claim" /\ q.lane = l /\ q.identity = i
  BY <1>0 DEF PostRecord, Pcs
<1>2. post' = [post EXCEPT ![t] = q] /\ UNCHANGED <<order, entry, poolLock, closing>>
  BY DEF Begin
<1> HIDE DEF q
<1>3. /\ post' \in [Threads -> PostRecord] /\ post'[t] = q
      /\ \A u \in Threads \ {t} : post'[u] = post[u]
  BY <1>1, <1>2, RecordTypes
<1>4. posts' \in [Threads -> 0..MaxPosts]
  BY PoolAssumption DEF Begin, TypeOK
<1>5. ~Busy(t) /\ post[t].pc = "idle"
  BY DEF Begin, At, Busy
<1>6. \A e \in Entries : entry[e].holder # t
  BY <1>5, PoolAssumption DEF HolderInv
<1>7. PostOK(t)'
  BY <1>1, <1>3 DEF PostOK, Busy
<1>8. poolLock \in Threads \cup {None}
  BY DEF TypeOK
<1> QED BY <1>2, <1>3, <1>4, <1>6, <1>7, <1>8, RecordTypes, ThreadFrame

\* The thread gets its connection's lock.
LEMMA AcquireStep ==
  ASSUME IInv, NEW t \in Threads, Acquire(t)
  PROVE  IInv'
<1> USE DEF IInv
<1> DEFINE e == post[t].entry
           f == [entry[e] EXCEPT !.holder = t]
<1>1. /\ post[t].pc = "wait" /\ PostOK(t) /\ entry[e].holder = None /\ Goto(t, "check")
      /\ entry' = [entry EXCEPT ![e] = f] /\ UNCHANGED <<order, poolLock, posts, closing>>
  BY DEF Acquire, At
<1>2. e \in Entries /\ entry[e] \in EntryRecord
  BY <1>1, RecordTypes DEF PostOK
<1>3. /\ f \in EntryRecord /\ f.lane = entry[e].lane /\ f.identity = entry[e].identity
      /\ f.holder = t /\ f.open = entry[e].open
  BY <1>2 DEF EntryRecord
<1> HIDE DEF e, f
<1>4. /\ entry' \in Seq(EntryRecord) /\ Len(entry') = Len(entry) /\ Entries' = Entries
      /\ entry'[e] = f
      /\ \A k \in Entries \ {e} : entry'[k] = entry[k]
      /\ \A k \in Entries : entry'[k].lane = entry[k].lane /\ entry'[k].identity = entry[k].identity
  BY <1>1, <1>2, <1>3, EntryChange
<1>5. /\ post' \in [Threads -> PostRecord]
      /\ \A u \in Threads \ {t} : post'[u] = post[u]
      /\ post'[t].pc = "check"
      /\ post'[t].lane = post[t].lane /\ post'[t].identity = post[t].identity
      /\ post'[t].entry = e
  BY <1>1, GotoChange DEF Pcs, e
<1>6. PostOK(t)'
  BY <1>1, <1>2, <1>3, <1>4, <1>5 DEF PostOK, Busy, e
<1>7. \A k \in Entries \ {e} : entry[k].holder # t
  BY <1>1, PoolAssumption DEF HolderInv, Busy
<1>8. \A k \in Entries : entry'[k].holder = t => k = e
  BY <1>4, <1>7
<1>9. Busy(t)'
  BY <1>5 DEF Busy
<1>10. /\ \A k \in Entries : \A u \in Threads \ {t} :
            /\ entry[k].holder = u => entry'[k].holder = u /\ entry'[k].open = entry[k].open
            /\ entry'[k].holder = u => entry[k].holder = u
  BY <1>1, <1>3, <1>4, PoolAssumption
<1>11. posts' \in [Threads -> 0..MaxPosts] /\ poolLock' \in Threads \cup {None}
  BY <1>1 DEF TypeOK
<1> QED
  BY <1>1, <1>4, <1>5, <1>6, <1>8, <1>9, <1>10, <1>11, ThreadFrame

\* What is left to show of a step that keeps the connection's lock, or has none: it may
\* shut its own connection, or one that nobody uses.
LEMMA WorkFrame ==
  ASSUME IInv, NEW t \in Threads, NEW p \in Pcs, Goto(t, p),
         UNCHANGED <<order, poolLock, posts, closing>>,
         Busy(t), p \in {"check", "sent", "finally", "release"},
         entry' = entry \/ Shut(post[t].entry),
         p = "sent" => entry[post[t].entry].open /\ entry' = entry
  PROVE  IInv'
<1> USE DEF IInv
<1>1. PostOK(t) /\ post[t].entry \in Entries /\ entry[post[t].entry].holder = t
  BY DEF PostOK, Busy
<1>2. /\ entry' \in Seq(EntryRecord) /\ Len(entry') = Len(entry) /\ Entries' = Entries
      /\ \A k \in Entries \ {post[t].entry} : entry'[k] = entry[k]
      /\ \A k \in Entries : /\ entry'[k].lane = entry[k].lane
                            /\ entry'[k].identity = entry[k].identity
                            /\ entry'[k].holder = entry[k].holder
  BY <1>1, ShutChange, RecordTypes DEF Entries
<1>3. /\ post' \in [Threads -> PostRecord]
      /\ \A u \in Threads \ {t} : post'[u] = post[u]
      /\ post'[t].pc = p
      /\ post'[t].lane = post[t].lane /\ post'[t].identity = post[t].identity
      /\ post'[t].entry = post[t].entry
  BY GotoChange
<1>4. PostOK(t)'
  BY <1>1, <1>2, <1>3 DEF PostOK, Busy
<1>5. Busy(t)'
  BY <1>3 DEF Busy
<1>6. \A k \in Entries : entry[k].holder = t => k = post[t].entry
  BY PoolAssumption DEF HolderInv
<1>7. posts' \in [Threads -> 0..MaxPosts] /\ poolLock' \in Threads \cup {None}
  BY DEF TypeOK
<1>8. \A k \in Entries : \A u \in Threads \ {t} :
         /\ entry[k].holder = u => entry'[k].holder = u /\ entry'[k].open = entry[k].open
         /\ entry'[k].holder = u => entry[k].holder = u
  BY <1>1, <1>2
<1> QED BY <1>2, <1>3, <1>4, <1>5, <1>6, <1>7, <1>8, ThreadFrame

\* One exchange, up to the release of the connection's lock.
LEMMA ExchangeStep ==
  ASSUME IInv, NEW t \in Threads, Answer(t) \/ Fail(t) \/ Finally(t)
  PROVE  IInv'
<1> USE DEF At, Busy, Pcs
<1>1. CASE Answer(t)
  BY <1>1, WorkFrame DEF Answer
<1>2. CASE Fail(t)
  BY <1>2, WorkFrame DEF Fail
<1>3. CASE Finally(t)
  BY <1>3, WorkFrame DEF Finally
<1> QED BY <1>1, <1>2, <1>3

\* The request is sent over a connection that is opened if need be.
LEMMA TransmitStep ==
  ASSUME IInv, NEW t \in Threads, Transmit(t)
  PROVE  IInv'
<1> USE DEF IInv
<1> DEFINE e == post[t].entry
           f == [entry[e] EXCEPT !.open = TRUE]
<1>1. /\ post[t].pc = "check" /\ PostOK(t) /\ Goto(t, "sent")
      /\ entry' = [entry EXCEPT ![e] = f] /\ UNCHANGED <<order, poolLock, posts, closing>>
  BY DEF Transmit, At
<1>2. e \in Entries /\ entry[e] \in EntryRecord /\ entry[e].holder = t
  BY <1>1, RecordTypes DEF PostOK, Busy
<1>3. /\ f \in EntryRecord /\ f.lane = entry[e].lane /\ f.identity = entry[e].identity
      /\ f.holder = t /\ f.open = TRUE
  BY <1>2 DEF EntryRecord
<1> HIDE DEF e, f
<1>4. /\ entry' \in Seq(EntryRecord) /\ Len(entry') = Len(entry) /\ Entries' = Entries
      /\ entry'[e] = f
      /\ \A k \in Entries \ {e} : entry'[k] = entry[k]
      /\ \A k \in Entries : entry'[k].lane = entry[k].lane /\ entry'[k].identity = entry[k].identity
  BY <1>1, <1>2, <1>3, EntryChange
<1>5. /\ post' \in [Threads -> PostRecord]
      /\ \A u \in Threads \ {t} : post'[u] = post[u]
      /\ post'[t].pc = "sent"
      /\ post'[t].lane = post[t].lane /\ post'[t].identity = post[t].identity
      /\ post'[t].entry = e
  BY <1>1, GotoChange DEF Pcs, e
<1>6. PostOK(t)' /\ Busy(t)'
  BY <1>1, <1>2, <1>3, <1>4, <1>5 DEF PostOK, Busy, e
<1>7. \A k \in Entries : entry[k].holder = t => k = e
  BY PoolAssumption DEF HolderInv, e
<1>8. \A k \in Entries : \A u \in Threads \ {t} :
         /\ entry[k].holder = u => entry'[k].holder = u /\ entry'[k].open = entry[k].open
         /\ entry'[k].holder = u => entry[k].holder = u
  BY <1>2, <1>3, <1>4
<1>9. posts' \in [Threads -> 0..MaxPosts] /\ poolLock' \in Threads \cup {None}
  BY <1>1 DEF TypeOK
<1>10. \A k \in Entries : entry'[k].holder = t => k = e
  BY <1>4, <1>7
<1> QED
  BY <1>1, <1>4, <1>5, <1>6, <1>8, <1>9, <1>10, ThreadFrame

\* A post that has no connection's lock, or gives it back, ends.
LEMMA EndStep ==
  ASSUME IInv, NEW t \in Threads, GiveUp(t) \/ Release(t)
  PROVE  IInv'
<1> USE DEF IInv
<1>1. /\ post' = [post EXCEPT ![t] = Idle] /\ UNCHANGED <<order, poolLock, posts, closing>>
      /\ post[t].pc \in {"wait", "release"} /\ PostOK(t)
  BY DEF GiveUp, Release, At
<1>2. Idle \in PostRecord /\ Idle.pc = "idle"
  BY DEF PostRecord, Pcs, Idle
<1>3. /\ post' \in [Threads -> PostRecord] /\ post'[t] = Idle
      /\ \A u \in Threads \ {t} : post'[u] = post[u]
  BY <1>1, <1>2, RecordTypes
<1>4. PostOK(t)' /\ ~Busy(t)'
  BY <1>2, <1>3 DEF PostOK, Busy
<1>5. posts' \in [Threads -> 0..MaxPosts] /\ poolLock' \in Threads \cup {None}
  BY <1>1 DEF TypeOK
<1>6. \A k \in Entries : entry[k].holder = t => Busy(t) /\ k = post[t].entry
  BY PoolAssumption DEF HolderInv
<1>7. CASE GiveUp(t)
  <2>1. UNCHANGED entry /\ ~Busy(t)
    BY <1>7 DEF GiveUp, Busy, At
  <2> QED BY <1>1, <1>3, <1>4, <1>5, <1>6, <2>1, RecordTypes, ThreadFrame
<1>8. CASE Release(t)
  <2> DEFINE e == post[t].entry
             f == [entry[e] EXCEPT !.holder = None]
  <2>1. e \in Entries /\ entry[e] \in EntryRecord /\ entry[e].holder = t
    BY <1>1, <1>8, RecordTypes DEF PostOK, Busy, Release, At
  <2>2. /\ f \in EntryRecord /\ f.lane = entry[e].lane /\ f.identity = entry[e].identity
        /\ f.holder = None
    BY <2>1 DEF EntryRecord
  <2>3. entry' = [entry EXCEPT ![e] = f]
    BY <1>8 DEF Release
  <2> HIDE DEF f
  <2>4. /\ entry' \in Seq(EntryRecord) /\ Len(entry') = Len(entry) /\ Entries' = Entries
        /\ entry'[e] = f
        /\ \A k \in Entries \ {e} : entry'[k] = entry[k]
        /\ \A k \in Entries : entry'[k].lane = entry[k].lane /\ entry'[k].identity = entry[k].identity
    BY <2>1, <2>2, <2>3, EntryChange
  <2>5. \A k \in Entries : entry'[k].holder # t
    BY <1>6, <2>2, <2>4, PoolAssumption
  <2>6. \A k \in Entries : \A u \in Threads \ {t} :
           /\ entry[k].holder = u => entry'[k].holder = u /\ entry'[k].open = entry[k].open
           /\ entry'[k].holder = u => entry[k].holder = u
    BY <2>1, <2>2, <2>4, PoolAssumption
  <2> QED BY <1>1, <1>3, <1>4, <1>5, <2>4, <2>5, <2>6, ThreadFrame
<1> QED BY <1>7, <1>8

--------------------------------------------------------------------------------
(* The pool's order, retiring and closing *)

\* Retiring or closing an entry leaves a connection alone that somebody uses.
LEMMA ShutIfFreeChange ==
  ASSUME TypeOK, NEW e \in Entries, ShutIfFree(e)
  PROVE  /\ entry' \in Seq(EntryRecord) /\ Len(entry') = Len(entry) /\ Entries' = Entries
         /\ \A k \in Entries : /\ entry'[k].lane = entry[k].lane
                               /\ entry'[k].identity = entry[k].identity
                               /\ entry'[k].holder = entry[k].holder
                               /\ entry[k].holder # None => entry'[k].open = entry[k].open
<1>1. CASE entry[e].holder = None
  BY <1>1, ShutChange DEF ShutIfFree
<1>2. CASE entry[e].holder # None
  BY <1>2, RecordTypes DEF ShutIfFree, Entries
<1> QED BY <1>1, <1>2

\* The thread that displaced an entry tries to shut it, and lets the pool go.
LEMMA RetireStep ==
  ASSUME IInv, NEW t \in Threads, RetireTry(t)
  PROVE  IInv'
<1> USE DEF IInv
<1> DEFINE q == [post[t] EXCEPT !.pc = "wait", !.victim = None]
<1>1. /\ post[t].pc = "retire" /\ PostOK(t) /\ ShutIfFree(post[t].victim)
      /\ post' = [post EXCEPT ![t] = q] /\ poolLock' = None
      /\ UNCHANGED <<order, posts, closing>>
  BY DEF RetireTry, At
<1>2. post[t].victim \in Entries
  BY <1>1 DEF PostOK
<1>3. /\ q \in PostRecord /\ q.pc = "wait" /\ q.lane = post[t].lane
      /\ q.identity = post[t].identity /\ q.entry = post[t].entry
  BY RecordTypes DEF PostRecord, Pcs
<1> HIDE DEF q
<1>4. /\ post' \in [Threads -> PostRecord] /\ post'[t] = q
      /\ \A u \in Threads \ {t} : post'[u] = post[u]
  BY <1>1, <1>3, RecordTypes
<1>5. /\ entry' \in Seq(EntryRecord) /\ Len(entry') = Len(entry) /\ Entries' = Entries
      /\ \A k \in Entries : /\ entry'[k].lane = entry[k].lane
                            /\ entry'[k].identity = entry[k].identity
                            /\ entry'[k].holder = entry[k].holder
                            /\ entry[k].holder # None => entry'[k].open = entry[k].open
  BY <1>1, <1>2, ShutIfFreeChange
<1>6. PostOK(t)' /\ ~Busy(t)
  BY <1>1, <1>3, <1>4, <1>5 DEF PostOK, Busy
<1>7. \A k \in Entries : entry[k].holder # t
  BY <1>6, PoolAssumption DEF HolderInv
<1>8. posts' \in [Threads -> 0..MaxPosts] /\ poolLock' \in Threads \cup {None}
  BY <1>1 DEF TypeOK
<1>9. \A k \in Entries : \A u \in Threads \ {t} :
         /\ entry[k].holder = u => entry'[k].holder = u /\ entry'[k].open = entry[k].open
         /\ entry'[k].holder = u => entry[k].holder = u
  BY <1>5, PoolAssumption
<1>10. /\ entry' \in Seq(EntryRecord) /\ Len(entry') = Len(entry)
       /\ \A k \in Entries : entry'[k].lane = entry[k].lane /\ entry'[k].identity = entry[k].identity
       /\ \A k \in Entries : entry'[k].holder # t
  BY <1>5, <1>7
<1>11. UNCHANGED <<order, closing>> /\ PostOK(t)'
  BY <1>1, <1>6
<1> QED BY <1>4, <1>8, <1>9, <1>10, <1>11, ThreadFrame

\* What is left to show of a step that changes the pool: the new order, and that the
\* entries made before stay as they were, but for their mark.
LEMMA PoolFrame ==
  ASSUME IInv, NEW t \in Threads, UNCHANGED <<posts, closing>>,
         entry' \in Seq(EntryRecord), Len(entry) <= Len(entry'),
         \A e \in Entries : /\ entry'[e].lane = entry[e].lane
                            /\ entry'[e].identity = entry[e].identity
                            /\ entry'[e].holder = entry[e].holder
                            /\ entry'[e].open = entry[e].open,
         \A e \in Entries' \ Entries : entry'[e].holder = None,
         order' \in Seq(Entries'), Len(order') <= Capacity,
         \A i, k \in DOMAIN order' : entry'[order'[i]].lane = entry'[order'[k]].lane => i = k,
         post' \in [Threads -> PostRecord'],
         \A u \in Threads \ {t} : post'[u] = post[u],
         poolLock' \in Threads \cup {None}, ~Busy(t), PostOK(t)'
  PROVE  IInv'
<1> USE DEF IInv
<1>1. Entries \subseteq Entries'
  BY RecordTypes DEF Entries
<1>2. TypeOK'
  BY <1>1 DEF TypeOK, EntryRecord, PostRecord
<1>3. HolderInv'
  <2> SUFFICES ASSUME NEW e \in Entries', entry'[e].holder # None
               PROVE  (Busy(entry[e].holder) /\ post[entry[e].holder].entry = e)'
    BY DEF HolderInv
  <2>1. e \in Entries /\ entry'[e].holder = entry[e].holder
    OBVIOUS
  <2>2. entry[e].holder \in Threads
    BY <2>1, RecordTypes DEF EntryRecord
  <2> QED BY <2>1, <2>2 DEF HolderInv, Busy
<1>4. ASSUME NEW u \in Threads \ {t} PROVE PostOK(u)'
  <2>1. PostOK(u) /\ post'[u] = post[u]
    OBVIOUS
  <2> QED BY <1>1, <2>1 DEF PostOK, Busy
<1> QED BY <1>2, <1>3, <1>4

\* What a claim writes into its post.
LEMMA ClaimChange ==
  ASSUME IInv, NEW t \in Threads, post[t].pc = "claim",
         NEW e \in Entries', NEW v \in Entries \cup {None}, Claimed(t, e, v),
         Len(entry') \in Nat, Len(entry) <= Len(entry'),
         entry'[e].lane = post[t].lane, entry'[e].identity = post[t].identity
  PROVE  /\ post' \in [Threads -> PostRecord']
         /\ \A u \in Threads \ {t} : post'[u] = post[u]
         /\ poolLock' \in Threads \cup {None} /\ PostOK(t)'
<1> USE DEF IInv
<1> DEFINE p == IF v = None THEN "wait" ELSE "retire"
           q == [post[t] EXCEPT !.entry = e, !.victim = v, !.pc = p]
<1>1. post' = [post EXCEPT ![t] = q] /\ poolLock' \in Threads \cup {None}
  BY DEF Claimed
<1>2. post[t] \in PostRecord /\ PostRecord \subseteq PostRecord' /\ Entries \subseteq Entries'
  BY RecordTypes DEF PostRecord, Entries
<1>3. p \in Pcs
  BY DEF Pcs
<1>4. /\ q \in PostRecord' /\ q.pc = p /\ q.entry = e /\ q.victim = v
      /\ q.lane = post[t].lane /\ q.identity = post[t].identity
  <2> HIDE DEF p
  <2> QED BY <1>2, <1>3 DEF PostRecord
<1> HIDE DEF q
<1>5. /\ post' \in [Threads -> PostRecord'] /\ post'[t] = q
      /\ \A u \in Threads \ {t} : post'[u] = post[u]
  BY <1>1, <1>2, <1>4, RecordTypes
<1>6. PostOK(t)'
  <2>1. PostOK(t)
    OBVIOUS
  <2> QED BY <1>2, <1>4, <1>5, <2>1 DEF PostOK, Busy
<1> QED BY <1>1, <1>5, <1>6

\* A lane's connection is claimed again and becomes the newest.
LEMMA ReuseStep ==
  ASSUME IInv, NEW t \in Threads, Reuse(t)
  PROVE  IInv'
<1> USE DEF IInv
<1>1. PICK n \in Reusable(t) : order' = Append(RemoveAt(order, n), order[n])
                               /\ Claimed(t, order[n], None)
  BY DEF Reuse
<1>2. post[t].pc = "claim" /\ UNCHANGED <<entry, posts, closing>> /\ ~Busy(t)
  BY DEF Reuse, At, Busy
<1>3. /\ order \in Seq(Entries) /\ Len(order) \in Nat /\ n \in 1..Len(order)
      /\ \A i \in 1..Len(order) : order[i] \in Entries
      /\ entry[order[n]].lane = post[t].lane /\ entry[order[n]].identity = post[t].identity
  BY DEF TypeOK, Reusable, Pooled
<1> DEFINE rest == RemoveAt(order, n)
<1>4. /\ rest \in Seq(Entries) /\ Len(rest) = Len(order) - 1
      /\ \A i \in 1..(Len(order) - 1) : rest[i] = IF i < n THEN order[i] ELSE order[i + 1]
  BY <1>3, RemoveAtProperties
<1> HIDE DEF rest
<1>5. /\ order' \in Seq(Entries) /\ Len(order') = Len(order)
      /\ \A i \in 1..(Len(order) - 1) : order'[i] = rest[i]
      /\ order'[Len(order)] = order[n]
  <2>1. order' = Append(rest, order[n])
    BY <1>1 DEF rest
  <2> QED BY <1>3, <1>4, <2>1, AppendProperties
<1>6. \A i \in DOMAIN order' : \E k \in 1..Len(order) :
         /\ order'[i] = order[k]
         /\ k = IF i = Len(order) THEN n ELSE IF i < n THEN i ELSE i + 1
  BY <1>3, <1>4, <1>5
<1>7. DOMAIN order' = 1..Len(order) /\ DOMAIN order = 1..Len(order)
  BY <1>3, <1>5
<1>8. \A i, k \in DOMAIN order' : entry[order'[i]].lane = entry[order'[k]].lane => i = k
  <2> SUFFICES ASSUME NEW i \in DOMAIN order', NEW k \in DOMAIN order',
                      entry[order'[i]].lane = entry[order'[k]].lane
               PROVE  i = k
    OBVIOUS
  <2>1. PICK a \in 1..Len(order) : /\ order'[i] = order[a]
                                   /\ a = IF i = Len(order) THEN n ELSE IF i < n THEN i ELSE i + 1
    BY <1>6
  <2>2. PICK b \in 1..Len(order) : /\ order'[k] = order[b]
                                   /\ b = IF k = Len(order) THEN n ELSE IF k < n THEN k ELSE k + 1
    BY <1>6
  <2>3. a = b
    BY <1>7, <2>1, <2>2 DEF TypeOK
  <2> QED BY <1>3, <1>7, <2>1, <2>2, <2>3
<1>9. Entries' = Entries
  BY <1>2 DEF Entries
<1>10. order[n] \in Entries' /\ Len(order') <= Capacity /\ Len(entry') \in Nat
  BY <1>2, <1>3, <1>5, <1>9, RecordTypes DEF TypeOK
<1>11. /\ post' \in [Threads -> PostRecord']
       /\ \A u \in Threads \ {t} : post'[u] = post[u]
       /\ poolLock' \in Threads \cup {None} /\ PostOK(t)'
  BY <1>1, <1>2, <1>3, <1>10, ClaimChange
<1>12. Len(entry) <= Len(entry') /\ entry' \in Seq(EntryRecord)
  BY <1>2, RecordTypes
<1> QED BY <1>2, <1>5, <1>8, <1>9, <1>10, <1>11, <1>12, PoolFrame

\* A new entry takes the place of the lane's former one or of the oldest, if need be.
LEMMA CreateStep ==
  ASSUME IInv, NEW t \in Threads, Create(t)
  PROVE  IInv'
<1> USE DEF IInv
<1> DEFINE n == Len(entry) + 1
           new == [lane |-> post[t].lane, identity |-> post[t].identity, retired |-> FALSE,
                   open |-> FALSE, holder |-> None]
<1>1. /\ post[t].pc = "claim" /\ PostOK(t) /\ Reusable(t) = {} /\ UNCHANGED <<posts, closing>>
      /\ ~Busy(t)
  BY DEF Create, At, Busy
<1>2. PICK left, victim :
         /\ \/ Displaced(t) = {} /\ left = order /\ victim = None
            \/ \E v \in Displaced(t) : left = RemoveAt(order, v) /\ victim = order[v]
         /\ order' = Append(left, n)
         /\ entry' = [e \in 1..n |-> IF e = n THEN new
                                     ELSE [entry[e] EXCEPT !.retired = Marked(e, victim)]]
         /\ Claimed(t, n, victim)
  BY DEF Create
<1>3. /\ order \in Seq(Entries) /\ Len(order) \in Nat /\ Len(order) <= Capacity
      /\ \A i \in 1..Len(order) : order[i] \in Entries
      /\ \A i, k \in 1..Len(order) : entry[order[i]].lane = entry[order[k]].lane => i = k
      /\ DOMAIN order = 1..Len(order)
  BY DEF TypeOK
<1>4. n \in Nat /\ n \notin Entries /\ \A e \in 1..n : e = n \/ e \in Entries
  BY RecordTypes DEF Entries
<1>5. /\ left \in Seq(Entries) /\ Len(left) < Capacity /\ victim \in Entries \cup {None}
      /\ \A i \in 1..Len(left) : \E k \in 1..Len(order) :
            /\ left[i] = order[k] /\ entry[order[k]].lane # post[t].lane
            /\ \/ left = order /\ k = i
               \/ \E v \in 1..Len(order) : /\ left = RemoveAt(order, v)
                                           /\ k = IF i < v THEN i ELSE i + 1
  <2>1. CASE Displaced(t) = {} /\ left = order /\ victim = None
    <3>1. Pooled(post[t].lane) = {} /\ Len(order) # Capacity
      BY <2>1 DEF Displaced
    <3>2. Len(order) < Capacity
      BY <1>3, <3>1, PoolAssumption
    <3> QED BY <1>3, <2>1, <3>1, <3>2 DEF Pooled
  <2>2. CASE \E v \in Displaced(t) : left = RemoveAt(order, v) /\ victim = order[v]
    <3>1. PICK v \in Displaced(t) : left = RemoveAt(order, v) /\ victim = order[v]
      BY <2>2
    <3>2. v \in 1..Len(order)
      BY <1>3, <3>1, PoolAssumption DEF Displaced, Pooled
    <3>3. /\ left \in Seq(Entries) /\ Len(left) = Len(order) - 1
          /\ \A i \in 1..(Len(order) - 1) : left[i] = IF i < v THEN order[i] ELSE order[i + 1]
      BY <1>3, <3>1, <3>2, RemoveAtProperties
    <3>4. \A k \in 1..Len(order) : k # v => entry[order[k]].lane # post[t].lane
      <4>1. CASE Pooled(post[t].lane) = {}
        BY <1>3, <4>1 DEF Pooled
      <4>2. CASE Pooled(post[t].lane) # {}
        BY <1>3, <3>1, <4>2 DEF Displaced, Pooled
      <4> QED BY <4>1, <4>2
    <3>5. ASSUME NEW i \in 1..Len(left)
          PROVE  \E k \in 1..Len(order) :
                    /\ left[i] = order[k] /\ entry[order[k]].lane # post[t].lane
                    /\ k = IF i < v THEN i ELSE i + 1
      <4>1. CASE i < v
        BY <1>3, <3>2, <3>3, <3>4, <4>1
      <4>2. CASE ~(i < v)
        BY <1>3, <3>2, <3>3, <3>4, <4>2
      <4> QED BY <4>1, <4>2
    <3>6. Len(left) < Capacity /\ victim \in Entries
      BY <1>3, <3>1, <3>2, <3>3, PoolAssumption
    <3> QED BY <3>1, <3>2, <3>3, <3>5, <3>6
  <2> QED BY <1>2, <2>1, <2>2
<1>6. /\ new \in EntryRecord /\ new.lane = post[t].lane /\ new.identity = post[t].identity
      /\ new.holder = None
  BY <1>1 DEF EntryRecord, PostOK
<1> HIDE DEF new
<1>7. \A e \in Entries :
         /\ [entry[e] EXCEPT !.retired = Marked(e, victim)] \in EntryRecord
         /\ [entry[e] EXCEPT !.retired = Marked(e, victim)].lane = entry[e].lane
         /\ [entry[e] EXCEPT !.retired = Marked(e, victim)].identity = entry[e].identity
         /\ [entry[e] EXCEPT !.retired = Marked(e, victim)].holder = entry[e].holder
         /\ [entry[e] EXCEPT !.retired = Marked(e, victim)].open = entry[e].open
  <2>1. ASSUME NEW e \in Entries PROVE Marked(e, victim) \in BOOLEAN
    BY RecordTypes DEF Marked, EntryRecord
  <2>2. ASSUME NEW f \in EntryRecord, NEW b \in BOOLEAN
        PROVE  /\ [f EXCEPT !.retired = b] \in EntryRecord
               /\ [f EXCEPT !.retired = b].lane = f.lane
               /\ [f EXCEPT !.retired = b].identity = f.identity
               /\ [f EXCEPT !.retired = b].holder = f.holder
               /\ [f EXCEPT !.retired = b].open = f.open
    BY DEF EntryRecord
  <2> QED BY <2>1, <2>2, RecordTypes
<1>8. /\ entry' \in Seq(EntryRecord) /\ Len(entry') = n /\ Entries' = 1..n
      /\ entry'[n] = new
      /\ \A e \in Entries : /\ entry'[e].lane = entry[e].lane
                            /\ entry'[e].identity = entry[e].identity
                            /\ entry'[e].holder = entry[e].holder
                            /\ entry'[e].open = entry[e].open
  <2>1. entry' \in [1..n -> EntryRecord]
    BY <1>2, <1>4, <1>6, <1>7
  <2>2. entry' \in Seq(EntryRecord) /\ Len(entry') = n
    <3> HIDE DEF n
    <3> QED BY <1>4, <2>1
  <2>3. \A e \in 1..n : entry'[e] = IF e = n THEN new
                                    ELSE [entry[e] EXCEPT !.retired = Marked(e, victim)]
    BY <1>2
  <2>4. \A e \in Entries : e \in 1..n /\ e # n
    BY RecordTypes DEF Entries
  <2>5. Entries' = 1..n /\ n \in 1..n
    BY <1>4, <2>2 DEF Entries
  <2>6. ASSUME NEW e \in Entries
        PROVE  /\ entry'[e].lane = entry[e].lane /\ entry'[e].identity = entry[e].identity
               /\ entry'[e].holder = entry[e].holder /\ entry'[e].open = entry[e].open
    <3>1. entry'[e] = [entry[e] EXCEPT !.retired = Marked(e, victim)]
      BY <2>3, <2>4
    <3> QED BY <1>7, <3>1
  <2> HIDE DEF n
  <2>7. entry'[n] = new
    BY <2>3, <2>5
  <2> QED BY <2>2, <2>5, <2>6, <2>7
<1>9. Entries \subseteq Entries' /\ n \in Entries' /\ Len(entry) <= Len(entry') /\ Len(entry') \in Nat
  BY <1>4, <1>8, RecordTypes DEF Entries
<1> HIDE DEF n
<1>10. left \in Seq(Entries') /\ Len(left) \in Nat
  BY <1>5, <1>9
<1>11. /\ order' \in Seq(Entries') /\ Len(order') = Len(left) + 1
       /\ \A i \in 1..Len(left) : order'[i] = left[i]
       /\ order'[Len(left) + 1] = n /\ DOMAIN order' = 1..(Len(left) + 1)
  BY <1>2, <1>9, <1>10, AppendProperties
<1>12. Len(order') <= Capacity
  BY <1>5, <1>10, <1>11, PoolAssumption
<1>13. \A i \in 1..Len(left) : left[i] \in Entries /\ entry'[left[i]].lane = entry[left[i]].lane
                               /\ entry[left[i]].lane # post[t].lane
  BY <1>3, <1>5, <1>8
<1>14. \A i, k \in 1..Len(left) : entry[left[i]].lane = entry[left[k]].lane => i = k
  <2> SUFFICES ASSUME NEW i \in 1..Len(left), NEW k \in 1..Len(left),
                      entry[left[i]].lane = entry[left[k]].lane
               PROVE  i = k
    OBVIOUS
  <2>1. CASE left = order
    BY <1>3, <2>1
  <2>2. CASE left # order
    <3>1. PICK v \in 1..Len(order) : left = RemoveAt(order, v)
      BY <1>5, <2>2
    <3>2. /\ Len(left) = Len(order) - 1
          /\ \A j \in 1..(Len(order) - 1) : left[j] = IF j < v THEN order[j] ELSE order[j + 1]
      <4>1. /\ Len(RemoveAt(order, v)) = Len(order) - 1
            /\ \A j \in 1..(Len(order) - 1) :
                  RemoveAt(order, v)[j] = IF j < v THEN order[j] ELSE order[j + 1]
        BY <1>3, RemoveAtProperties
      <4> QED BY <3>1, <4>1
    <3> DEFINE At0(j) == IF j < v THEN j ELSE j + 1
    <3>3. /\ At0(i) \in 1..Len(order) /\ left[i] = order[At0(i)]
          /\ At0(k) \in 1..Len(order) /\ left[k] = order[At0(k)]
      <4>1. Len(order) \in Nat /\ Len(left) = Len(order) - 1
        BY <1>3, <3>2
      <4>2. ASSUME NEW j \in 1..Len(left)
            PROVE  At0(j) \in 1..Len(order) /\ left[j] = order[At0(j)]
        <5>1. j \in 1..(Len(order) - 1) /\ At0(j) \in 1..Len(order)
          BY <4>1
        <5> QED BY <3>2, <5>1
      <4> QED BY <4>2
    <3>4. At0(i) = At0(k)
      <4> HIDE DEF At0
      <4> QED BY <1>3, <3>3
    <3> QED BY <1>3, <1>10, <3>1, <3>4
  <2> QED BY <2>1, <2>2
<1>15. \A i, k \in DOMAIN order' : entry'[order'[i]].lane = entry'[order'[k]].lane => i = k
  <2> SUFFICES ASSUME NEW i \in DOMAIN order', NEW k \in DOMAIN order',
                      entry'[order'[i]].lane = entry'[order'[k]].lane
               PROVE  i = k
    OBVIOUS
  <2>1. \A j \in DOMAIN order' :
           \/ j \in 1..Len(left) /\ order'[j] = left[j] /\ entry'[order'[j]].lane # post[t].lane
           \/ j = Len(left) + 1 /\ entry'[order'[j]].lane = post[t].lane
    <3>1. ASSUME NEW j \in DOMAIN order' PROVE j \in 1..Len(left) \/ j = Len(left) + 1
      BY <1>10, <1>11
    <3>2. ASSUME NEW j \in 1..Len(left)
          PROVE  order'[j] = left[j] /\ entry'[order'[j]].lane # post[t].lane
      BY <1>11, <1>13
    <3>3. entry'[order'[Len(left) + 1]].lane = post[t].lane
      BY <1>6, <1>8, <1>11
    <3> QED BY <3>1, <3>2, <3>3
  <2>2. CASE i \in 1..Len(left) /\ k \in 1..Len(left)
    BY <1>11, <1>13, <1>14, <2>2
  <2>3. CASE i = Len(left) + 1 \/ k = Len(left) + 1
    <3>1. \A j \in 1..Len(left) : j # Len(left) + 1
      BY <1>10
    <3> QED BY <2>1, <2>3, <3>1
  <2> QED BY <2>1, <2>2, <2>3
<1>16. /\ post' \in [Threads -> PostRecord']
       /\ \A u \in Threads \ {t} : post'[u] = post[u]
       /\ poolLock' \in Threads \cup {None} /\ PostOK(t)'
  BY <1>1, <1>2, <1>5, <1>6, <1>8, <1>9, ClaimChange
<1>17. \A e \in Entries' \ Entries : entry'[e].holder = None
  BY <1>4, <1>6, <1>8 DEF n
<1> QED BY <1>1, <1>8, <1>9, <1>11, <1>12, <1>15, <1>16, <1>17, PoolFrame

\* close() leaves the exchanges alone that are under way.
LEMMA CloseStep ==
  ASSUME IInv, Close \/ CloseMark \/ CloseTry
  PROVE  IInv'
<1> USE DEF IInv
<1>1. UNCHANGED <<poolLock, post, posts>>
  BY DEF Close, CloseMark, CloseTry
<1>2. /\ entry' \in Seq(EntryRecord) /\ Len(entry') = Len(entry) /\ Entries' = Entries
      /\ \A k \in Entries : /\ entry'[k].lane = entry[k].lane
                            /\ entry'[k].identity = entry[k].identity
                            /\ entry'[k].holder = entry[k].holder
                            /\ entry[k].holder # None => entry'[k].open = entry[k].open
  <2>1. CASE Close
    BY <2>1, RecordTypes DEF Close, Entries
  <2>2. CASE CloseMark
    <3>1. PICK e \in closing.left : entry' = [entry EXCEPT ![e].retired = TRUE]
      BY <2>2 DEF CloseMark
    <3> DEFINE f == [entry[e] EXCEPT !.retired = TRUE]
    <3>2. e \in Entries
      BY DEF TypeOK
    <3>3. /\ f \in EntryRecord /\ f.lane = entry[e].lane /\ f.identity = entry[e].identity
          /\ f.holder = entry[e].holder /\ f.open = entry[e].open
      BY <3>2, RecordTypes DEF EntryRecord
    <3>4. entry' = [entry EXCEPT ![e] = f]
      BY <3>1
    <3> HIDE DEF f
    <3>5. /\ entry' \in Seq(EntryRecord) /\ Len(entry') = Len(entry) /\ Entries' = Entries
          /\ entry'[e] = f
          /\ \A k \in Entries \ {e} : entry'[k] = entry[k]
      BY <3>2, <3>3, <3>4, EntryChange
    <3> QED BY <3>3, <3>5
  <2>3. CASE CloseTry
    <3>1. closing.victim \in Entries /\ ShutIfFree(closing.victim)
      BY <2>3 DEF CloseTry, TypeOK
    <3> QED BY <3>1, ShutIfFreeChange
  <2> QED BY <2>1, <2>2, <2>3
<1>3. order' \in {order, <<>>}
  BY DEF Close, CloseMark, CloseTry
<1>4. closing' \in [left : SUBSET Entries, victim : Entries \cup {None}]
  <2>1. CASE Close
    <3>1. ToSet(order) \subseteq Entries
      BY DEF TypeOK, ToSet
    <3> QED BY <2>1, <3>1 DEF Close, TypeOK
  <2>2. CASE CloseMark
    BY <2>2 DEF CloseMark, TypeOK
  <2>3. CASE CloseTry
    BY <2>3 DEF CloseTry, TypeOK
  <2> QED BY <2>1, <2>2, <2>3
<1>5. TypeOK'
  <2>1. order' \in Seq(Entries) /\ Len(order') <= Capacity
    <3>1. CASE order' = order
      BY <3>1 DEF TypeOK
    <3>2. CASE order' = <<>>
      <4>1. Len(<<>>) = 0 /\ <<>> \in Seq(Entries) /\ 0 <= Capacity
        BY PoolAssumption
      <4> QED BY <3>2, <4>1
    <3> QED BY <1>3, <3>1, <3>2
  <2>2. \A i, k \in DOMAIN order' : entry'[order'[i]].lane = entry'[order'[k]].lane => i = k
    <3>1. \A i \in DOMAIN order : order[i] \in Entries
      BY DEF TypeOK
    <3>2. CASE order' = order
      BY <1>2, <3>1, <3>2 DEF TypeOK
    <3>3. CASE order' = <<>>
      BY <3>3
    <3> QED BY <1>3, <3>2, <3>3
  <2>3. /\ entry' \in Seq([lane : Lanes, identity : Identities, retired : BOOLEAN,
                           open : BOOLEAN, holder : Threads \cup {None}])
        /\ post' \in [Threads -> [pc : Pcs, lane : Lanes \cup {None},
                                  identity : Identities \cup {None},
                                  entry : Entries' \cup {None}, victim : Entries' \cup {None}]]
        /\ closing' \in [left : SUBSET Entries', victim : Entries' \cup {None}]
    BY <1>1, <1>2, <1>4 DEF EntryRecord, TypeOK
  <2> QED BY <1>1, <1>2, <2>1, <2>2, <2>3 DEF TypeOK
<1>6. HolderInv'
  <2> SUFFICES ASSUME NEW e \in Entries, entry'[e].holder # None
               PROVE  (Busy(entry[e].holder) /\ post[entry[e].holder].entry = e)'
    BY <1>2 DEF HolderInv
  <2> QED BY <1>1, <1>2 DEF HolderInv, Busy
<1>7. ASSUME NEW t \in Threads PROVE PostOK(t)'
  <2>1. PostOK(t) /\ post'[t] = post[t]
    BY <1>1
  <2> QED BY <1>2, <2>1, PoolAssumption DEF PostOK, Busy
<1> QED BY <1>5, <1>6, <1>7

--------------------------------------------------------------------------------
(* The theorems *)

\* Every step preserves the invariant.
LEMMA StepInv == IInv /\ [Next]_vars => IInv'
<1> SUFFICES ASSUME IInv, [Next]_vars PROVE IInv'
  OBVIOUS
<1>1. ASSUME NEW t \in Threads, Post(t) PROVE IInv'
  BY <1>1, ReuseStep, CreateStep, RetireStep, AcquireStep, EndStep, TransmitStep, ExchangeStep
  DEF Post
<1>2. ASSUME NEW t \in Threads, NEW l \in Lanes, NEW i \in Identities, Begin(t, l, i) PROVE IInv'
  BY <1>2, BeginStep
<1>3. CASE Close \/ CloseMark \/ CloseTry
  BY <1>3, CloseStep
<1>4. CASE UNCHANGED vars
  BY <1>4 DEF vars, IInv, TypeOK, Entries, HolderInv, PostOK, Busy
<1> QED BY <1>1, <1>2, <1>3, <1>4 DEF Next

\* IInv holds of every reachable state.
THEOREM Invariant == Spec => []IInv
<1> QED BY InitInv, StepInv, PTL DEF Spec

\* Every reachable state is well typed: the pool never holds more than Capacity
\* connections, nor two of one lane.
THEOREM TypeCorrect == Spec => []TypeOK
<1>1. IInv => TypeOK
  BY DEF IInv
<1> QED BY <1>1, Invariant, PTL

\* An exchange has an open connection of its own lane and endpoint to itself, whatever
\* the pool replaces, evicts or closes meanwhile (post, retire, close).
THEOREM ExchangesPrivate == Spec => []PrivateExchange
<1>1. IInv => PrivateExchange
  BY DEF IInv, PrivateExchange, PostOK, Busy, Sending, At
<1> QED BY <1>1, Invariant, PTL

\* Whoever keeps the pool's lock between two steps is about to retire the entry it displaced.
HasLock == \A t \in Threads : poolLock = t => At(t, "retire")

LEMMA HasLockStep ==
  ASSUME IInv, HasLock, [Next]_vars
  PROVE  HasLock'
<1> USE DEF At
<1> SUFFICES ASSUME NEW t \in Threads, poolLock' = t PROVE post'[t].pc = "retire"
  BY DEF HasLock
<1>1. post \in [Threads -> PostRecord] /\ t # None
  BY RecordTypes, PoolAssumption DEF IInv
<1>2. CASE UNCHANGED <<poolLock, post>>
  BY <1>2 DEF HasLock
<1>3. ASSUME NEW u \in Threads, Reuse(u) \/ Create(u) PROVE post'[t].pc = "retire"
  <2>1. PICK e, victim : Claimed(u, e, victim)
    BY <1>3 DEF Reuse, Create
  <2>2. victim # None /\ u = t
    BY <1>1, <2>1 DEF Claimed
  <2> QED BY <1>1, <2>1, <2>2 DEF Claimed, PostRecord
<1>4. ASSUME NEW u \in Threads, RetireTry(u) PROVE FALSE
  BY <1>1, <1>4 DEF RetireTry
<1>5. ASSUME NEW u \in Threads, UNCHANGED poolLock, post[u].pc # "retire",
             \A v \in Threads \ {u} : post'[v] = post[v]
      PROVE  post'[t].pc = "retire"
  <2>1. post[t].pc = "retire"
    BY <1>5 DEF HasLock
  <2> QED BY <1>5, <2>1
<1>6. ASSUME NEW u \in Threads, Acquire(u) \/ GiveUp(u) \/ Transmit(u) \/ Answer(u) \/ Fail(u)
                               \/ Finally(u) \/ Release(u)
      PROVE  post'[t].pc = "retire"
  <2>1. /\ UNCHANGED poolLock /\ post[u].pc # "retire"
        /\ \E q : post' = [post EXCEPT ![u] = q]
    BY <1>6 DEF Acquire, GiveUp, Transmit, Answer, Fail, Finally, Release, Goto
  <2> QED BY <1>1, <1>5, <2>1
<1>7. ASSUME NEW u \in Threads, NEW l \in Lanes, NEW i \in Identities, Begin(u, l, i)
      PROVE  post'[t].pc = "retire"
  <2>1. /\ UNCHANGED poolLock /\ post[u].pc # "retire"
        /\ \E q : post' = [post EXCEPT ![u] = q]
    BY <1>7 DEF Begin
  <2> QED BY <1>1, <1>5, <2>1
<1>8. CASE Close \/ CloseMark \/ CloseTry \/ UNCHANGED vars
  BY <1>2, <1>8 DEF Close, CloseMark, CloseTry, vars
<1> QED BY <1>3, <1>4, <1>6, <1>7, <1>8 DEF Next, Post

\* The pool's lock is only kept to retire an entry, which tries the connection's lock and
\* never waits for it: of PoolNeverBlocks, what is left when the possible steps are read
\* off the actions (post, retire).
THEOREM LockIsForRetiring == Spec => []HasLock
<1>1. Init => HasLock
  BY PoolAssumption DEF Init, HasLock
<1> QED BY <1>1, Invariant, HasLockStep, PTL DEF Spec
================================================================================
