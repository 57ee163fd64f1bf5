--------------------------- MODULE Connector_proofs ----------------------------
(* Proofs about Connector, for any finite set of requests of any kinds and any *)
(* number of listeners, domains and assembly loads.                            *)
(*                                                                             *)
(* The inductive invariant has two halves. ServerInv is about the listener:    *)
(* which one is current, which were cancelled, and where the main thread is    *)
(* while it replaces one. RequestsInv is about the requests: each one is in at *)
(* most one place (its handler, the queue, the lock's waiters, the lock), and  *)
(* its effect and answer fit that place. NeverDeaf rests on the first half,    *)
(* Serialized on the second, RunsInPlace and the refinement of RequestContract *)
(* on both.                                                                    *)
EXTENDS Connector, SequenceTheorems, TLAPS

--------------------------------------------------------------------------------
(* Queues: appending, taking the head and removing one place, in terms of the *)
(* set of the elements (ToSet) and of whether they are all different.         *)

Distinct(s) == \A i, k \in DOMAIN s : s[i] = s[k] => i = k

\* What is left of a sequence from which one place is taken.
LEMMA RemoveAtProperties ==
  ASSUME NEW S, NEW s \in Seq(S), NEW n \in 1..Len(s)
  PROVE  /\ RemoveAt(s, n) \in Seq(S)
         /\ Len(RemoveAt(s, n)) = Len(s) - 1
         /\ \A i \in 1..(Len(s) - 1) : RemoveAt(s, n)[i] = IF i < n THEN s[i] ELSE s[i + 1]
<1> DEFINE a == SubSeq(s, 1, n - 1)
           b == SubSeq(s, n + 1, Len(s))
<1>1. Len(s) \in Nat /\ \A i \in 1..Len(s) : s[i] \in S
  BY LenProperties, ElementOfSeq
<1>2. /\ a \in Seq(S) /\ Len(a) = n - 1
      /\ \A i \in 1..(n - 1) : a[i] = s[i]
  BY <1>1, SubSeqProperties
<1>3. /\ b \in Seq(S) /\ Len(b) = Len(s) - n
      /\ \A i \in 1..(Len(s) - n) : b[i] = s[n + i]
  <2>1. /\ b \in Seq(S) /\ Len(b) = (IF n + 1 <= Len(s) THEN Len(s) - (n + 1) + 1 ELSE 0)
        /\ \A i \in 1..(Len(s) - (n + 1) + 1) : b[i] = s[n + 1 + i - 1]
    BY <1>1, SubSeqProperties
  <2> HIDE DEF b
  <2>2. ASSUME NEW i \in 1..(Len(s) - n) PROVE b[i] = s[n + i]
    <3>1. i \in 1..(Len(s) - (n + 1) + 1) /\ n + 1 + i - 1 = n + i
      BY <1>1
    <3> QED BY <2>1, <3>1
  <2> QED BY <1>1, <2>1, <2>2
<1>4. RemoveAt(s, n) = a \o b
  BY DEF RemoveAt
<1> HIDE DEF a, b
<1>5. /\ a \o b \in Seq(S) /\ Len(a \o b) = Len(a) + Len(b)
      /\ \A i \in 1..(Len(a) + Len(b)) : (a \o b)[i] = IF i <= Len(a) THEN a[i] ELSE b[i - Len(a)]
  BY <1>2, <1>3, ConcatProperties
<1>6. ASSUME NEW i \in 1..(Len(s) - 1)
      PROVE  (a \o b)[i] = IF i < n THEN s[i] ELSE s[i + 1]
  <2>1. i \in 1..(Len(a) + Len(b)) /\ (i <= Len(a) <=> i < n)
    BY <1>1, <1>2, <1>3
  <2>2. CASE i < n
    BY <1>2, <1>5, <2>1, <2>2
  <2>3. CASE ~(i < n)
    <3>1. i - Len(a) \in 1..(Len(s) - n) /\ n + (i - Len(a)) = i + 1
      BY <1>1, <1>2, <2>3
    <3> QED BY <1>3, <1>5, <2>1, <2>3, <3>1
  <2> QED BY <2>2, <2>3
<1> QED BY <1>1, <1>2, <1>3, <1>4, <1>5, <1>6

\* The elements of a sequence are of its type.
LEMMA ToSetType ==
  ASSUME NEW S, NEW s \in Seq(S)
  PROVE  /\ ToSet(s) \subseteq S /\ Len(s) \in Nat /\ DOMAIN s = 1..Len(s)
         /\ \A i \in 1..Len(s) : s[i] \in ToSet(s) /\ s[i] \in S
<1>1. Len(s) \in Nat /\ DOMAIN s = 1..Len(s) /\ \A i \in 1..Len(s) : s[i] \in S
  BY LenProperties, ElementOfSeq
<1> QED BY <1>1 DEF ToSet

\* An element put at the end.
LEMMA AppendSet ==
  ASSUME NEW S, NEW s \in Seq(S), NEW x \in S
  PROVE  /\ Append(s, x) \in Seq(S)
         /\ Append(s, x) # <<>>
         /\ ToSet(Append(s, x)) = ToSet(s) \cup {x}
         /\ Distinct(s) /\ x \notin ToSet(s) => Distinct(Append(s, x))
<1> DEFINE a == Append(s, x)
<1>1. /\ a \in Seq(S) /\ Len(a) = Len(s) + 1 /\ Len(s) \in Nat
      /\ \A i \in 1..Len(s) : a[i] = s[i]
      /\ a[Len(s) + 1] = x
  BY LenProperties, AppendProperties
<1>2. DOMAIN a = 1..(Len(s) + 1) /\ DOMAIN s = 1..Len(s)
  BY <1>1, LenProperties
<1>3. a # <<>>
  BY AppendProperties
<1> HIDE DEF a
<1>4. ToSet(a) = ToSet(s) \cup {x}
  <2>1. ASSUME NEW y \in ToSet(a) PROVE y \in ToSet(s) \cup {x}
    <3>1. PICK i \in 1..(Len(s) + 1) : y = a[i]
      BY <1>2, <2>1 DEF ToSet
    <3>2. CASE i = Len(s) + 1
      BY <1>1, <3>1, <3>2
    <3>3. CASE i \in 1..Len(s)
      BY <1>1, <1>2, <3>1, <3>3 DEF ToSet
    <3> QED BY <1>1, <3>2, <3>3
  <2>2. ASSUME NEW y \in ToSet(s) PROVE y \in ToSet(a)
    <3>1. PICK i \in 1..Len(s) : y = s[i]
      BY <1>2, <2>2 DEF ToSet
    <3>2. i \in 1..(Len(s) + 1) /\ a[i] = y
      BY <1>1, <3>1
    <3> QED BY <1>2, <3>2 DEF ToSet
  <2>3. x \in ToSet(a)
    <3>1. Len(s) + 1 \in 1..(Len(s) + 1)
      BY <1>1
    <3> QED BY <1>1, <1>2, <3>1 DEF ToSet
  <2> QED BY <2>1, <2>2, <2>3
<1>5. ASSUME Distinct(s), x \notin ToSet(s) PROVE Distinct(a)
  <2> SUFFICES ASSUME NEW i \in 1..(Len(s) + 1), NEW k \in 1..(Len(s) + 1), a[i] = a[k]
               PROVE  i = k
    BY <1>2 DEF Distinct
  <2>1. \A j \in 1..Len(s) : s[j] # x
    BY <1>2, <1>5 DEF ToSet
  <2>2. \A j \in 1..(Len(s) + 1) : j \in 1..Len(s) \/ j = Len(s) + 1
    BY <1>1
  <2> QED BY <1>1, <1>2, <1>5, <2>1, <2>2 DEF Distinct
<1> QED BY <1>1, <1>3, <1>4, <1>5 DEF a

\* The head of a sequence that is not empty, and what follows it.
LEMMA TailSet ==
  ASSUME NEW S, NEW s \in Seq(S), s # <<>>
  PROVE  /\ Tail(s) \in Seq(S) /\ Head(s) \in S
         /\ ToSet(s) = ToSet(Tail(s)) \cup {Head(s)}
         /\ Distinct(s) => Distinct(Tail(s)) /\ Head(s) \notin ToSet(Tail(s))
<1> DEFINE t == Tail(s)
<1>1. /\ Len(s) \in Nat /\ Len(s) >= 1 /\ DOMAIN s = 1..Len(s)
      /\ \A i \in 1..Len(s) : s[i] \in S
  BY LenProperties, ElementOfSeq, EmptySeq
<1>2. /\ t \in Seq(S) /\ Len(t) = Len(s) - 1
      /\ \A i \in 1..Len(t) : t[i] = s[i + 1]
  BY HeadTailProperties
<1>3. DOMAIN t = 1..(Len(s) - 1)
  BY <1>2, LenProperties
<1>4. Head(s) = s[1] /\ Head(s) \in S
  BY <1>1
<1> HIDE DEF t
<1>5. \A y : y \in ToSet(t) <=> \E i \in 2..Len(s) : y = s[i]
  <2>1. ASSUME NEW y \in ToSet(t) PROVE \E i \in 2..Len(s) : y = s[i]
    <3>1. PICK j \in 1..(Len(s) - 1) : y = t[j]
      BY <1>3, <2>1 DEF ToSet
    <3>2. j + 1 \in 2..Len(s) /\ y = s[j + 1]
      BY <1>1, <1>2, <3>1
    <3> QED BY <3>2
  <2>2. ASSUME NEW i \in 2..Len(s) PROVE s[i] \in ToSet(t)
    <3>1. i - 1 \in 1..(Len(s) - 1) /\ t[i - 1] = s[(i - 1) + 1] /\ (i - 1) + 1 = i
      BY <1>1, <1>2
    <3> QED BY <1>3, <3>1 DEF ToSet
  <2> QED BY <2>1, <2>2
<1>6. ToSet(s) = ToSet(t) \cup {Head(s)}
  <2>1. \A i \in 1..Len(s) : i = 1 \/ i \in 2..Len(s)
    BY <1>1
  <2>2. \A i \in 2..Len(s) : i \in 1..Len(s)
    BY <1>1
  <2>3. 1 \in 1..Len(s)
    BY <1>1
  <2> QED BY <1>1, <1>4, <1>5, <2>1, <2>2, <2>3 DEF ToSet
<1>7. ASSUME Distinct(s) PROVE Distinct(t) /\ Head(s) \notin ToSet(t)
  <2>1. ASSUME NEW i \in 1..(Len(s) - 1), NEW k \in 1..(Len(s) - 1), t[i] = t[k] PROVE i = k
    <3>1. i + 1 \in 1..Len(s) /\ k + 1 \in 1..Len(s) /\ s[i + 1] = s[k + 1]
      BY <1>1, <1>2, <2>1
    <3>2. i + 1 = k + 1
      BY <1>1, <1>7, <3>1 DEF Distinct
    <3> QED BY <3>2
  <2>2. \A i \in 2..Len(s) : i \in 1..Len(s) /\ 1 \in 1..Len(s) /\ i # 1
    BY <1>1
  <2> QED BY <1>1, <1>3, <1>4, <1>5, <1>7, <2>1, <2>2 DEF Distinct
<1> QED BY <1>2, <1>4, <1>6, <1>7 DEF t

\* One place of a sequence of different elements taken away.
LEMMA RemoveAtSet ==
  ASSUME NEW S, NEW s \in Seq(S), Distinct(s), NEW n \in DOMAIN s
  PROVE  /\ RemoveAt(s, n) \in Seq(S)
         /\ Distinct(RemoveAt(s, n))
         /\ ToSet(RemoveAt(s, n)) = ToSet(s) \ {s[n]}
<1> DEFINE a == RemoveAt(s, n)
           place(i) == IF i < n THEN i ELSE i + 1
<1>1. Len(s) \in Nat /\ DOMAIN s = 1..Len(s) /\ n \in 1..Len(s)
  BY LenProperties
<1>2. /\ a \in Seq(S) /\ Len(a) = Len(s) - 1
      /\ \A i \in 1..(Len(s) - 1) : a[i] = IF i < n THEN s[i] ELSE s[i + 1]
  BY <1>1, RemoveAtProperties
<1>3. DOMAIN a = 1..(Len(s) - 1)
  BY <1>2, LenProperties
<1> HIDE DEF a
<1>4. \A i \in 1..(Len(s) - 1) : place(i) \in 1..Len(s) /\ place(i) # n /\ a[i] = s[place(i)]
  BY <1>1, <1>2
<1>5. \A i, k \in 1..(Len(s) - 1) : place(i) = place(k) => i = k
  BY <1>1
<1>6. \A m \in 1..Len(s) : m # n => \E i \in 1..(Len(s) - 1) : place(i) = m
  <2> SUFFICES ASSUME NEW m \in 1..Len(s), m # n
               PROVE  \E i \in 1..(Len(s) - 1) : place(i) = m
    OBVIOUS
  <2>1. CASE m < n
    <3>1. m \in 1..(Len(s) - 1) /\ place(m) = m
      BY <1>1, <2>1
    <3> QED BY <3>1
  <2>2. CASE m > n
    <3>1. m - 1 \in 1..(Len(s) - 1) /\ place(m - 1) = m
      BY <1>1, <2>2
    <3> QED BY <3>1
  <2> QED BY <1>1, <2>1, <2>2
<1> HIDE DEF place
<1>7. Distinct(a)
  BY <1>1, <1>3, <1>4, <1>5 DEF Distinct
<1>8. ToSet(a) = ToSet(s) \ {s[n]}
  <2>1. ASSUME NEW y \in ToSet(a) PROVE y \in ToSet(s) \ {s[n]}
    <3>1. PICK i \in 1..(Len(s) - 1) : y = a[i]
      BY <1>3, <2>1 DEF ToSet
    <3> QED BY <1>1, <1>4, <3>1 DEF ToSet, Distinct
  <2>2. ASSUME NEW y \in ToSet(s) \ {s[n]} PROVE y \in ToSet(a)
    <3>1. PICK m \in 1..Len(s) : y = s[m] /\ m # n
      BY <1>1, <2>2 DEF ToSet
    <3>2. PICK i \in 1..(Len(s) - 1) : place(i) = m
      BY <1>6, <3>1
    <3> QED BY <1>3, <1>4, <3>1, <3>2 DEF ToSet
  <2> QED BY <2>1, <2>2
<1> QED BY <1>2, <1>7, <1>8 DEF a

--------------------------------------------------------------------------------

ServerRecord == [current : Listeners \cup {None}, listening : SUBSET Listeners,
                 cancelled : SUBSET Listeners, started : 0..MaxListeners,
                 stopping : BOOLEAN, retry : BOOLEAN]
MainRecord == [step : Steps, item : Requests \cup {None}, next : Steps]
LockRecord == [holder : Requests \cup {None}, waiters : Seq(Requests)]
PostedRecord == [latch : BOOLEAN, callbacks : 0..1]
EditorRecord == [domain : 1..MaxDomains, loads : 0..MaxLoads]

\* Listeners are numbered as they start, and every one but the current is cancelled.
Numbered ==
  /\ server.started \in Listeners
  /\ server.listening \subseteq 1..server.started
  /\ server.cancelled \subseteq 1..server.started
  /\ server.current # None => server.current \in 1..server.started
  /\ \A n \in 1..server.started : n = server.current \/ n \in server.cancelled

\* What the main thread's step says of the listener, and where it goes on from there.
StepInv ==
  /\ main.step \in {"idle", "failures", "drain"} => main.next = "idle"
  /\ main.step = "refuse" => main.next \in {"failures", "restart", "unload"}
  /\ main.step \in {"restart", "gate", "decode", "busy"} => main.next \in {"drain", "idle"}
  /\ server.current # None /\ (server.stopping \/ server.current \in server.cancelled)
        => main.step = "refuse"
  /\ server.current # None /\ main.step = "refuse" => server.current \in server.cancelled
  /\ server.retry \/ main.step \in {"restart", "unload"} => server.current = None
  /\ main.step = "unload" \/ (main.step = "refuse" /\ main.next = "unload")
        => server.started < MaxListeners /\ editor.domain < MaxDomains

ServerTypes ==
  /\ server \in ServerRecord /\ loop \in [Listeners -> Loops] /\ failed \in Seq(Listeners)
  /\ editor \in EditorRecord

ServerInv == ServerTypes /\ main \in MainRecord /\ Numbered /\ StepInv /\ NeverDeaf

RequestTypes ==
  /\ conn \in [Requests -> ConnStates]
  /\ envelope \in [Requests -> Envelope \cup {None}]
  /\ expired \in [Requests -> BOOLEAN]
  /\ answer \in [Requests -> {None, "result", "not_started"}]
  /\ effect \in [Requests -> 0..1]
  /\ queue \in Seq(Requests)
  /\ posted \in PostedRecord
  /\ lock \in LockRecord
  /\ dispatch \in [Requests -> Dispatches]

\* A dispatch that has yet to answer, and a handler that has parsed its request.
Open(r) == dispatch[r] \in {"waiting", "timedout", "granted", "entered", "async"}
Handled(r) == conn[r] \in {"posting", "awaiting"}

\* A request as its thread parsed it: of a listener that was started.
Parsed(r) ==
  conn[r] \in {"parsing", "posting", "awaiting"} =>
    /\ envelope[r] \in Envelope
    /\ envelope[r].listener <= server.started

\* A request is in one place at a time, and not answered before it has left them all.
Placed(r) ==
  /\ conn[r] \in {"new", "parsing"} => dispatch[r] = "none" /\ answer[r] = None /\ effect[r] = 0
  /\ r \in ToSet(queue) => Handled(r) /\ dispatch[r] = "none" /\ answer[r] = None /\ effect[r] = 0
  /\ Open(r) => Handled(r) /\ answer[r] = None

\* How often it ran, by the place where it is.
Counted(r) ==
  /\ dispatch[r] \in {"waiting", "timedout", "granted"} => effect[r] = 0
  /\ dispatch[r] = "entered" => effect[r] = (IF main.step = "busy" THEN 1 ELSE 0)
  /\ dispatch[r] = "async" => effect[r] = 1
  /\ answer[r] = "result" => effect[r] = 1
  /\ answer[r] = "not_started" => effect[r] = 0

\* The main thread works on the request that has entered, and on no other.
InHand ==
  /\ main.step \in {"gate", "decode", "busy"} =>
        main.item \in Requests /\ dispatch[main.item] = "entered"
  /\ \A r \in Requests : dispatch[r] = "entered" =>
        main.step \in {"gate", "decode", "busy"} /\ main.item = r

RequestsInv ==
  /\ RequestTypes
  /\ posted.latch <=> posted.callbacks = 1
  /\ Distinct(queue) /\ Distinct(lock.waiters)
  /\ \A r \in Requests : Parsed(r) /\ Placed(r) /\ Counted(r)
  /\ InHand
  /\ Serialized

IInv == ServerInv /\ RequestsInv

--------------------------------------------------------------------------------
(* The types *)

LEMMA Numbers ==
  ASSUME ServerInv
  PROVE  /\ server.started \in Nat /\ server.started >= 1 /\ server.started <= MaxListeners
         /\ MaxListeners \in Nat /\ None \notin Nat /\ None \notin Listeners
         /\ None \notin Requests
BY ConnectorAssumption DEF ServerInv, Numbered, Listeners

LEMMA TypesHold ==
  ASSUME IInv
  PROVE  TypeOK
<1>1. /\ conn \in [Requests -> ConnStates]
      /\ envelope \in [Requests -> Envelope \cup {None}]
      /\ expired \in [Requests -> BOOLEAN]
      /\ answer \in [Requests -> {None, "result", "not_started"}]
      /\ effect \in [Requests -> 0..1]
      /\ queue \in Seq(Requests)
      /\ posted \in [latch : BOOLEAN, callbacks : 0..1]
      /\ lock \in [holder : Requests \cup {None}, waiters : Seq(Requests)]
      /\ dispatch \in [Requests -> Dispatches]
  BY DEF IInv, RequestsInv, RequestTypes, PostedRecord, LockRecord
<1>2. /\ main \in [step : Steps, item : Requests \cup {None}, next : Steps]
      /\ server \in [current : Listeners \cup {None}, listening : SUBSET Listeners,
                     cancelled : SUBSET Listeners, started : 0..MaxListeners,
                     stopping : BOOLEAN, retry : BOOLEAN]
      /\ loop \in [Listeners -> Loops]
      /\ failed \in Seq(Listeners)
      /\ editor \in [domain : 1..MaxDomains, loads : 0..MaxLoads]
  BY DEF IInv, ServerInv, ServerTypes, MainRecord, ServerRecord, EditorRecord
<1> QED BY <1>1, <1>2 DEF TypeOK

--------------------------------------------------------------------------------
(* Initially *)

LEMMA InitServer == Init => ServerInv
<1> SUFFICES ASSUME Init PROVE ServerInv
  OBVIOUS
<1>1. MaxListeners \in Nat /\ MaxListeners >= 1 /\ MaxDomains \in Nat /\ MaxDomains >= 1
      /\ MaxLoads \in Nat /\ None \notin Nat
  BY ConnectorAssumption
<1>2. 1 \in Listeners /\ 1 # None
  BY <1>1 DEF Listeners
<1>3. /\ server \in ServerRecord /\ server.current = 1 /\ server.listening = {1}
      /\ server.cancelled = {} /\ server.started = 1 /\ server.stopping = FALSE
      /\ server.retry = FALSE
  BY <1>1, <1>2 DEF Init, ServerRecord
<1>4. loop \in [Listeners -> Loops] /\ loop[1] = "accepting"
  BY <1>2 DEF Init, Loops
<1>5. failed \in Seq(Listeners)
  BY DEF Init
<1>6. editor \in EditorRecord
  BY <1>1 DEF Init, EditorRecord
<1>7. main \in MainRecord /\ main.step = "reloaded"
  BY DEF Init, Idle, MainRecord, Steps
<1>8. Numbered
  BY <1>2, <1>3 DEF Numbered
<1>9. StepInv
  BY <1>2, <1>3, <1>7 DEF StepInv
<1>10. NeverDeaf
  BY <1>2, <1>3, <1>4 DEF NeverDeaf
<1> QED BY <1>3, <1>4, <1>5, <1>6, <1>7, <1>8, <1>9, <1>10 DEF ServerInv, ServerTypes

LEMMA InitRequests == Init => RequestsInv
<1> SUFFICES ASSUME Init PROVE RequestsInv
  OBVIOUS
<1>1. None \notin Requests
  BY ConnectorAssumption
<1>2. RequestTypes
  BY DEF Init, RequestTypes, ConnStates, Dispatches, PostedRecord, LockRecord
<1>3. queue = <<>> /\ lock.waiters = <<>> /\ lock.holder = None
  BY DEF Init
<1>4. Distinct(queue) /\ Distinct(lock.waiters) /\ ToSet(queue) = {} /\ ToSet(lock.waiters) = {}
  BY <1>3 DEF Distinct, ToSet
<1>5. main.step = "reloaded"
  BY DEF Init, Idle
<1>6. \A r \in Requests : /\ conn[r] = "new" /\ answer[r] = None /\ effect[r] = 0
                          /\ dispatch[r] = "none"
  BY DEF Init
<1>7. ASSUME NEW r \in Requests PROVE Parsed(r) /\ Placed(r) /\ Counted(r)
  BY <1>4, <1>6, ConnectorAssumption DEF Parsed, Placed, Counted, Open
<1>8. InHand /\ Serialized
  BY <1>1, <1>3, <1>4, <1>5, <1>6 DEF InHand, Serialized, Executing
<1>9. posted.latch <=> posted.callbacks = 1
  BY DEF Init
<1> QED BY <1>2, <1>4, <1>7, <1>8, <1>9 DEF RequestsInv

--------------------------------------------------------------------------------
(* The listener's half *)

Replacing == {"refuse", "restart", "unload"}
Live(n) == loop[n] \in {"accepting", "leaving", "reporting"}

\* Steps that are about requests: the main thread is not replacing the listener, or is
\* left where it is.
LEMMA ServerFrame ==
  ASSUME ServerInv, UNCHANGED <<server, failed>>,
         editor' \in EditorRecord, editor'.domain = editor.domain,
         loop' \in [Listeners -> Loops], \A n \in Listeners : Live(n) => Live(n)',
         main' \in MainRecord,
         \/ main' = main
         \/ /\ main.step \notin Replacing /\ main'.step \notin Replacing
            /\ main'.step \in {"idle", "failures", "drain"} => main'.next = "idle"
            /\ main'.step \in {"gate", "decode", "busy"} => main'.next \in {"drain", "idle"}
  PROVE  ServerInv'
<1>1. ServerTypes' /\ Numbered'
  BY DEF ServerInv, ServerTypes, Numbered
<1>2. StepInv'
  BY DEF ServerInv, StepInv, Replacing
<1>3. NeverDeaf'
  <2>1. CASE server.current # None /\ Live(server.current)
    <3>1. server.current \in Listeners
      BY <2>1 DEF ServerInv, ServerTypes, ServerRecord
    <3> QED BY <2>1, <3>1 DEF NeverDeaf, Live
  <2>2. CASE server.current \in ToSet(failed) \/ server.retry
    BY <2>2 DEF NeverDeaf
  <2>3. CASE main.step \in Replacing
    BY <2>3 DEF NeverDeaf, Replacing
  <2> QED BY <2>1, <2>2, <2>3 DEF ServerInv, NeverDeaf, Live, Replacing
<1> QED BY <1>1, <1>2, <1>3 DEF ServerInv

\* A step that leaves the listener, the main thread and the editor alone.
LEMMA ServerKept ==
  ASSUME ServerInv, UNCHANGED <<main, server, loop, failed, editor>>
  PROVE  ServerInv'
BY DEF ServerInv, ServerTypes, MainRecord, Numbered, StepInv, NeverDeaf

\* ListenLoop: who leaves it without a word was cancelled, and is being replaced.
LEMMA LoopStep ==
  ASSUME ServerInv, NEW n \in Listeners, ListenLoop(n)
  PROVE  ServerInv'
<1> USE DEF ServerInv
<1>1. UNCHANGED <<main, editor>>
  BY DEF ListenLoop, LoopBreaks, LoopChecks, LoopReports
<1>2. CASE LoopBreaks(n)
  <2>1. /\ server' \in ServerRecord /\ server'.listening \subseteq server.listening
        /\ server'.current = server.current /\ server'.cancelled = server.cancelled
        /\ server'.started = server.started /\ server'.stopping = server.stopping
        /\ server'.retry = server.retry
    BY <1>2 DEF LoopBreaks, ServerTypes, ServerRecord
  <2>2. /\ loop' \in [Listeners -> Loops] /\ \A k \in Listeners : Live(k) => Live(k)'
        /\ failed' = failed
    BY <1>2 DEF LoopBreaks, ServerTypes, Loops, Live
  <2>3. ServerTypes' /\ Numbered' /\ main' \in MainRecord
    BY <1>1, <2>1, <2>2 DEF ServerTypes, Numbered
  <2>4. StepInv'
    BY <1>1, <2>1 DEF StepInv
  <2>5. server.current # None => server.current \in Listeners
    BY DEF ServerTypes, ServerRecord
  <2>6. NeverDeaf'
    BY <1>1, <2>1, <2>2, <2>5 DEF NeverDeaf, Live
  <2> QED BY <2>3, <2>4, <2>6
<1>3. CASE LoopChecks(n)
  <2>1. /\ loop' \in [Listeners -> Loops] /\ UNCHANGED <<server, failed>>
        /\ \A k \in Listeners : Live(k) => Live(k)' \/ k \in server.cancelled
    BY <1>3 DEF LoopChecks, ServerTypes, Loops, Live
  <2>2. ServerTypes' /\ Numbered' /\ main' \in MainRecord /\ StepInv'
    BY <1>1, <2>1 DEF ServerTypes, Numbered, StepInv
  <2>3. server.current # None => server.current \in Listeners
    BY DEF ServerTypes, ServerRecord
  <2>4. server.current # None /\ server.current \in server.cancelled => main.step = "refuse"
    BY DEF StepInv
  <2>5. NeverDeaf'
    BY <1>1, <2>1, <2>3, <2>4 DEF NeverDeaf, Live
  <2> QED BY <2>2, <2>5
<1>4. CASE LoopReports(n)
  <2>1. /\ loop' \in [Listeners -> Loops] /\ UNCHANGED server
        /\ \A k \in Listeners \ {n} : Live(k) => Live(k)'
        /\ failed' = Append(failed, n)
    BY <1>4 DEF LoopReports, ServerTypes, Loops, Live
  <2>2. failed' \in Seq(Listeners) /\ ToSet(failed)' = ToSet(failed) \cup {n}
    BY <2>1, AppendSet DEF ServerTypes
  <2>3. ServerTypes' /\ Numbered' /\ main' \in MainRecord /\ StepInv'
    BY <1>1, <2>1, <2>2 DEF ServerTypes, Numbered, StepInv
  <2>4. server.current # None => server.current \in Listeners
    BY DEF ServerTypes, ServerRecord
  <2>5. NeverDeaf'
    BY <1>1, <2>1, <2>2, <2>4 DEF NeverDeaf, Live
  <2> QED BY <2>3, <2>5
<1> QED BY <1>2, <1>3, <1>4 DEF ListenLoop

\* The fields of the listener after StopListener has cancelled it.
LEMMA BeginStopChange ==
  ASSUME ServerInv, NEW next \in Steps, BeginStop(next)
  PROVE  /\ server' \in ServerRecord /\ server'.current = server.current
         /\ server'.listening = server.listening /\ server'.started = server.started
         /\ server'.cancelled = server.cancelled \cup ({server.current} \ {None})
         /\ server'.retry = FALSE
         /\ main' \in MainRecord /\ main'.step = "refuse" /\ main'.next = next /\ main'.item = None
         /\ Numbered'
<1>1. /\ server' \in ServerRecord /\ server'.current = server.current
      /\ server'.listening = server.listening /\ server'.started = server.started
      /\ server'.cancelled = server.cancelled \cup ({server.current} \ {None})
      /\ server'.retry = FALSE
  BY DEF BeginStop, ServerInv, ServerTypes, ServerRecord
<1>2. main' \in MainRecord /\ main'.step = "refuse" /\ main'.next = next /\ main'.item = None
  BY DEF BeginStop, MainRecord, Steps
<1>3. Numbered'
  BY <1>1 DEF ServerInv, Numbered
<1> QED BY <1>1, <1>2, <1>3

\* The steps that begin to stop the listener.
LEMMA StopStep ==
  ASSUME ServerInv, NEW next \in {"failures", "restart", "unload"}, BeginStop(next),
         loop' = loop, editor' = editor, failed' \in Seq(Listeners),
         next = "unload" => server.started < MaxListeners /\ editor.domain < MaxDomains
  PROVE  ServerInv'
<1>1. next \in Steps
  BY DEF Steps
<1>2. /\ server' \in ServerRecord /\ server'.current = server.current
      /\ server'.started = server.started /\ server'.retry = FALSE
      /\ server'.cancelled = server.cancelled \cup ({server.current} \ {None})
      /\ main' \in MainRecord /\ main'.step = "refuse" /\ main'.next = next /\ Numbered'
  BY <1>1, BeginStopChange
<1>3. ServerTypes'
  BY <1>2 DEF ServerInv, ServerTypes
<1>4. StepInv' /\ NeverDeaf'
  BY <1>2 DEF StepInv, NeverDeaf
<1> QED BY <1>2, <1>3, <1>4 DEF ServerInv

\* A failure in the report queue is only lost when its listener is not the current one.
LEMMA TakeFailureStep ==
  ASSUME ServerInv, TakeFailure
  PROVE  ServerInv'
<1> USE DEF ServerInv
<1>1. main.step = "failures" /\ failed # <<>> /\ failed' = Tail(failed) /\ UNCHANGED <<loop, editor>>
  BY DEF TakeFailure, MainAt
<1>2. failed' \in Seq(Listeners) /\ ToSet(failed) = ToSet(failed)' \cup {Head(failed)}
      /\ Head(failed) \in Listeners
  BY <1>1, TailSet DEF ServerTypes
<1>3. CASE ~server.stopping /\ server.current = Head(failed)
  <2>1. BeginStop("failures")
    BY <1>3 DEF TakeFailure
  <2> QED BY <1>1, <1>2, <2>1, StopStep
<1>4. CASE ~(~server.stopping /\ server.current = Head(failed))
  <2>1. UNCHANGED <<main, server>>
    BY <1>4 DEF TakeFailure
  <2>2. server.current # Head(failed)
    BY <1>1, <1>2, <1>4, Numbers DEF StepInv
  <2>3. ServerTypes' /\ Numbered' /\ StepInv'
    BY <1>1, <1>2, <2>1 DEF ServerTypes, Numbered, StepInv
  <2>4. NeverDeaf'
    BY <1>1, <1>2, <2>1, <2>2 DEF NeverDeaf
  <2> QED BY <2>1, <2>3, <2>4
<1> QED BY <1>3, <1>4

\* Continue goes to the step that was noted.
LEMMA ContinueChange ==
  ASSUME main \in MainRecord, Continue
  PROVE  main' \in MainRecord /\ main'.step = main.next /\ main'.next = "idle" /\ main'.item = None
BY DEF Continue, Idle, MainRecord, Steps

\* A new listener takes the place of none, and is one that was never cancelled.
LEMMA StartedChange ==
  ASSUME ServerInv, server.current = None, server.started < MaxListeners,
         server' = Started(server.started + 1)
  PROVE  /\ server' \in ServerRecord /\ server'.current = server.started + 1
         /\ server'.started = server.started + 1 /\ server'.current \in Listeners
         /\ server'.stopping = FALSE /\ server'.retry = FALSE
         /\ server'.cancelled = server.cancelled /\ server'.current \notin server'.cancelled
         /\ Numbered'
<1> DEFINE n == server.started + 1
<1>1. /\ n \in Nat /\ n \in Listeners /\ n \in 1..n /\ n \notin 1..server.started
      /\ \A k \in 1..n : k = n \/ k \in 1..server.started
      /\ 1..server.started \subseteq 1..n /\ n \in 0..MaxListeners
  BY Numbers DEF Listeners
<1>2. /\ server' = [server EXCEPT !.current = n, !.listening = @ \cup {n}, !.started = n,
                             !.stopping = FALSE, !.retry = FALSE]
      /\ server \in ServerRecord
  BY DEF Started, ServerInv, ServerTypes
<1> HIDE DEF n
<1>3. /\ server' \in ServerRecord /\ server'.current = n /\ server'.started = n
      /\ server'.stopping = FALSE /\ server'.retry = FALSE
      /\ server'.cancelled = server.cancelled /\ server'.listening = server.listening \cup {n}
  <2> DEFINE heard == server.listening \cup {n}
  <2>1. heard \in SUBSET Listeners
    BY <1>1, <1>2 DEF ServerRecord
  <2>2. server' = [server EXCEPT !.current = n, !.listening = heard, !.started = n,
                                 !.stopping = FALSE, !.retry = FALSE]
    BY <1>2
  <2> HIDE DEF heard
  <2>3. /\ server' \in ServerRecord /\ server'.current = n /\ server'.started = n
        /\ server'.stopping = FALSE /\ server'.retry = FALSE
        /\ server'.cancelled = server.cancelled /\ server'.listening = heard
    BY <1>1, <1>2, <2>1, <2>2 DEF ServerRecord
  <2> QED BY <2>3 DEF heard
<1>4. Numbered'
  <2>1. /\ server.listening \subseteq 1..server.started
        /\ server.cancelled \subseteq 1..server.started
        /\ \A k \in 1..server.started : k \in server.cancelled
    BY Numbers DEF ServerInv, Numbered, Listeners
  <2>2. /\ server'.listening \subseteq 1..n /\ server'.cancelled \subseteq 1..n
        /\ \A k \in 1..n : k = n \/ k \in server'.cancelled
    BY <1>1, <1>3, <2>1
  <2> QED BY <1>1, <1>3, <2>2 DEF Numbered
<1>5. n \notin server.cancelled
  BY <1>1 DEF ServerInv, Numbered
<1> QED BY <1>1, <1>3, <1>4, <1>5 DEF n

\* A failed start is tried again later.
LEMMA NotStartedChange ==
  ASSUME ServerInv, server.current = None,
         server' = [server EXCEPT !.stopping = FALSE, !.retry = TRUE]
  PROVE  /\ server' \in ServerRecord /\ server'.current = None /\ server'.retry = TRUE
         /\ server'.started = server.started /\ Numbered'
<1>1. /\ server' \in ServerRecord /\ server'.current = server.current /\ server'.retry = TRUE
      /\ server'.started = server.started /\ server'.listening = server.listening
      /\ server'.cancelled = server.cancelled
  BY DEF ServerInv, ServerTypes, ServerRecord
<1> QED BY <1>1 DEF ServerInv, Numbered

LEMMA RestartStep ==
  ASSUME ServerInv, Restart
  PROVE  ServerInv'
<1> USE DEF ServerInv
<1>1. /\ main.step = "restart" /\ main.next \in {"drain", "idle"} /\ server.current = None
      /\ UNCHANGED <<failed, editor>>
  BY DEF Restart, MainAt, StepInv
<1>2. main' \in MainRecord /\ main'.step = main.next /\ main'.next = "idle"
  BY ContinueChange DEF Restart
<1>3. CASE server.started + 1 \in Listeners /\ server' = Started(server.started + 1)
           /\ loop' = [loop EXCEPT ![server.started + 1] = "accepting"]
  <2>1. server.started < MaxListeners
    BY <1>3, Numbers DEF Listeners
  <2>2. /\ server' \in ServerRecord /\ server'.current = server.started + 1
        /\ server'.current \in Listeners /\ server'.stopping = FALSE /\ server'.retry = FALSE
        /\ server'.current \notin server'.cancelled /\ Numbered'
    BY <1>1, <1>3, <2>1, StartedChange
  <2>3. loop' \in [Listeners -> Loops] /\ loop'[server'.current] = "accepting"
    BY <1>3, <2>2 DEF ServerTypes, Loops
  <2>4. ServerTypes' /\ StepInv'
    BY <1>1, <1>2, <2>2, <2>3 DEF ServerTypes, StepInv
  <2>5. NeverDeaf'
    BY <2>2, <2>3, Numbers DEF NeverDeaf
  <2> QED BY <1>2, <2>2, <2>4, <2>5
<1>4. CASE server' = [server EXCEPT !.stopping = FALSE, !.retry = TRUE] /\ UNCHANGED loop
  <2>1. server' \in ServerRecord /\ server'.current = None /\ server'.retry = TRUE /\ Numbered'
    BY <1>1, <1>4, NotStartedChange
  <2>2. ServerTypes' /\ StepInv' /\ NeverDeaf'
    BY <1>1, <1>2, <1>4, <2>1 DEF ServerTypes, StepInv, NeverDeaf
  <2> QED BY <1>2, <2>1, <2>2
<1> QED BY <1>3, <1>4 DEF Restart

LEMMA CloseListenerStep ==
  ASSUME ServerInv, CloseListener
  PROVE  ServerInv'
<1> USE DEF ServerInv
<1>1. /\ main.step = "refuse" /\ main.next \in {"failures", "restart", "unload"}
      /\ UNCHANGED <<loop, failed, editor>>
  BY DEF CloseListener, MainAt, StepInv
<1>2. main' \in MainRecord /\ main'.step = main.next /\ main'.next = "idle"
  BY ContinueChange DEF CloseListener
<1>3. /\ server' \in ServerRecord /\ server'.current = None
      /\ server'.listening \subseteq server.listening /\ server'.cancelled = server.cancelled
      /\ server'.started = server.started
      /\ main.next = "failures" => server'.retry = TRUE
  <2> DEFINE heard == server.listening \ {server.current}
             again == main.next = "failures"
  <2>1. heard \in SUBSET Listeners /\ heard \subseteq server.listening /\ again \in BOOLEAN
        /\ server \in ServerRecord
    BY DEF ServerTypes, ServerRecord
  <2>2. server' = [server EXCEPT !.current = None, !.listening = heard, !.retry = again]
    BY DEF CloseListener
  <2> HIDE DEF heard, again
  <2>3. /\ server' \in ServerRecord /\ server'.current = None /\ server'.listening = heard
        /\ server'.cancelled = server.cancelled /\ server'.started = server.started
        /\ server'.retry = again
    BY <2>1, <2>2 DEF ServerRecord
  <2> QED BY <2>1, <2>3 DEF again
<1>4. server.current # None => server.current \in server.cancelled
  BY <1>1 DEF StepInv
<1>5. Numbered'
  BY <1>3, <1>4 DEF Numbered
<1>6. ServerTypes'
  BY <1>1, <1>3 DEF ServerTypes
<1>7. StepInv'
  BY <1>1, <1>2, <1>3 DEF StepInv
<1>8. NeverDeaf'
  BY <1>1, <1>2, <1>3 DEF NeverDeaf
<1> QED BY <1>2, <1>5, <1>6, <1>7, <1>8

LEMMA NoFailuresStep ==
  ASSUME ServerInv, NoFailures
  PROVE  ServerInv'
<1> USE DEF ServerInv
<1>1. main.step = "failures" /\ UNCHANGED <<server, loop, failed, editor>>
  BY DEF NoFailures, MainAt, serverVars
<1>2. CASE ~Running /\ server.retry
  <2>1. main' \in MainRecord /\ main'.step = "restart" /\ main'.next = "drain"
    BY <1>2 DEF NoFailures, MainRecord, Steps
  <2>2. ServerTypes' /\ Numbered'
    BY <1>1 DEF ServerTypes, Numbered
  <2>3. StepInv' /\ NeverDeaf'
    BY <1>1, <1>2, <2>1 DEF StepInv, NeverDeaf
  <2> QED BY <2>1, <2>2, <2>3
<1>3. CASE ~(~Running /\ server.retry)
  <2>1. main' \in MainRecord /\ main'.step = "drain" /\ main'.next = "idle"
    BY <1>3 DEF NoFailures, MainRecord, Steps, Idle
  <2>2. /\ editor' \in EditorRecord /\ editor'.domain = editor.domain
        /\ loop' \in [Listeners -> Loops] /\ \A n \in Listeners : Live(n) => Live(n)'
    BY <1>1 DEF ServerTypes, Live
  <2> QED BY <1>1, <2>1, <2>2, ServerFrame DEF Replacing
<1> QED BY <1>2, <1>3

\* The start after a reload, and the stop before one.
LEMMA AroundReloadStep ==
  ASSUME ServerInv, AfterReload \/ BeforeReload
  PROVE  ServerInv'
<1> USE DEF ServerInv
<1>1. UNCHANGED <<loop, failed, editor>> /\ failed' \in Seq(Listeners)
  BY DEF AfterReload, BeforeReload, ServerTypes
<1>2. CASE BeforeReload
  <2>1. BeginStop("unload") /\ server.started < MaxListeners /\ editor.domain < MaxDomains
    BY <1>2 DEF BeforeReload
  <2> QED BY <1>1, <2>1, StopStep
<1>3. CASE AfterReload
  <2>1. main.step = "reloaded"
    BY <1>3 DEF AfterReload, MainAt
  <2>2. CASE main' = Idle /\ UNCHANGED server
    <3>1. main' \in MainRecord /\ main'.step = "idle" /\ main'.next = "idle"
      BY <2>2 DEF MainRecord, Steps, Idle
    <3>2. /\ editor' \in EditorRecord /\ editor'.domain = editor.domain
          /\ loop' \in [Listeners -> Loops] /\ \A n \in Listeners : Live(n) => Live(n)'
      BY <1>1 DEF ServerTypes, Live
    <3> QED BY <1>1, <2>1, <2>2, <3>1, <3>2, ServerFrame DEF Replacing
  <2>3. CASE BeginStop("restart")
    BY <1>1, <2>3, StopStep
  <2>4. CASE /\ server.current = None /\ UNCHANGED server
             /\ main' = [step |-> "restart", item |-> None, next |-> "idle"]
    <3>1. main' \in MainRecord /\ main'.step = "restart" /\ main'.next = "idle"
      BY <2>4 DEF MainRecord, Steps
    <3>2. ServerTypes' /\ Numbered'
      BY <1>1, <2>4 DEF ServerTypes, Numbered
    <3>3. StepInv' /\ NeverDeaf'
      BY <1>1, <2>1, <2>4, <3>1 DEF StepInv, NeverDeaf
    <3> QED BY <3>1, <3>2, <3>3
  <2> QED BY <1>3, <2>2, <2>3, <2>4 DEF AfterReload
<1> QED BY <1>2, <1>3

\* The new domain has a listener, or will try again to start one.
LEMMA ReloadServerStep ==
  ASSUME ServerInv, Reload
  PROVE  ServerInv' /\ server'.started >= server.started
<1> USE DEF ServerInv
<1>1. /\ main.step = "unload" /\ server.current = None /\ server.started < MaxListeners
      /\ editor.domain < MaxDomains
  BY DEF Reload, MainAt, StepInv
<1>2. main' \in MainRecord /\ main'.step = "reloaded"
  BY DEF Reload, Idle, MainRecord, Steps
<1>3. failed' \in Seq(Listeners)
  BY DEF Reload
<1>4. editor' \in EditorRecord
  <2>1. MaxDomains \in Nat /\ MaxLoads \in Nat /\ editor \in EditorRecord
    BY ConnectorAssumption DEF ServerTypes
  <2>2. editor.domain + 1 \in 1..MaxDomains /\ 0 \in 0..MaxLoads
    BY <1>1, <2>1 DEF EditorRecord
  <2>3. editor' = [editor EXCEPT !.domain = editor.domain + 1, !.loads = 0]
    BY DEF Reload
  <2> QED BY <2>1, <2>2, <2>3 DEF EditorRecord
<1>5. /\ loop' \in [Listeners -> Loops]
      /\ server'.current \in Listeners => loop'[server'.current] = "accepting"
  <2>1. loop' = [k \in Listeners |-> IF k = server'.current THEN "accepting"
                                     ELSE IF loop[k] = "none" THEN "none" ELSE "ended"]
    BY DEF Reload
  <2> QED BY <2>1 DEF Loops
<1>6. CASE server' = Started(server.started + 1)
  <2>1. /\ server' \in ServerRecord /\ server'.current = server.started + 1
        /\ server'.started = server.started + 1 /\ server'.current \in Listeners
        /\ server'.stopping = FALSE /\ server'.retry = FALSE
        /\ server'.current \notin server'.cancelled /\ Numbered'
    BY <1>1, <1>6, StartedChange
  <2>2. ServerTypes' /\ StepInv'
    BY <1>2, <1>3, <1>4, <1>5, <2>1 DEF ServerTypes, StepInv
  <2>3. NeverDeaf'
    BY <1>5, <2>1, Numbers DEF NeverDeaf
  <2> QED BY <1>2, <2>1, <2>2, <2>3, Numbers
<1>7. CASE server' = [server EXCEPT !.stopping = FALSE, !.retry = TRUE]
  <2>1. /\ server' \in ServerRecord /\ server'.current = None /\ server'.retry = TRUE /\ Numbered'
        /\ server'.started = server.started
    BY <1>1, <1>7, NotStartedChange
  <2>2. ServerTypes' /\ StepInv' /\ NeverDeaf'
    BY <1>2, <1>3, <1>4, <1>5, <2>1 DEF ServerTypes, StepInv, NeverDeaf
  <2> QED BY <1>2, <2>1, <2>2, Numbers
<1>8. server' \in {Started(server.started + 1), [server EXCEPT !.stopping = FALSE, !.retry = TRUE]}
  BY DEF Reload
<1> QED BY <1>6, <1>7, <1>8

\* What the main thread does with requests: it goes on without replacing the listener.
LEMMA MainMoves ==
  ASSUME ServerInv, UNCHANGED serverVars, editor' = editor,
         \/ main' = main
         \/ Continue /\ main.step \in {"gate", "decode", "busy", "drain"}
         \/ main.step \in {"gate", "decode"} /\ \E s \in {"decode", "busy"} : Goto(s)
         \/ MainAt("idle") /\ Goto("failures")
         \/ main.step \in {"drain", "idle"}
            /\ \E r \in Requests : main' = [step |-> "gate", item |-> r, next |-> main.step]
  PROVE  ServerInv'
<1> USE DEF ServerInv
<1>1. UNCHANGED <<server, loop, failed>>
  BY DEF serverVars
<1>2. /\ editor' \in EditorRecord /\ editor'.domain = editor.domain
      /\ loop' \in [Listeners -> Loops] /\ \A n \in Listeners : Live(n) => Live(n)'
  BY <1>1 DEF ServerTypes, Live
<1>3. CASE main' = main
  BY <1>1, <1>2, <1>3, ServerFrame
<1>4. CASE Continue /\ main.step \in {"gate", "decode", "busy", "drain"}
  <2>1. main' \in MainRecord /\ main'.step = main.next /\ main'.next = "idle"
    BY <1>4, ContinueChange
  <2>2. main.next \in {"drain", "idle"}
    BY <1>4 DEF StepInv
  <2> QED BY <1>1, <1>2, <1>4, <2>1, <2>2, ServerFrame DEF Replacing
<1>5. CASE main.step \in {"gate", "decode"} /\ \E s \in {"decode", "busy"} : Goto(s)
  <2>1. /\ main' \in MainRecord /\ main'.step \in {"decode", "busy"} /\ main'.next = main.next
        /\ main.next \in {"drain", "idle"}
    BY <1>5 DEF Goto, MainRecord, Steps, StepInv
  <2> QED BY <1>1, <1>2, <1>5, <2>1, ServerFrame DEF Replacing
<1>6. CASE MainAt("idle") /\ Goto("failures")
  <2>1. /\ main.step = "idle" /\ main.next = "idle"
        /\ main' \in MainRecord /\ main'.step = "failures" /\ main'.next = main.next
    BY <1>6 DEF MainAt, Goto, MainRecord, Steps, StepInv
  <2> QED BY <1>1, <1>2, <2>1, ServerFrame DEF Replacing
<1>7. CASE main.step \in {"drain", "idle"}
           /\ \E r \in Requests : main' = [step |-> "gate", item |-> r, next |-> main.step]
  <2>1. main' \in MainRecord /\ main'.step = "gate" /\ main'.next = main.step
    BY <1>7 DEF MainRecord, Steps
  <2> QED BY <1>1, <1>2, <1>7, <2>1, ServerFrame DEF Replacing
<1> QED BY <1>3, <1>4, <1>5, <1>6, <1>7

\* The listener's half is inductive by itself, and starts are only counted up.
LEMMA ServerStep ==
  ASSUME ServerInv, [Next]_vars
  PROVE  ServerInv' /\ server'.started \in Nat /\ server'.started >= server.started
<1> SUFFICES ServerInv' /\ server'.started >= server.started
  BY DEF ServerInv, Numbered, Listeners
<1> USE DEF ServerInv
<1>2. ASSUME UNCHANGED server PROVE server'.started >= server.started
  BY <1>2, Numbers
<1>3. CASE UNCHANGED vars
  <2>1. UNCHANGED <<main, server, loop, failed, editor>>
    BY <1>3 DEF vars
  <2> QED BY <1>2, <2>1, ServerKept
<1>4. ASSUME NEW r \in Requests, NEW n \in Listeners, Accept(r, n)
      PROVE  ServerInv' /\ server'.started >= server.started
  <2>1. UNCHANGED <<server, failed, editor, main>>
    BY <1>4 DEF Accept
  <2>2. loop' \in [Listeners -> Loops] /\ \A k \in Listeners : Live(k) => Live(k)'
    BY <1>4 DEF Accept, ServerTypes, Loops, Live
  <2>3. editor' \in EditorRecord /\ editor'.domain = editor.domain /\ main' \in MainRecord
    BY <2>1 DEF ServerTypes
  <2> QED BY <1>2, <2>1, <2>2, <2>3, ServerFrame
<1>5. ASSUME NEW r \in Requests, Handler(r) \/ DeadlinePasses(r) \/ TimeOut(r)
      PROVE  ServerInv' /\ server'.started >= server.started
  <2>1. UNCHANGED <<main, server, loop, failed, editor>>
    BY <1>5 DEF Handler, Refuse, Enqueue, ForceEditorUpdate, Respond, DeadlinePasses, TimeOut,
                serverVars
  <2> QED BY <1>2, <2>1, ServerKept
<1>6. ASSUME NEW r \in Requests, Callbacks(r) \/ ProcessItem(r) \/ Yield(r) \/ FinishAsync(r)
      PROVE  ServerInv' /\ server'.started >= server.started
  <2>1. UNCHANGED serverVars /\ UNCHANGED <<server, editor>>
    BY <1>6 DEF Callbacks, ResumeTimedOut, ResumeGranted, ProcessItem, Take, Gate, Decode, Finish,
                Yield, FinishAsync, serverVars
  <2>2. CASE ResumeTimedOut(r) \/ FinishAsync(r)
    BY <1>2, <2>1, <2>2, MainMoves DEF ResumeTimedOut, FinishAsync
  <2>3. CASE ResumeGranted(r)
    <3>1. main.step = "idle" /\ main' = [step |-> "gate", item |-> r, next |-> main.step]
      BY <2>3 DEF ResumeGranted, MainAt
    <3> QED BY <1>2, <2>1, <3>1, MainMoves
  <2>4. CASE Take(r)
    <3>1. main.step = "drain" /\ (main' = main \/ main' = [step |-> "gate", item |-> r, next |-> main.step])
      BY <2>4 DEF Take, MainAt
    <3> QED BY <1>2, <2>1, <3>1, MainMoves
  <2>5. CASE Gate(r) \/ Decode(r)
    <3>1. /\ main.step \in {"gate", "decode"}
          /\ Continue \/ \E s \in {"decode", "busy"} : Goto(s)
      BY <2>5 DEF Gate, Decode, MainAt, TurnedAway, Run
    <3> QED BY <1>2, <2>1, <3>1, MainMoves
  <2>6. CASE Finish(r) \/ Yield(r)
    <3>1. main.step = "busy" /\ Continue
      BY <2>6 DEF Finish, Yield, MainAt
    <3> QED BY <1>2, <2>1, <3>1, MainMoves
  <2> QED BY <1>6, <2>2, <2>3, <2>4, <2>5, <2>6 DEF Callbacks, ProcessItem
<1>7. ASSUME NEW n \in Listeners, ListenLoop(n)
      PROVE  ServerInv' /\ server'.started >= server.started
  <2>1. server'.started = server.started
    BY <1>7 DEF ListenLoop, LoopBreaks, LoopChecks, LoopReports, ServerTypes, ServerRecord
  <2> QED BY <1>7, <2>1, LoopStep, Numbers
<1>8. CASE Callback \/ Update \/ Drained \/ RefuseQueued
  <2>1. UNCHANGED serverVars /\ UNCHANGED <<server, editor>>
    BY <1>8 DEF Callback, Update, Drained, RefuseQueued, serverVars
  <2> HIDE DEF ServerInv
  <2>2. \/ main' = main
        \/ MainAt("idle") /\ Goto("failures")
        \/ main.step = "drain" /\ Continue
    <3>1. CASE Callback \/ Update
      BY <3>1 DEF Callback, Update
    <3>2. CASE Drained
      BY <3>2 DEF Drained, MainAt
    <3>3. CASE RefuseQueued
      BY <3>3 DEF RefuseQueued
    <3> QED BY <1>8, <3>1, <3>2, <3>3
  <2> QED BY <1>2, <2>1, <2>2, MainMoves
<1>9. CASE TakeFailure \/ NoFailures \/ AfterReload \/ BeforeReload
  <2>1. server'.started = server.started
    BY <1>9 DEF TakeFailure, NoFailures, AfterReload, BeforeReload, BeginStop, serverVars,
                ServerTypes, ServerRecord
  <2> QED BY <1>9, <2>1, TakeFailureStep, NoFailuresStep, AroundReloadStep, Numbers
<1>10. CASE Restart
  <2>1. server'.started \in {server.started, server.started + 1}
    <3>1. server \in ServerRecord /\ server.started + 1 \in Nat
      BY Numbers DEF ServerTypes
    <3>2. CASE server' = Started(server.started + 1)
      BY <3>1, <3>2 DEF Started, ServerRecord
    <3>3. CASE server' = [server EXCEPT !.stopping = FALSE, !.retry = TRUE]
      BY <3>1, <3>3 DEF ServerRecord
    <3> QED BY <1>10, <3>2, <3>3 DEF Restart
  <2> QED BY <1>10, <2>1, RestartStep, Numbers
<1>11. CASE CloseListener
  <2>1. server'.started = server.started
    BY <1>11 DEF CloseListener, ServerTypes, ServerRecord
  <2> QED BY <1>11, <2>1, CloseListenerStep, Numbers
<1>12. CASE LoadAssembly
  <2>1. UNCHANGED <<main, server, loop, failed>>
    BY <1>12 DEF LoadAssembly, serverVars
  <2>2. editor' \in EditorRecord /\ editor'.domain = editor.domain
    <3>1. editor \in EditorRecord /\ editor.loads < MaxLoads /\ MaxLoads \in Nat
          /\ editor' = [editor EXCEPT !.loads = editor.loads + 1]
      BY <1>12, ConnectorAssumption DEF LoadAssembly, ServerTypes
    <3>2. editor.loads + 1 \in 0..MaxLoads
      BY <3>1 DEF EditorRecord
    <3> QED BY <3>1, <3>2 DEF EditorRecord
  <2>3. loop' \in [Listeners -> Loops] /\ \A n \in Listeners : Live(n) => Live(n)'
        /\ main' \in MainRecord
    BY <2>1 DEF ServerTypes, Live
  <2> QED BY <1>2, <2>1, <2>2, <2>3, ServerFrame
<1>13. CASE Reload
  BY <1>13, ReloadServerStep
<1> HIDE DEF ServerInv
<1> QED BY <1>3, <1>4, <1>5, <1>6, <1>7, <1>8, <1>9, <1>10, <1>11, <1>12, <1>13
        DEF Next, Upkeep

--------------------------------------------------------------------------------
(* The requests' half *)

InTool == {"gate", "decode", "busy"}

\* What a step leaves of a request that is not its own.
Spared(u) ==
  /\ conn'[u] = conn[u] /\ envelope'[u] = envelope[u]
  /\ answer'[u] = answer[u] /\ effect'[u] = effect[u]
  /\ dispatch'[u] = dispatch[u] \/ (dispatch[u] = "waiting" /\ dispatch'[u] = "granted")
  /\ u \in ToSet(queue') => u \in ToSet(queue)
  /\ dispatch[u] = "entered" => (main'.step = "busy" <=> main.step = "busy")

LEMMA ParsedKeeps ==
  ASSUME IInv, [Next]_vars, NEW u \in Requests, conn'[u] = conn[u], envelope'[u] = envelope[u]
  PROVE  Parsed(u)'
<1>1. Parsed(u)
  BY DEF IInv, RequestsInv
<1>2. server.started \in Nat /\ server'.started \in Nat /\ server'.started >= server.started
  BY ServerStep, Numbers DEF IInv
<1>3. ASSUME conn[u] \in {"parsing", "posting", "awaiting"}
      PROVE  envelope[u].listener \in Nat /\ envelope[u].listener <= server.started
  <2>1. envelope[u] \in Envelope /\ envelope[u].listener <= server.started
    BY <1>1, <1>3 DEF Parsed
  <2> QED BY <2>1, Numbers DEF Envelope, Listeners, IInv
<1> QED BY <1>1, <1>2, <1>3 DEF Parsed

LEMMA SparedKeeps ==
  ASSUME IInv, [Next]_vars, NEW u \in Requests, Spared(u)
  PROVE  Parsed(u)' /\ Placed(u)' /\ Counted(u)'
<1>1. Placed(u) /\ Counted(u)
  BY DEF IInv, RequestsInv
<1>2. Placed(u)' /\ Counted(u)'
  BY <1>1 DEF Placed, Counted, Spared, Open, Handled
<1> QED BY <1>2, ParsedKeeps DEF Spared

\* What is to be shown of a step of one request.
LEMMA RequestsFrame ==
  ASSUME IInv, [Next]_vars, NEW r \in Requests,
         RequestTypes', posted'.latch <=> posted'.callbacks = 1,
         Distinct(queue'), Distinct(lock'.waiters), InHand', Serialized',
         Parsed(r)', Placed(r)', Counted(r)',
         \A u \in Requests \ {r} : Spared(u)
  PROVE  RequestsInv'
<1>1. ASSUME NEW u \in Requests PROVE Parsed(u)' /\ Placed(u)' /\ Counted(u)'
  <2>1. CASE u = r
    BY <2>1
  <2>2. CASE u # r
    BY <2>2, SparedKeeps
  <2> QED BY <2>1, <2>2
<1> QED BY <1>1 DEF RequestsInv

\* Steps of the listener and of the main thread between requests.
LEMMA RequestsKept ==
  ASSUME IInv, [Next]_vars, UNCHANGED <<netVars, dispatchVars, queue>>,
         posted' \in PostedRecord, posted'.latch <=> posted'.callbacks = 1,
         main' = main \/ (main.step \notin InTool /\ main'.step \notin InTool)
  PROVE  RequestsInv'
<1>1. UNCHANGED <<conn, envelope, expired, answer, effect, lock, dispatch, queue>>
  BY DEF netVars, dispatchVars
<1>2. RequestTypes' /\ Distinct(queue)' /\ Distinct(lock.waiters)' /\ Serialized'
  BY <1>1 DEF IInv, RequestsInv, RequestTypes, Serialized, Executing
<1>3. InHand /\ InHand'
  BY <1>1 DEF IInv, RequestsInv, InHand, InTool
<1>4. ASSUME NEW u \in Requests PROVE Parsed(u)' /\ Placed(u)' /\ Counted(u)'
  <2>1. dispatch[u] = "entered" => main' = main
    BY <1>3 DEF InHand, InTool
  <2> QED BY <1>1, <2>1, SparedKeeps DEF Spared
<1> QED BY <1>2, <1>3, <1>4 DEF RequestsInv

\* A step that leaves the dispatches, the lock and the main thread alone.
LEMMA DispatchKept ==
  ASSUME RequestsInv, UNCHANGED <<lock, dispatch, main>>
  PROVE  InHand' /\ Serialized' /\ Distinct(lock.waiters)'
BY DEF RequestsInv, InHand, Serialized, Executing

--------------------------------------------------------------------------------
(* HandleRequest *)

\* What a request is parsed to.
LEMMA EnvelopesType ==
  ASSUME ServerInv, NEW r \in Requests, NEW n \in server.listening, NEW e \in Envelopes(r, n)
  PROVE  e \in Envelope /\ e.listener <= server.started
<1>1. n \in Listeners /\ n <= server.started
  BY Numbers DEF ServerInv, ServerTypes, ServerRecord, Numbered
<1>2. 1..editor.domain \subseteq Nat /\ 0..MaxLoads \subseteq Nat /\ None \notin Nat
  BY ConnectorAssumption DEF ServerInv, ServerTypes, EditorRecord
<1>3. Kinds[r] \subseteq UNION {Kinds[q] : q \in Requests}
  OBVIOUS
<1>4. e.listener = n /\ e \in Envelope
  BY <1>1, <1>2, <1>3 DEF Envelopes, Envelope
<1> QED BY <1>1, <1>4

LEMMA AcceptStep ==
  ASSUME IInv, [Next]_vars, NEW r \in Requests, NEW n \in Listeners, Accept(r, n)
  PROVE  RequestsInv'
<1> USE DEF IInv
<1>1. /\ conn[r] = "new" /\ n \in server.listening
      /\ conn' = [conn EXCEPT ![r] = "parsing"]
      /\ UNCHANGED <<expired, answer, effect, lock, dispatch, queue, posted, main, server>>
  BY DEF Accept, dispatchVars
<1>2. PICK e \in Envelopes(r, n) : envelope' = [envelope EXCEPT ![r] = e]
  BY DEF Accept
<1>3. e \in Envelope /\ e.listener <= server.started
  BY <1>1, EnvelopesType
<1>4. /\ conn'[r] = "parsing" /\ envelope'[r] = e
      /\ \A u \in Requests \ {r} : conn'[u] = conn[u] /\ envelope'[u] = envelope[u]
  BY <1>1, <1>2 DEF RequestsInv, RequestTypes
<1>5. RequestTypes'
  BY <1>1, <1>2, <1>3 DEF RequestsInv, RequestTypes, ConnStates
<1>6. Parsed(r)'
  BY <1>1, <1>3, <1>4 DEF Parsed
<1>7. Placed(r) /\ Counted(r)
  BY DEF RequestsInv
<1>8. Placed(r)' /\ Counted(r)'
  BY <1>1, <1>4, <1>7 DEF Placed, Counted, Open, Handled
<1>9. \A u \in Requests \ {r} : Spared(u)
  BY <1>1, <1>4 DEF Spared
<1> QED BY <1>1, <1>5, <1>6, <1>8, <1>9, DispatchKept, RequestsFrame DEF RequestsInv

LEMMA RefuseStep ==
  ASSUME IInv, [Next]_vars, NEW r \in Requests, Refuse(r)
  PROVE  RequestsInv'
<1> USE DEF IInv
<1>1. /\ conn[r] = "parsing" /\ conn' = [conn EXCEPT ![r] = "awaiting"]
      /\ answer' = [answer EXCEPT ![r] = "not_started"]
      /\ UNCHANGED <<envelope, expired, effect, lock, dispatch, queue, posted, main, server>>
  BY DEF Refuse, serverVars
<1>2. /\ conn'[r] = "awaiting" /\ answer'[r] = "not_started"
      /\ \A u \in Requests \ {r} : conn'[u] = conn[u] /\ answer'[u] = answer[u]
      /\ RequestTypes'
  BY <1>1 DEF RequestsInv, RequestTypes, ConnStates
<1>3. Parsed(r) /\ Placed(r) /\ Counted(r)
  BY DEF RequestsInv
<1>4. Parsed(r)' /\ Placed(r)' /\ Counted(r)'
  BY <1>1, <1>2, <1>3 DEF Parsed, Placed, Counted, Open, Handled
<1>5. \A u \in Requests \ {r} : Spared(u)
  BY <1>1, <1>2 DEF Spared
<1> QED BY <1>1, <1>2, <1>4, <1>5, DispatchKept, RequestsFrame DEF RequestsInv

LEMMA EnqueueStep ==
  ASSUME IInv, [Next]_vars, NEW r \in Requests, Enqueue(r)
  PROVE  RequestsInv'
<1> USE DEF IInv
<1>1. /\ conn[r] = "parsing" /\ conn' = [conn EXCEPT ![r] = "posting"]
      /\ queue' = Append(queue, r)
      /\ UNCHANGED <<envelope, expired, answer, effect, lock, dispatch, posted, main, server>>
  BY DEF Enqueue, dispatchVars, serverVars
<1>2. Parsed(r) /\ Placed(r) /\ Counted(r) /\ queue \in Seq(Requests) /\ Distinct(queue)
  BY DEF RequestsInv, RequestTypes
<1>3. r \notin ToSet(queue)
  BY <1>1, <1>2 DEF Placed, Handled
<1>4. queue' \in Seq(Requests) /\ ToSet(queue') = ToSet(queue) \cup {r} /\ Distinct(queue')
  BY <1>1, <1>2, <1>3, AppendSet
<1>5. /\ conn'[r] = "posting" /\ \A u \in Requests \ {r} : conn'[u] = conn[u]
      /\ RequestTypes'
  BY <1>1, <1>4 DEF RequestsInv, RequestTypes, ConnStates
<1>6. Parsed(r)' /\ Placed(r)' /\ Counted(r)'
  BY <1>1, <1>2, <1>5 DEF Parsed, Placed, Counted, Open, Handled
<1>7. \A u \in Requests \ {r} : Spared(u)
  BY <1>1, <1>4, <1>5 DEF Spared
<1> QED BY <1>1, <1>4, <1>5, <1>6, <1>7, DispatchKept, RequestsFrame DEF RequestsInv

LEMMA PostStep ==
  ASSUME IInv, [Next]_vars, NEW r \in Requests, ForceEditorUpdate(r)
  PROVE  RequestsInv'
<1> USE DEF IInv
<1>1. /\ conn[r] = "posting" /\ conn' = [conn EXCEPT ![r] = "awaiting"]
      /\ UNCHANGED <<envelope, expired, answer, effect, lock, dispatch, queue, main, server>>
  BY DEF ForceEditorUpdate, dispatchVars, serverVars
<1>2. posted' \in PostedRecord /\ (posted'.latch <=> posted'.callbacks = 1)
  <2>1. posted \in PostedRecord /\ (posted.latch <=> posted.callbacks = 1)
    BY DEF RequestsInv, RequestTypes
  <2>2. CASE posted.latch
    BY <2>1, <2>2 DEF ForceEditorUpdate
  <2>3. CASE ~posted.latch
    <3>1. posted.callbacks + 1 = 1
      BY <2>1, <2>3 DEF PostedRecord
    <3>2. posted' = [latch |-> TRUE, callbacks |-> 1]
      BY <2>3, <3>1 DEF ForceEditorUpdate
    <3> QED BY <3>2 DEF PostedRecord
  <2> QED BY <2>2, <2>3
<1>3. /\ conn'[r] = "awaiting" /\ \A u \in Requests \ {r} : conn'[u] = conn[u]
      /\ RequestTypes'
  BY <1>1, <1>2 DEF RequestsInv, RequestTypes, ConnStates
<1>4. Parsed(r) /\ Placed(r) /\ Counted(r)
  BY DEF RequestsInv
<1>5. Parsed(r)' /\ Placed(r)' /\ Counted(r)'
  BY <1>1, <1>3, <1>4 DEF Parsed, Placed, Counted, Open, Handled
<1>6. \A u \in Requests \ {r} : Spared(u)
  BY <1>1, <1>3 DEF Spared
<1> QED BY <1>1, <1>2, <1>3, <1>5, <1>6, DispatchKept, RequestsFrame DEF RequestsInv

LEMMA RespondStep ==
  ASSUME IInv, [Next]_vars, NEW r \in Requests, Respond(r)
  PROVE  RequestsInv'
<1> USE DEF IInv
<1>1. /\ conn[r] = "awaiting" /\ answer[r] # None
      /\ UNCHANGED <<answer, effect, lock, dispatch, queue, posted, main, server>>
  BY DEF Respond, dispatchVars, serverVars
<1>2. PICK c \in {"answered", "lost"} : conn' = [conn EXCEPT ![r] = c]
  BY DEF Respond
<1>3. /\ envelope' = [u \in Requests |-> IF u \in {r} THEN None ELSE envelope[u]]
      /\ expired' = [u \in Requests |-> u \notin {r} /\ expired[u]]
  BY DEF Respond, Forget
<1>4. /\ conn'[r] = c
      /\ \A u \in Requests \ {r} : conn'[u] = conn[u] /\ envelope'[u] = envelope[u]
      /\ RequestTypes'
  BY <1>1, <1>2, <1>3 DEF RequestsInv, RequestTypes, ConnStates
<1>5. Placed(r) /\ Counted(r)
  BY DEF RequestsInv
<1>6. Parsed(r)' /\ Placed(r)' /\ Counted(r)'
  BY <1>1, <1>4, <1>5 DEF Parsed, Placed, Counted, Open, Handled
<1>7. \A u \in Requests \ {r} : Spared(u)
  BY <1>1, <1>4 DEF Spared
<1> QED BY <1>1, <1>4, <1>6, <1>7, DispatchKept, RequestsFrame DEF RequestsInv

LEMMA DeadlineStep ==
  ASSUME IInv, [Next]_vars, NEW r \in Requests, DeadlinePasses(r)
  PROVE  RequestsInv'
<1> USE DEF IInv
<1>1. /\ expired' = [expired EXCEPT ![r] = TRUE]
      /\ UNCHANGED <<conn, envelope, answer, effect, lock, dispatch, queue, posted, main, server>>
  BY DEF DeadlinePasses, dispatchVars, serverVars
<1>2. RequestTypes'
  BY <1>1 DEF RequestsInv, RequestTypes
<1>3. \A u \in Requests : Spared(u)
  BY <1>1 DEF Spared
<1>4. \A u \in Requests : Parsed(u)' /\ Placed(u)' /\ Counted(u)'
  BY <1>3, SparedKeeps
<1> QED BY <1>1, <1>2, <1>4, DispatchKept DEF RequestsInv

--------------------------------------------------------------------------------
(* The lock *)

\* Release: whoever waits first has the lock now, and nobody else's state changes.
LEMMA LeaveChange ==
  ASSUME IInv, NEW r \in Requests, lock.holder = r, NEW a \in {"result", "not_started"}, Leave(r, a)
  PROVE  /\ lock' \in LockRecord /\ Distinct(lock'.waiters)
         /\ answer' \in [Requests -> {None, "result", "not_started"}] /\ answer'[r] = a
         /\ \A u \in Requests \ {r} : answer'[u] = answer[u]
         /\ dispatch' \in [Requests -> Dispatches] /\ dispatch'[r] = "done"
         /\ \A u \in Requests \ {r} : \/ dispatch'[u] = dispatch[u]
                                      \/ dispatch[u] = "waiting" /\ dispatch'[u] = "granted"
         /\ Serialized'
<1>1. /\ lock \in LockRecord /\ Distinct(lock.waiters) /\ dispatch \in [Requests -> Dispatches]
      /\ answer \in [Requests -> {None, "result", "not_started"}] /\ Serialized
      /\ None \notin Requests
  BY ConnectorAssumption DEF IInv, RequestsInv, RequestTypes
<1>2. /\ answer' \in [Requests -> {None, "result", "not_started"}] /\ answer'[r] = a
      /\ \A u \in Requests \ {r} : answer'[u] = answer[u]
  BY <1>1 DEF Leave, Answer
<1>3. /\ \A u \in Requests : dispatch[u] \in {"entered", "async", "granted"} <=> u = r
      /\ \A u \in Requests : dispatch[u] = "waiting" <=> u \in ToSet(lock.waiters)
      /\ lock.waiters \in Seq(Requests)
  BY <1>1 DEF Serialized, Executing, LockRecord
<1>4. CASE lock.waiters = <<>>
  <2>1. /\ lock' \in LockRecord /\ lock'.holder = None /\ lock'.waiters = <<>>
    BY <1>1, <1>4 DEF Leave, LockRecord
  <2>2. /\ dispatch' \in [Requests -> Dispatches] /\ dispatch'[r] = "done"
        /\ \A u \in Requests \ {r} : dispatch'[u] = dispatch[u]
    BY <1>1, <1>4 DEF Leave, Dispatches
  <2>3. Distinct(lock'.waiters) /\ ToSet(lock'.waiters) = {} /\ ToSet(lock.waiters) = {}
    BY <1>4, <2>1 DEF Distinct, ToSet
  <2>4. Serialized'
    BY <1>1, <1>3, <2>1, <2>2, <2>3 DEF Serialized, Executing
  <2> QED BY <1>2, <2>1, <2>2, <2>3, <2>4
<1>5. CASE lock.waiters # <<>>
  <2> DEFINE h == Head(lock.waiters)
             rest == Tail(lock.waiters)
  <2>1. /\ rest \in Seq(Requests) /\ h \in Requests /\ ToSet(lock.waiters) = ToSet(rest) \cup {h}
        /\ Distinct(rest) /\ h \notin ToSet(rest)
    BY <1>1, <1>3, <1>5, TailSet
  <2>2. /\ lock' = [holder |-> h, waiters |-> rest]
        /\ dispatch' = [dispatch EXCEPT ![r] = "done", ![h] = "granted"]
    BY <1>5 DEF Leave
  <2> HIDE DEF h, rest
  <2>3. lock' \in LockRecord /\ lock'.holder = h /\ lock'.waiters = rest
    BY <2>1, <2>2 DEF LockRecord
  <2>4. dispatch[h] = "waiting" /\ h # r
    BY <1>3, <2>1
  <2>5. /\ dispatch' \in [Requests -> Dispatches] /\ dispatch'[r] = "done" /\ dispatch'[h] = "granted"
        /\ \A u \in Requests \ {r, h} : dispatch'[u] = dispatch[u]
    BY <1>1, <2>1, <2>2, <2>4 DEF Dispatches
  <2>6. Serialized'
    <3>1. ASSUME NEW u \in Requests
          PROVE  (Executing(u) \/ dispatch[u] = "granted" <=> lock.holder = u)'
      BY <1>3, <2>3, <2>4, <2>5 DEF Executing
    <3>2. ASSUME NEW u \in Requests
          PROVE  (dispatch[u] = "waiting" <=> u \in ToSet(lock.waiters))'
      BY <1>3, <2>1, <2>3, <2>4, <2>5
    <3>3. lock'.holder # None
      BY <1>1, <2>1, <2>3
    <3> QED BY <3>1, <3>2, <3>3 DEF Serialized
  <2> QED BY <1>2, <2>1, <2>3, <2>4, <2>5, <2>6
<1> QED BY <1>4, <1>5

\* The main thread leaves the request it had in hand.
LEMMA HandsEmpty ==
  ASSUME IInv, NEW r \in Requests, main.step \in InTool, main.item = r, Continue,
         dispatch'[r] # "entered",
         \A u \in Requests \ {r} : \/ dispatch'[u] = dispatch[u]
                                   \/ dispatch[u] = "waiting" /\ dispatch'[u] = "granted"
  PROVE  InHand' /\ main'.step \notin InTool
<1>1. main'.step = main.next /\ main.next \in {"drain", "idle"}
  BY ContinueChange DEF IInv, ServerInv, StepInv, InTool
<1>2. \A u \in Requests \ {r} : dispatch[u] # "entered" /\ dispatch'[u] # "entered"
  BY DEF IInv, RequestsInv, InHand
<1> QED BY <1>1, <1>2 DEF InHand, InTool

\* The request in hand has the lock, is not answered yet, and its handler waits.
LEMMA InHandFacts ==
  ASSUME IInv, NEW r \in Requests, main.step \in InTool, main.item = r
  PROVE  /\ dispatch[r] = "entered" /\ lock.holder = r
         /\ Handled(r) /\ answer[r] = None /\ r \notin ToSet(queue)
         /\ effect[r] = (IF main.step = "busy" THEN 1 ELSE 0)
         /\ \A u \in Requests \ {r} : dispatch[u] # "entered"
<1>1. dispatch[r] = "entered" /\ \A u \in Requests \ {r} : dispatch[u] # "entered"
  BY DEF IInv, RequestsInv, InHand, InTool
<1>2. lock.holder = r
  BY <1>1 DEF IInv, RequestsInv, Serialized, Executing
<1>3. Placed(r) /\ Counted(r)
  BY DEF IInv, RequestsInv
<1> QED BY <1>1, <1>2, <1>3 DEF Placed, Counted, Open

\* The holder leaves with an answer that fits how often it ran.
LEMMA LeaveStep ==
  ASSUME IInv, [Next]_vars, NEW r \in Requests, dispatch[r] \in {"entered", "async"},
         NEW a \in {"result", "not_started"}, Leave(r, a),
         UNCHANGED <<netVars, effect, queue, posted>>,
         effect[r] = (IF a = "result" THEN 1 ELSE 0),
         \/ main.step \in InTool /\ main.item = r /\ Continue
         \/ main.step \notin InTool /\ main' = main
  PROVE  RequestsInv'
<1> USE DEF IInv
<1>1. lock.holder = r
  BY DEF RequestsInv, Serialized, Executing
<1>2. /\ lock' \in LockRecord /\ Distinct(lock'.waiters)
      /\ answer' \in [Requests -> {None, "result", "not_started"}] /\ answer'[r] = a
      /\ \A u \in Requests \ {r} : answer'[u] = answer[u]
      /\ dispatch' \in [Requests -> Dispatches] /\ dispatch'[r] = "done"
      /\ \A u \in Requests \ {r} : \/ dispatch'[u] = dispatch[u]
                                   \/ dispatch[u] = "waiting" /\ dispatch'[u] = "granted"
      /\ Serialized'
  BY <1>1, LeaveChange
<1>3. InHand' /\ \A u \in Requests \ {r} : dispatch[u] # "entered"
  <2>1. CASE main.step \in InTool /\ main.item = r /\ Continue
    BY <1>2, <2>1, HandsEmpty, InHandFacts
  <2>2. CASE main.step \notin InTool /\ main' = main
    <3>1. \A u \in Requests : dispatch[u] # "entered"
      BY <2>2 DEF RequestsInv, InHand, InTool
    <3> QED BY <1>2, <2>2, <3>1 DEF InHand, InTool
  <2> QED BY <2>1, <2>2
<1>4. UNCHANGED <<conn, envelope, expired, effect, queue, posted>>
  BY DEF netVars
<1>5. RequestTypes' /\ Distinct(queue') /\ (posted'.latch <=> posted'.callbacks = 1)
  BY <1>2, <1>4 DEF RequestsInv, RequestTypes
<1>6. Parsed(r) /\ Placed(r) /\ Counted(r)
  BY DEF RequestsInv
<1>7. Parsed(r)'
  BY <1>4, ParsedKeeps
<1>8. Placed(r)' /\ Counted(r)'
  <2>1. ~Open(r)' /\ Handled(r) /\ r \notin ToSet(queue)
    BY <1>2, <1>6 DEF Placed, Open
  <2> QED BY <1>2, <1>4, <2>1 DEF Placed, Counted, Handled
<1>9. \A u \in Requests \ {r} : Spared(u)
  BY <1>2, <1>3, <1>4 DEF Spared
<1> QED BY <1>2, <1>3, <1>5, <1>7, <1>8, <1>9, RequestsFrame

--------------------------------------------------------------------------------
(* Dispatch on the main thread *)

\* The head of the queue: nothing was done with it yet.
LEMMA HeadFacts ==
  ASSUME IInv, NEW r \in Requests, queue # <<>>, r = Head(queue), queue' = Tail(queue)
  PROVE  /\ queue' \in Seq(Requests) /\ Distinct(queue')
         /\ ToSet(queue) = ToSet(queue') \cup {r} /\ r \notin ToSet(queue')
         /\ Handled(r) /\ dispatch[r] = "none" /\ answer[r] = None /\ effect[r] = 0
<1>1. queue \in Seq(Requests) /\ Distinct(queue) /\ Placed(r)
  BY DEF IInv, RequestsInv, RequestTypes
<1>2. /\ queue' \in Seq(Requests) /\ Distinct(queue')
      /\ ToSet(queue) = ToSet(queue') \cup {r} /\ r \notin ToSet(queue')
  BY <1>1, TailSet
<1> QED BY <1>1, <1>2 DEF Placed

\* A request is answered straight from the queue: refused, or a control.
LEMMA AnsweredStep ==
  ASSUME IInv, [Next]_vars, NEW r \in Requests, queue # <<>>, r = Head(queue), queue' = Tail(queue),
         NEW a \in {"result", "not_started"}, Answer(r, a),
         NEW d \in {"none", "done"}, dispatch' = [dispatch EXCEPT ![r] = d],
         effect' = [effect EXCEPT ![r] = IF a = "result" THEN 1 ELSE 0],
         UNCHANGED <<netVars, posted, lock, main>>
  PROVE  RequestsInv'
<1> USE DEF IInv
<1>1. /\ queue' \in Seq(Requests) /\ Distinct(queue')
      /\ ToSet(queue) = ToSet(queue') \cup {r} /\ r \notin ToSet(queue')
      /\ Handled(r) /\ dispatch[r] = "none" /\ answer[r] = None /\ effect[r] = 0
  BY HeadFacts
<1>2. UNCHANGED <<conn, envelope, expired>>
  BY DEF netVars
<1>3. /\ answer'[r] = a /\ \A u \in Requests \ {r} : answer'[u] = answer[u]
      /\ dispatch'[r] = d /\ \A u \in Requests \ {r} : dispatch'[u] = dispatch[u]
      /\ effect'[r] = (IF a = "result" THEN 1 ELSE 0)
      /\ \A u \in Requests \ {r} : effect'[u] = effect[u]
      /\ RequestTypes' /\ (posted'.latch <=> posted'.callbacks = 1)
  BY <1>1, <1>2 DEF Answer, RequestsInv, RequestTypes, Dispatches
<1>4. Placed(r)' /\ Counted(r)'
  BY <1>1, <1>2, <1>3 DEF Placed, Counted, Open, Handled
<1>5. InHand'
  BY <1>1, <1>3 DEF RequestsInv, InHand
<1>6. Serialized'
  BY <1>1, <1>3 DEF RequestsInv, Serialized, Executing
<1>7. Distinct(lock'.waiters)
  BY DEF RequestsInv
<1>8. \A u \in Requests \ {r} : Spared(u)
  BY <1>1, <1>2, <1>3 DEF Spared
<1>9. Parsed(r)'
  BY <1>2, ParsedKeeps
<1> QED BY <1>1, <1>3, <1>4, <1>5, <1>6, <1>7, <1>8, <1>9, RequestsFrame

LEMMA RefuseQueuedStep ==
  ASSUME IInv, [Next]_vars, RefuseQueued
  PROVE  RequestsInv'
<1> DEFINE r == Head(queue)
<1>1. /\ queue # <<>> /\ queue' = Tail(queue) /\ Answer(r, "not_started")
      /\ UNCHANGED <<netVars, effect, posted, lock, dispatch, main>>
  BY DEF RefuseQueued, Answer
<1>2. r \in Requests
  BY <1>1, TailSet DEF IInv, RequestsInv, RequestTypes
<1> HIDE DEF r
<1>3. r = Head(queue)
  BY DEF r
<1>4. dispatch[r] = "none" /\ effect[r] = 0
  BY <1>1, <1>2, <1>3, HeadFacts
<1>5. dispatch' = [dispatch EXCEPT ![r] = "none"] /\ effect' = [effect EXCEPT ![r] = 0]
  BY <1>1, <1>2, <1>4 DEF IInv, RequestsInv, RequestTypes
<1> QED BY <1>1, <1>2, <1>3, <1>5, AnsweredStep

\* Dispatch: answered at once, or given the lock, or made to wait for it.
LEMMA TakeStep ==
  ASSUME IInv, [Next]_vars, NEW r \in Requests, Take(r)
  PROVE  RequestsInv'
<1> USE DEF IInv
<1>1. /\ main.step = "drain" /\ queue # <<>> /\ r = Head(queue) /\ queue' = Tail(queue)
      /\ UNCHANGED <<conn, envelope, expired, posted>> /\ UNCHANGED netVars
  BY DEF Take, MainAt, netVars
<1>2. /\ queue' \in Seq(Requests) /\ Distinct(queue')
      /\ ToSet(queue) = ToSet(queue') \cup {r} /\ r \notin ToSet(queue')
      /\ Handled(r) /\ dispatch[r] = "none" /\ answer[r] = None /\ effect[r] = 0
  BY <1>1, HeadFacts
<1>3. /\ effect \in [Requests -> 0..1] /\ dispatch \in [Requests -> Dispatches] /\ lock \in LockRecord
      /\ Distinct(lock.waiters) /\ Serialized /\ InHand /\ None \notin Requests
  BY ConnectorAssumption DEF RequestsInv, RequestTypes
<1>4. Parsed(r)'
  BY <1>1, ParsedKeeps
<1>5. \A u \in Requests : dispatch[u] # "entered"
  BY <1>1, <1>3 DEF InHand
<1>6. CASE Answer(r, "not_started") /\ dispatch' = [dispatch EXCEPT ![r] = "done"]
           /\ UNCHANGED <<effect, lock, main>>
  <2>1. effect' = [effect EXCEPT ![r] = IF "not_started" = "result" THEN 1 ELSE 0]
    BY <1>2, <1>3, <1>6
  <2> QED BY <1>1, <1>6, <2>1, AnsweredStep
<1>7. CASE Answer(r, "result") /\ dispatch' = [dispatch EXCEPT ![r] = "done"]
           /\ effect' = [effect EXCEPT ![r] = @ + 1] /\ UNCHANGED <<lock, main>>
  <2>1. effect' = [effect EXCEPT ![r] = IF "result" = "result" THEN 1 ELSE 0]
    BY <1>2, <1>3, <1>7
  <2> QED BY <1>1, <1>7, <2>1, AnsweredStep
<1>8. CASE /\ lock.holder = None /\ lock' = [lock EXCEPT !.holder = r]
           /\ main' = [step |-> "gate", item |-> r, next |-> "drain"]
           /\ dispatch' = [dispatch EXCEPT ![r] = "entered"]
           /\ UNCHANGED <<answer, effect>>
  <2>1. /\ dispatch' \in [Requests -> Dispatches] /\ dispatch'[r] = "entered"
        /\ \A u \in Requests \ {r} : dispatch'[u] = dispatch[u]
    BY <1>3, <1>8 DEF Dispatches
  <2>2. lock' \in LockRecord /\ lock'.holder = r /\ lock'.waiters = lock.waiters
    BY <1>3, <1>8 DEF LockRecord
  <2>3. main'.step = "gate" /\ main'.item = r
    BY <1>8
  <2>4. RequestTypes' /\ (posted'.latch <=> posted'.callbacks = 1)
    BY <1>1, <1>2, <1>8, <2>1, <2>2 DEF RequestsInv, RequestTypes
  <2>5. InHand'
    BY <1>5, <2>1, <2>3 DEF InHand
  <2>6. Serialized'
    BY <1>2, <1>3, <1>8, <2>1, <2>2 DEF Serialized, Executing
  <2>7. Placed(r)' /\ Counted(r)'
    BY <1>1, <1>2, <1>8, <2>1, <2>3, ConnectorAssumption DEF Placed, Counted, Open, Handled
  <2>8. \A u \in Requests \ {r} : Spared(u)
    BY <1>1, <1>2, <1>5, <1>8, <2>1 DEF Spared
  <2> QED BY <1>2, <1>3, <1>4, <2>2, <2>4, <2>5, <2>6, <2>7, <2>8, RequestsFrame
<1>9. CASE /\ lock.holder # None /\ lock' = [lock EXCEPT !.waiters = Append(@, r)]
           /\ dispatch' = [dispatch EXCEPT ![r] = "waiting"]
           /\ UNCHANGED <<main, answer, effect>>
  <2>1. /\ dispatch' \in [Requests -> Dispatches] /\ dispatch'[r] = "waiting"
        /\ \A u \in Requests \ {r} : dispatch'[u] = dispatch[u]
    BY <1>3, <1>9 DEF Dispatches
  <2>2. lock.waiters \in Seq(Requests) /\ r \notin ToSet(lock.waiters)
    BY <1>2, <1>3 DEF LockRecord, Serialized
  <2> DEFINE all == Append(lock.waiters, r)
  <2>3. all \in Seq(Requests) /\ ToSet(all) = ToSet(lock.waiters) \cup {r} /\ Distinct(all)
    BY <1>3, <2>2, AppendSet
  <2>4. lock' = [lock EXCEPT !.waiters = all]
    BY <1>9
  <2> HIDE DEF all
  <2>5. lock' \in LockRecord /\ lock'.holder = lock.holder /\ lock'.waiters = all
    BY <1>3, <2>3, <2>4 DEF LockRecord
  <2>6. RequestTypes' /\ (posted'.latch <=> posted'.callbacks = 1)
    BY <1>1, <1>2, <1>9, <2>1, <2>5 DEF RequestsInv, RequestTypes
  <2>7. InHand'
    BY <1>3, <1>5, <1>9, <2>1 DEF InHand
  <2>8. Serialized'
    <3>1. ASSUME NEW u \in Requests
          PROVE  /\ (Executing(u) \/ dispatch[u] = "granted" <=> lock.holder = u)'
                 /\ (dispatch[u] = "waiting" <=> u \in ToSet(lock.waiters))'
      BY <1>2, <1>3, <2>1, <2>3, <2>5 DEF Serialized, Executing
    <3> QED BY <1>9, <2>5, <3>1 DEF Serialized
  <2>9. Placed(r)' /\ Counted(r)'
    BY <1>1, <1>2, <1>9, <2>1, ConnectorAssumption DEF Placed, Counted, Open, Handled
  <2>10. \A u \in Requests \ {r} : Spared(u)
    BY <1>1, <1>2, <1>9, <2>1 DEF Spared
  <2>11. Distinct(lock'.waiters)
    BY <2>3, <2>5
  <2> QED BY <1>2, <1>4, <2>6, <2>7, <2>8, <2>9, <2>10, <2>11, RequestsFrame
<1> QED BY <1>6, <1>7, <1>8, <1>9 DEF Take

\* A waiter whose deadline has passed leaves the others' order as it is.
LEMMA TimeOutStep ==
  ASSUME IInv, [Next]_vars, NEW r \in Requests, TimeOut(r)
  PROVE  RequestsInv'
<1> USE DEF IInv
<1>1. /\ dispatch[r] = "waiting" /\ dispatch' = [dispatch EXCEPT ![r] = "timedout"]
      /\ UNCHANGED <<conn, envelope, expired, answer, effect, queue, posted, main>>
  BY DEF TimeOut, netVars
<1>2. PICK n \in DOMAIN lock.waiters :
         lock.waiters[n] = r /\ lock' = [lock EXCEPT !.waiters = RemoveAt(@, n)]
  BY DEF TimeOut
<1>3. /\ lock \in LockRecord /\ Distinct(lock.waiters) /\ dispatch \in [Requests -> Dispatches]
      /\ Serialized /\ InHand /\ lock.waiters \in Seq(Requests)
  BY DEF RequestsInv, RequestTypes, LockRecord
<1> DEFINE left == RemoveAt(lock.waiters, n)
<1>4. left \in Seq(Requests) /\ Distinct(left) /\ ToSet(left) = ToSet(lock.waiters) \ {r}
  BY <1>2, <1>3, RemoveAtSet
<1>5. lock' = [lock EXCEPT !.waiters = left]
  BY <1>2
<1> HIDE DEF left
<1>6. lock' \in LockRecord /\ lock'.holder = lock.holder /\ lock'.waiters = left
  BY <1>3, <1>4, <1>5 DEF LockRecord
<1>7. /\ dispatch' \in [Requests -> Dispatches] /\ dispatch'[r] = "timedout"
      /\ \A u \in Requests \ {r} : dispatch'[u] = dispatch[u]
  BY <1>1, <1>3 DEF Dispatches
<1>8. RequestTypes' /\ (posted'.latch <=> posted'.callbacks = 1) /\ Distinct(queue')
  BY <1>1, <1>6, <1>7 DEF RequestsInv, RequestTypes
<1>9. InHand'
  BY <1>1, <1>3, <1>7 DEF InHand
<1>10. Serialized'
  <2>1. ASSUME NEW u \in Requests
        PROVE  /\ (Executing(u) \/ dispatch[u] = "granted" <=> lock.holder = u)'
               /\ (dispatch[u] = "waiting" <=> u \in ToSet(lock.waiters))'
    BY <1>1, <1>3, <1>4, <1>6, <1>7 DEF Serialized, Executing
  <2>2. lock'.holder = None => lock'.waiters = <<>>
    <3>1. r \in ToSet(lock.waiters)
      BY <1>1, <1>3 DEF Serialized
    <3>2. lock.waiters # <<>>
      BY <3>1 DEF ToSet
    <3> QED BY <1>3, <1>6, <3>2 DEF Serialized
  <2> QED BY <2>1, <2>2 DEF Serialized
<1>11. Placed(r) /\ Counted(r)
  BY DEF RequestsInv
<1>12. Placed(r)' /\ Counted(r)'
  BY <1>1, <1>7, <1>11 DEF Placed, Counted, Open, Handled
<1>13. \A u \in Requests \ {r} : Spared(u)
  BY <1>1, <1>7 DEF Spared
<1>14. Parsed(r)' /\ Distinct(lock'.waiters)
  BY <1>1, <1>4, <1>6, ParsedKeeps
<1> QED BY <1>8, <1>9, <1>10, <1>12, <1>13, <1>14, RequestsFrame

\* Who timed out never had the lock, and leaves it alone.
LEMMA ResumeTimedOutStep ==
  ASSUME IInv, [Next]_vars, NEW r \in Requests, ResumeTimedOut(r)
  PROVE  RequestsInv'
<1> USE DEF IInv
<1>1. /\ dispatch[r] = "timedout" /\ dispatch' = [dispatch EXCEPT ![r] = "done"]
      /\ answer' = [answer EXCEPT ![r] = "not_started"]
      /\ UNCHANGED <<conn, envelope, expired, effect, queue, posted, main, lock>>
  BY DEF ResumeTimedOut, Answer, netVars
<1>2. /\ dispatch'[r] = "done" /\ answer'[r] = "not_started"
      /\ \A u \in Requests \ {r} : dispatch'[u] = dispatch[u] /\ answer'[u] = answer[u]
      /\ RequestTypes' /\ (posted'.latch <=> posted'.callbacks = 1) /\ Distinct(queue')
      /\ Distinct(lock'.waiters)
  BY <1>1 DEF RequestsInv, RequestTypes, Dispatches
<1>3. InHand'
  BY <1>1, <1>2 DEF RequestsInv, InHand
<1>4. Serialized'
  BY <1>1, <1>2 DEF RequestsInv, Serialized, Executing
<1>5. Placed(r) /\ Counted(r)
  BY DEF RequestsInv
<1>6. Placed(r)' /\ Counted(r)'
  BY <1>1, <1>2, <1>5 DEF Placed, Counted, Open, Handled
<1>7. \A u \in Requests \ {r} : Spared(u)
  BY <1>1, <1>2 DEF Spared
<1>8. Parsed(r)'
  BY <1>1, ParsedKeeps
<1> QED BY <1>2, <1>3, <1>4, <1>6, <1>7, <1>8, RequestsFrame

LEMMA ResumeGrantedStep ==
  ASSUME IInv, [Next]_vars, NEW r \in Requests, ResumeGranted(r)
  PROVE  RequestsInv'
<1> USE DEF IInv
<1>1. /\ dispatch[r] = "granted" /\ dispatch' = [dispatch EXCEPT ![r] = "entered"]
      /\ main.step = "idle" /\ main' = [step |-> "gate", item |-> r, next |-> "idle"]
      /\ UNCHANGED <<conn, envelope, expired, answer, effect, queue, posted, lock>>
  BY DEF ResumeGranted, MainAt, netVars
<1>2. /\ dispatch'[r] = "entered" /\ main'.step = "gate" /\ main'.item = r
      /\ \A u \in Requests \ {r} : dispatch'[u] = dispatch[u]
      /\ RequestTypes' /\ (posted'.latch <=> posted'.callbacks = 1) /\ Distinct(queue')
      /\ Distinct(lock'.waiters)
  BY <1>1 DEF RequestsInv, RequestTypes, Dispatches
<1>3. \A u \in Requests : dispatch[u] # "entered"
  BY <1>1 DEF RequestsInv, InHand
<1>4. InHand'
  BY <1>2, <1>3 DEF InHand
<1>5. Serialized'
  BY <1>1, <1>2 DEF RequestsInv, Serialized, Executing
<1>6. Placed(r) /\ Counted(r)
  BY DEF RequestsInv
<1>7. Placed(r)' /\ Counted(r)'
  BY <1>1, <1>2, <1>6, ConnectorAssumption DEF Placed, Counted, Open, Handled
<1>8. \A u \in Requests \ {r} : Spared(u)
  BY <1>1, <1>2, <1>3 DEF Spared
<1>9. Parsed(r)'
  BY <1>1, ParsedKeeps
<1> QED BY <1>2, <1>4, <1>5, <1>7, <1>8, <1>9, RequestsFrame

\* The request in hand goes on to its decoding, to its run, or away for a while.
LEMMA OnwardStep ==
  ASSUME IInv, [Next]_vars, NEW r \in Requests, main.step \in InTool, main.item = r,
         UNCHANGED <<netVars, answer, lock, queue, posted>>,
         \/ /\ main.step # "busy" /\ Goto("decode") /\ UNCHANGED <<effect, dispatch>>
         \/ main.step # "busy" /\ Run(r)
         \/ /\ main.step = "busy" /\ dispatch' = [dispatch EXCEPT ![r] = "async"] /\ Continue
            /\ UNCHANGED effect
  PROVE  RequestsInv'
<1> USE DEF IInv
<1>1. /\ dispatch[r] = "entered" /\ lock.holder = r
      /\ Handled(r) /\ answer[r] = None /\ r \notin ToSet(queue)
      /\ effect[r] = (IF main.step = "busy" THEN 1 ELSE 0)
      /\ \A u \in Requests \ {r} : dispatch[u] # "entered"
  BY InHandFacts
<1>2. UNCHANGED <<conn, envelope, expired>>
  BY DEF netVars
<1>3. /\ Parsed(r)' /\ Distinct(queue') /\ Distinct(lock'.waiters)
      /\ posted'.latch <=> posted'.callbacks = 1
  BY <1>2, ParsedKeeps DEF RequestsInv
<1>4. main \in MainRecord /\ None \notin {"result", "not_started"}
  BY ConnectorAssumption DEF ServerInv
<1>5. CASE main.step # "busy" /\ Goto("decode") /\ UNCHANGED <<effect, dispatch>>
  <2>1. main'.step = "decode" /\ main'.item = r
    BY <1>4, <1>5 DEF Goto, MainRecord
  <2>2. RequestTypes' /\ Serialized'
    BY <1>2, <1>5 DEF RequestsInv, RequestTypes, Serialized, Executing
  <2>3. InHand'
    BY <1>1, <1>5, <2>1 DEF InHand
  <2>4. Placed(r)' /\ Counted(r)'
    BY <1>1, <1>2, <1>4, <1>5, <2>1 DEF Placed, Counted, Open, Handled
  <2>5. \A u \in Requests \ {r} : Spared(u)
    BY <1>1, <1>2, <1>5 DEF Spared
  <2> QED BY <1>3, <2>2, <2>3, <2>4, <2>5, RequestsFrame
<1>6. CASE main.step # "busy" /\ Run(r)
  <2>1. /\ main'.step = "busy" /\ main'.item = r /\ UNCHANGED dispatch
        /\ effect' = [effect EXCEPT ![r] = @ + 1]
    BY <1>4, <1>6 DEF Run, Goto, MainRecord
  <2>2. /\ effect' \in [Requests -> 0..1] /\ effect'[r] = 1
        /\ \A u \in Requests \ {r} : effect'[u] = effect[u]
    BY <1>1, <1>6, <2>1 DEF RequestsInv, RequestTypes
  <2>3. RequestTypes' /\ Serialized'
    BY <1>2, <2>1, <2>2 DEF RequestsInv, RequestTypes, Serialized, Executing
  <2>4. InHand'
    BY <1>1, <2>1 DEF InHand
  <2>5. Placed(r)' /\ Counted(r)'
    BY <1>1, <1>2, <1>4, <2>1, <2>2 DEF Placed, Counted, Open, Handled
  <2>6. \A u \in Requests \ {r} : Spared(u)
    BY <1>1, <1>2, <2>1, <2>2 DEF Spared
  <2> QED BY <1>3, <2>3, <2>4, <2>5, <2>6, RequestsFrame
<1>7. CASE /\ main.step = "busy" /\ dispatch' = [dispatch EXCEPT ![r] = "async"] /\ Continue
           /\ UNCHANGED effect
  <2>1. /\ dispatch' \in [Requests -> Dispatches] /\ dispatch'[r] = "async"
        /\ \A u \in Requests \ {r} : dispatch'[u] = dispatch[u]
    BY <1>7 DEF RequestsInv, RequestTypes, Dispatches
  <2>2. RequestTypes'
    BY <1>2, <1>7, <2>1 DEF RequestsInv, RequestTypes
  <2>3. Serialized'
    BY <1>1, <2>1 DEF RequestsInv, Serialized, Executing
  <2>4. InHand'
    BY <1>7, <2>1, HandsEmpty
  <2>5. Placed(r)' /\ Counted(r)'
    BY <1>1, <1>2, <1>4, <1>7, <2>1 DEF Placed, Counted, Open, Handled
  <2>6. \A u \in Requests \ {r} : Spared(u)
    BY <1>1, <1>2, <1>7, <2>1 DEF Spared
  <2> QED BY <1>3, <2>2, <2>3, <2>4, <2>5, <2>6, RequestsFrame
<1> QED BY <1>5, <1>6, <1>7

\* The gate, the decoding, and the end of a tool.
LEMMA ToolStep ==
  ASSUME IInv, [Next]_vars, NEW r \in Requests,
         Gate(r) \/ Decode(r) \/ Finish(r) \/ Yield(r) \/ FinishAsync(r)
  PROVE  RequestsInv'
<1>1. UNCHANGED <<netVars, queue, posted>>
  BY DEF Gate, Decode, Finish, Yield, FinishAsync
<1>2. ASSUME main.step \in {"gate", "decode"}, main.item = r, TurnedAway(r) PROVE RequestsInv'
  <2>1. Leave(r, "not_started") /\ Continue /\ UNCHANGED effect
    BY <1>2 DEF TurnedAway
  <2>2. main.step \in InTool /\ main.step # "busy"
    BY <1>2 DEF InTool
  <2>3. dispatch[r] = "entered" /\ effect[r] = 0
    BY <1>2, <2>2, InHandFacts
  <2> QED BY <1>1, <1>2, <2>1, <2>2, <2>3, LeaveStep
<1>3. CASE Gate(r)
  <2>1. main.step = "gate" /\ main.item = r /\ main.step \in InTool
    BY <1>3 DEF Gate, MainAt, InTool
  <2>2. TurnedAway(r) \/ Run(r) \/ (Goto("decode") /\ UNCHANGED dispatchVars)
    BY <1>3 DEF Gate
  <2>3. CASE Run(r)
    BY <1>1, <2>1, <2>3, OnwardStep DEF Run
  <2>4. CASE Goto("decode") /\ UNCHANGED dispatchVars
    BY <1>1, <2>1, <2>4, OnwardStep DEF dispatchVars
  <2> QED BY <1>2, <2>1, <2>2, <2>3, <2>4
<1>4. CASE Decode(r)
  <2>1. main.step = "decode" /\ main.item = r /\ main.step \in InTool
    BY <1>4 DEF Decode, MainAt, InTool
  <2>2. TurnedAway(r) \/ Run(r)
    BY <1>4 DEF Decode
  <2>3. CASE Run(r)
    BY <1>1, <2>1, <2>3, OnwardStep DEF Run
  <2> QED BY <1>2, <2>1, <2>2, <2>3
<1>5. CASE Finish(r)
  <2>1. /\ main.step = "busy" /\ main.item = r /\ main.step \in InTool
        /\ Leave(r, "result") /\ Continue /\ UNCHANGED effect
    BY <1>5 DEF Finish, MainAt, InTool
  <2>2. dispatch[r] = "entered" /\ effect[r] = 1
    BY <2>1, InHandFacts
  <2> QED BY <1>1, <2>1, <2>2, LeaveStep
<1>6. CASE Yield(r)
  <2>1. main.step = "busy" /\ main.item = r /\ main.step \in InTool
    BY <1>6 DEF Yield, MainAt, InTool
  <2> QED BY <1>1, <1>6, <2>1, OnwardStep DEF Yield
<1>7. CASE FinishAsync(r)
  <2>1. /\ main.step = "idle" /\ main.step \notin InTool /\ dispatch[r] = "async"
        /\ Leave(r, "result") /\ main' = main /\ UNCHANGED effect
    BY <1>7 DEF FinishAsync, MainAt, InTool
  <2>2. effect[r] = 1
    BY <2>1 DEF IInv, RequestsInv, Counted
  <2> QED BY <1>1, <2>1, <2>2, LeaveStep
<1> QED BY <1>3, <1>4, <1>5, <1>6, <1>7

\* A reload takes every request along that is under way.
LEMMA ReloadRequestsStep ==
  ASSUME IInv, [Next]_vars, Reload
  PROVE  RequestsInv'
<1> USE DEF IInv
<1> DEFINE under == {r \in Requests : conn[r] \notin {"new", "answered", "lost"}}
<1>1. /\ conn' = [r \in Requests |-> IF r \in under THEN "lost" ELSE conn[r]]
      /\ dispatch' = [r \in Requests |-> IF conn[r] = "new" THEN "none" ELSE "done"]
      /\ queue' = <<>> /\ posted' = [latch |-> FALSE, callbacks |-> 0]
      /\ lock' = [holder |-> None, waiters |-> <<>>]
      /\ main' = [Idle EXCEPT !.step = "reloaded"]
      /\ envelope' = [r \in Requests |-> IF r \in under THEN None ELSE envelope[r]]
      /\ expired' = [r \in Requests |-> r \notin under /\ expired[r]]
      /\ UNCHANGED <<answer, effect>>
  BY DEF Reload, Forget
<1>2. /\ RequestTypes
      /\ \A r \in Requests : Placed(r) /\ Counted(r)
      /\ None \notin Requests
  BY ConnectorAssumption DEF RequestsInv
<1>3. conn' \in [Requests -> ConnStates] /\ dispatch' \in [Requests -> Dispatches]
  BY <1>1, <1>2 DEF RequestTypes, ConnStates, Dispatches
<1>4. /\ envelope' \in [Requests -> Envelope \cup {None}] /\ expired' \in [Requests -> BOOLEAN]
      /\ posted' \in PostedRecord /\ lock' \in LockRecord /\ queue' \in Seq(Requests)
  BY <1>1, <1>2 DEF RequestTypes, PostedRecord, LockRecord
<1>5. RequestTypes' /\ (posted'.latch <=> posted'.callbacks = 1)
  BY <1>1, <1>2, <1>3, <1>4 DEF RequestTypes
<1>6. ToSet(queue') = {} /\ Distinct(queue') /\ ToSet(lock'.waiters) = {} /\ Distinct(lock'.waiters)
      /\ lock'.holder = None /\ lock'.waiters = <<>>
  BY <1>1 DEF ToSet, Distinct
<1>7. main'.step = "reloaded"
  BY <1>1 DEF Idle
<1>8. ASSUME NEW r \in Requests
      PROVE  /\ conn'[r] \in {"new", "answered", "lost"} /\ (conn'[r] = "new" => conn[r] = "new")
             /\ dispatch'[r] \in {"none", "done"}
             /\ conn'[r] = "new" => dispatch'[r] = "none"
  BY <1>1, <1>2 DEF RequestTypes
<1>9. ASSUME NEW r \in Requests PROVE Parsed(r)' /\ Placed(r)' /\ Counted(r)'
  BY <1>1, <1>2, <1>6, <1>8 DEF Parsed, Placed, Counted, Open
<1>10. InHand' /\ Serialized'
  BY <1>2, <1>6, <1>7, <1>8 DEF InHand, Serialized, Executing
<1> QED BY <1>5, <1>6, <1>9, <1>10 DEF RequestsInv

--------------------------------------------------------------------------------
(* The invariant *)

\* Every step preserves the requests' half.
LEMMA RequestsStep ==
  ASSUME IInv, [Next]_vars
  PROVE  RequestsInv'
<1>1. posted \in PostedRecord /\ (posted.latch <=> posted.callbacks = 1)
  BY DEF IInv, RequestsInv, RequestTypes
<1>2. CASE UNCHANGED vars
  <2>1. UNCHANGED <<netVars, dispatchVars, queue, posted, main>>
    BY <1>2 DEF vars, netVars, dispatchVars
  <2> QED BY <1>1, <2>1, RequestsKept
<1>3. ASSUME NEW r \in Requests, Handler(r) \/ DeadlinePasses(r) \/ TimeOut(r) \/ Callbacks(r)
      PROVE  RequestsInv'
  BY <1>3, RefuseStep, EnqueueStep, PostStep, RespondStep, DeadlineStep, TimeOutStep,
     ResumeTimedOutStep, ResumeGrantedStep DEF Handler, Callbacks
<1>4. ASSUME NEW r \in Requests, ProcessItem(r) \/ Yield(r) \/ FinishAsync(r)
      PROVE  RequestsInv'
  BY <1>4, TakeStep, ToolStep DEF ProcessItem
<1>5. ASSUME NEW r \in Requests, NEW n \in Listeners, Accept(r, n) PROVE RequestsInv'
  BY <1>5, AcceptStep
<1>6. ASSUME NEW n \in Listeners, ListenLoop(n) PROVE RequestsInv'
  <2>1. UNCHANGED <<netVars, dispatchVars, queue, posted, main>>
    BY <1>6 DEF ListenLoop, LoopBreaks, LoopChecks, LoopReports
  <2> QED BY <1>1, <2>1, RequestsKept
<1>7. CASE Callback
  <2>1. /\ UNCHANGED <<netVars, dispatchVars, queue>> /\ main.step = "idle"
        /\ posted' = [latch |-> FALSE, callbacks |-> posted.callbacks - 1] /\ posted.callbacks > 0
        /\ Goto("failures")
    BY <1>7 DEF Callback, MainAt
  <2>2. posted.callbacks - 1 = 0
    BY <1>1, <2>1 DEF PostedRecord
  <2>3. posted' \in PostedRecord /\ (posted'.latch <=> posted'.callbacks = 1)
    BY <2>1, <2>2 DEF PostedRecord
  <2>4. main'.step = "failures"
    BY <2>1 DEF Goto, IInv, ServerInv, MainRecord
  <2> QED BY <2>1, <2>3, <2>4, RequestsKept DEF InTool
<1>8. CASE \/ Update \/ TakeFailure \/ NoFailures \/ Restart \/ CloseListener \/ Drained
           \/ AfterReload \/ BeforeReload \/ LoadAssembly
  <2>1. UNCHANGED <<netVars, dispatchVars, queue, posted>>
    BY <1>8 DEF Update, TakeFailure, NoFailures, Restart, CloseListener, Drained, AfterReload,
                BeforeReload, LoadAssembly
  <2>2. main' = main \/ (main.step \notin InTool /\ main'.step \notin InTool)
    <3>1. ASSUME Continue, main.step \in {"restart", "refuse", "drain"}
          PROVE  main.step \notin InTool /\ main'.step \notin InTool
      BY <3>1, ContinueChange DEF IInv, ServerInv, StepInv, InTool
    <3>2. CASE Update
      BY <3>2 DEF Update, MainAt, Goto, IInv, ServerInv, MainRecord, InTool
    <3>3. CASE NoFailures
      BY <3>3 DEF NoFailures, MainAt, Idle, InTool
    <3>4. CASE Restart \/ CloseListener \/ Drained
      BY <3>1, <3>4 DEF Restart, CloseListener, Drained, MainAt
    <3>5. CASE TakeFailure \/ BeforeReload
      BY <3>5 DEF TakeFailure, BeforeReload, BeginStop, MainAt, InTool
    <3>6. CASE AfterReload
      BY <3>6 DEF AfterReload, BeginStop, MainAt, Idle, InTool
    <3>7. CASE LoadAssembly
      BY <3>7 DEF LoadAssembly
    <3> QED BY <1>8, <3>2, <3>3, <3>4, <3>5, <3>6, <3>7
  <2> QED BY <1>1, <2>1, <2>2, RequestsKept
<1>9. CASE RefuseQueued \/ Reload
  BY <1>9, RefuseQueuedStep, ReloadRequestsStep
<1> QED BY <1>2, <1>3, <1>4, <1>5, <1>6, <1>7, <1>8, <1>9 DEF Next, Upkeep

\* The inductive invariant holds throughout every behaviour.
THEOREM Invariant == Spec => []IInv
<1>1. Init => IInv
  BY InitServer, InitRequests DEF IInv
<1>2. IInv /\ [Next]_vars => IInv'
  BY ServerStep, RequestsStep DEF IInv
<1> QED BY <1>1, <1>2, PTL DEF Spec

--------------------------------------------------------------------------------
(* What runs, and where *)

\* A request that passes BridgeProtocol.Validate outside a replacement of the listener
\* came through the current one, which is not being stopped.
LEMMA ValidInPlace ==
  ASSUME IInv, NEW r \in Requests, NEW b \in BOOLEAN, Valid(r, b), Handled(r),
         main.step \in {"drain", "gate", "decode"}
  PROVE  /\ envelope[r].listener = server.current /\ ~server.stopping
         /\ envelope[r].domain \in {None, editor.domain} /\ ~expired[r]
         /\ envelope[r].loads \in {None, editor.loads}
<1>1. envelope[r] \in Envelope /\ envelope[r].listener <= server.started
  BY DEF IInv, RequestsInv, Parsed, Handled
<1>2. envelope[r].listener \in 1..server.started
  BY <1>1, Numbers DEF Envelope, Listeners, IInv
<1>3. envelope[r].listener = server.current /\ server.current # None
  BY <1>2, Numbers DEF Valid, IInv, ServerInv, Numbered
<1>4. ~server.stopping
  BY <1>3 DEF IInv, ServerInv, StepInv
<1> QED BY <1>1, <1>3, <1>4 DEF Valid

\* The only steps that run something: a control from the queue, and Run behind the gate.
LEMMA Effects ==
  ASSUME IInv, [Next]_vars
  PROVE  \/ effect' = effect
         \/ \E r \in Requests :
               /\ effect' = [effect EXCEPT ![r] = @ + 1] /\ effect[r] = 0 /\ Handled(r)
               /\ conn' = conn
               /\ \A u \in Requests \ {r} : answer'[u] = answer[u]
               /\ main.step \in {"drain", "gate", "decode"}
               /\ \E b \in BOOLEAN : Valid(r, b)
               /\ envelope[r].kind = "exec" => Running
<1>1. CASE UNCHANGED vars
  BY <1>1 DEF vars
<1>2. ASSUME NEW r \in Requests, NEW n \in Listeners, Accept(r, n) PROVE effect' = effect
  BY <1>2 DEF Accept, dispatchVars
<1>3. ASSUME NEW r \in Requests,
             \/ Handler(r) \/ DeadlinePasses(r) \/ TimeOut(r) \/ Callbacks(r)
             \/ Finish(r) \/ Yield(r) \/ FinishAsync(r)
      PROVE  effect' = effect
  <2>1. CASE Handler(r)
    BY <2>1 DEF Handler, Refuse, Enqueue, ForceEditorUpdate, Respond, dispatchVars
  <2>2. CASE DeadlinePasses(r) \/ TimeOut(r) \/ Callbacks(r)
    BY <2>2 DEF DeadlinePasses, TimeOut, Callbacks, ResumeTimedOut, ResumeGranted, dispatchVars
  <2>3. CASE Finish(r) \/ Yield(r) \/ FinishAsync(r)
    BY <2>3 DEF Finish, Yield, FinishAsync
  <2> QED BY <1>3, <2>1, <2>2, <2>3
<1>4. ASSUME NEW n \in Listeners, ListenLoop(n) PROVE effect' = effect
  BY <1>4 DEF ListenLoop, LoopBreaks, LoopChecks, LoopReports, dispatchVars
<1>5. CASE Callback \/ Update \/ Upkeep
  <2>1. CASE Callback \/ Update
    BY <2>1 DEF Callback, Update, dispatchVars
  <2>2. CASE Upkeep
    BY <2>2 DEF Upkeep, TakeFailure, NoFailures, Restart, RefuseQueued, CloseListener, Drained,
                dispatchVars
  <2> QED BY <1>5, <2>1, <2>2
<1>6. CASE LoadAssembly \/ BeforeReload \/ Reload \/ AfterReload
  BY <1>6 DEF LoadAssembly, BeforeReload, Reload, AfterReload, dispatchVars
<1>7. ASSUME NEW r \in Requests, Take(r), effect' # effect
      PROVE  /\ effect' = [effect EXCEPT ![r] = @ + 1] /\ effect[r] = 0 /\ Handled(r)
             /\ conn' = conn /\ \A u \in Requests \ {r} : answer'[u] = answer[u]
             /\ main.step = "drain" /\ Valid(r, FALSE) /\ envelope[r].kind # "exec"
  <2>1. /\ effect' = [effect EXCEPT ![r] = @ + 1] /\ Answer(r, "result")
        /\ Valid(r, FALSE) /\ envelope[r].kind = "control"
        /\ main.step = "drain" /\ UNCHANGED netVars
        /\ queue # <<>> /\ r = Head(queue) /\ queue' = Tail(queue)
    BY <1>7 DEF Take, MainAt
  <2>2. effect[r] = 0 /\ Handled(r)
    BY <2>1, HeadFacts
  <2>3. \A u \in Requests \ {r} : answer'[u] = answer[u]
    BY <2>1 DEF Answer, IInv, RequestsInv, RequestTypes
  <2> QED BY <2>1, <2>2, <2>3 DEF netVars
<1>8. ASSUME NEW r \in Requests, Gate(r) \/ Decode(r), effect' # effect
      PROVE  /\ effect' = [effect EXCEPT ![r] = @ + 1] /\ effect[r] = 0 /\ Handled(r)
             /\ conn' = conn /\ answer' = answer
             /\ main.step \in {"gate", "decode"} /\ \E b \in BOOLEAN : Valid(r, b)
             /\ envelope[r].kind = "exec" => Running
  <2>1. /\ effect' = [effect EXCEPT ![r] = @ + 1] /\ answer' = answer
        /\ main.step \in {"gate", "decode"} /\ main.item = r /\ UNCHANGED netVars
    BY <1>8 DEF Gate, Decode, MainAt, TurnedAway, Run, dispatchVars
  <2>2. \E b \in BOOLEAN : Valid(r, b)
    <3>1. CASE Gate(r)
      <4>1. Valid(r, envelope[r].host)
        BY <1>8, <3>1 DEF Gate, TurnedAway, dispatchVars
      <4>2. envelope[r].host \in BOOLEAN
        <5>1. Handled(r)
          BY <2>1, InHandFacts DEF InTool
        <5> QED BY <5>1 DEF IInv, RequestsInv, Parsed, Handled, Envelope
      <4> QED BY <4>1, <4>2
    <3>2. CASE Decode(r)
      BY <1>8, <3>2 DEF Decode, TurnedAway
    <3> QED BY <1>8, <3>1, <3>2
  <2>3. envelope[r].kind = "exec" => Running
    <3>1. CASE Gate(r)
      BY <1>8, <3>1 DEF Gate, TurnedAway, dispatchVars
    <3>2. CASE Decode(r)
      BY <1>8, <3>2 DEF Decode, TurnedAway, Valid
    <3> QED BY <1>8, <3>1, <3>2
  <2>4. effect[r] = 0 /\ Handled(r)
    BY <2>1, InHandFacts DEF InTool
  <2> QED BY <2>1, <2>2, <2>3, <2>4 DEF netVars
<1> QED BY <1>1, <1>2, <1>3, <1>4, <1>5, <1>6, <1>7, <1>8 DEF Next, ProcessItem

\* What runs in a step runs in its place.
LEMMA InPlaceStep ==
  ASSUME IInv, [Next]_vars, NEW r \in Requests, effect'[r] > effect[r]
  PROVE  /\ envelope[r].listener = server.current
         /\ ~server.stopping
         /\ envelope[r].domain \in {None, editor.domain}
         /\ envelope[r].loads \in {None, editor.loads}
         /\ ~expired[r]
         /\ envelope[r].kind = "exec" => Running
<1>1. effect \in [Requests -> 0..1]
  BY DEF IInv, RequestsInv, RequestTypes
<1>2. effect' # effect
  BY <1>1
<1>3. PICK u \in Requests :
         /\ effect' = [effect EXCEPT ![u] = @ + 1] /\ Handled(u)
         /\ main.step \in {"drain", "gate", "decode"}
         /\ \E b \in BOOLEAN : Valid(u, b)
         /\ envelope[u].kind = "exec" => Running
  BY <1>2, Effects
<1>4. u = r
  BY <1>1, <1>3
<1> QED BY <1>3, <1>4, ValidInPlace

--------------------------------------------------------------------------------
(* The contract *)

\* The answer that reached the client.
Outcome(r) == IF conn[r] = "answered" THEN answer[r] ELSE None

\* A step that runs nothing and delivers nothing is invisible to the contract.
LEMMA ContractStutter ==
  ASSUME effect' = effect, \A r \in Requests : Outcome(r)' = Outcome(r)
  PROVE  UNCHANGED Contract!vars
BY DEF Contract!vars, Outcome

\* An answer that reached its client is not touched again.
LEMMA Delivered ==
  ASSUME IInv, [Next]_vars, NEW r \in Requests, ~(conn[r] = "awaiting" /\ Respond(r))
  PROVE  Outcome(r)' = Outcome(r)
<1>1. conn \in [Requests -> ConnStates] /\ answer \in [Requests -> {None, "result", "not_started"}]
      /\ Placed(r)
  BY DEF IInv, RequestsInv, RequestTypes
<1>2. conn[r] = "answered" => ~Open(r) /\ r \notin ToSet(queue)
  BY <1>1 DEF Placed, Handled
<1>3. ASSUME UNCHANGED <<conn, answer>> PROVE Outcome(r)' = Outcome(r)
  BY <1>3 DEF Outcome
<1>4. ASSUME conn' = conn, NEW u \in Requests, NEW a \in {"result", "not_started"}, Answer(u, a),
             Open(u) \/ u \in ToSet(queue)
      PROVE  Outcome(r)' = Outcome(r)
  BY <1>1, <1>2, <1>4 DEF Answer, Outcome
<1>5. ASSUME queue # <<>> PROVE Head(queue) \in ToSet(queue)
  BY <1>5, TailSet DEF IInv, RequestsInv, RequestTypes
<1>6. CASE UNCHANGED vars
  BY <1>3, <1>6 DEF vars
<1>7. ASSUME NEW u \in Requests, NEW n \in Listeners, Accept(u, n) PROVE Outcome(r)' = Outcome(r)
  BY <1>1, <1>7 DEF Accept, Outcome, dispatchVars
<1>8. ASSUME NEW u \in Requests, Handler(u) PROVE Outcome(r)' = Outcome(r)
  <2>1. CASE Refuse(u)
    BY <1>1, <2>1 DEF Refuse, Outcome
  <2>2. CASE Enqueue(u) \/ ForceEditorUpdate(u)
    BY <1>1, <2>2 DEF Enqueue, ForceEditorUpdate, Outcome, dispatchVars
  <2>3. CASE Respond(u)
    <3>1. u # r
      BY <2>3 DEF Respond
    <3> QED BY <1>1, <2>3, <3>1 DEF Respond, Outcome, dispatchVars
  <2> QED BY <1>8, <2>1, <2>2, <2>3 DEF Handler
<1>9. ASSUME NEW u \in Requests, DeadlinePasses(u) \/ TimeOut(u) \/ Yield(u)
      PROVE  Outcome(r)' = Outcome(r)
  BY <1>3, <1>9 DEF DeadlinePasses, TimeOut, Yield, dispatchVars, netVars
<1>10. ASSUME NEW u \in Requests, Callbacks(u) PROVE Outcome(r)' = Outcome(r)
  <2>1. CASE ResumeTimedOut(u)
    BY <1>4, <2>1 DEF ResumeTimedOut, netVars, Open
  <2>2. CASE ResumeGranted(u)
    BY <1>3, <2>2 DEF ResumeGranted, netVars
  <2> QED BY <1>10, <2>1, <2>2 DEF Callbacks
<1>11. ASSUME NEW u \in Requests, Take(u) PROVE Outcome(r)' = Outcome(r)
  <2>1. /\ conn' = conn /\ u \in ToSet(queue)
        /\ answer' = answer \/ \E a \in {"result", "not_started"} : Answer(u, a)
    BY <1>5, <1>11 DEF Take, netVars
  <2> QED BY <1>3, <1>4, <2>1
<1>12. ASSUME NEW u \in Requests, Gate(u) \/ Decode(u) \/ Finish(u) \/ FinishAsync(u)
       PROVE  Outcome(r)' = Outcome(r)
  <2>1. conn' = conn
    BY <1>12 DEF Gate, Decode, Finish, FinishAsync, netVars
  <2>2. Open(u)
    <3>1. CASE FinishAsync(u)
      BY <3>1 DEF FinishAsync, Open
    <3>2. CASE Gate(u) \/ Decode(u) \/ Finish(u)
      <4>1. main.step \in InTool /\ main.item = u
        BY <3>2 DEF Gate, Decode, Finish, MainAt, InTool
      <4> QED BY <4>1, InHandFacts DEF Open
    <3> QED BY <1>12, <3>1, <3>2
  <2>3. answer' = answer \/ \E a \in {"result", "not_started"} : Answer(u, a)
    BY <1>12 DEF Gate, Decode, Finish, FinishAsync, TurnedAway, Leave, Run, dispatchVars
  <2> QED BY <1>3, <1>4, <2>1, <2>2, <2>3
<1>13. ASSUME NEW n \in Listeners, ListenLoop(n) PROVE Outcome(r)' = Outcome(r)
  BY <1>3, <1>13 DEF ListenLoop, LoopBreaks, LoopChecks, LoopReports, netVars, dispatchVars
<1>14. CASE \/ Callback \/ Update \/ TakeFailure \/ NoFailures \/ Restart \/ CloseListener \/ Drained
            \/ LoadAssembly \/ BeforeReload \/ AfterReload
  BY <1>3, <1>14 DEF Callback, Update, TakeFailure, NoFailures, Restart, CloseListener, Drained,
                     LoadAssembly, BeforeReload, AfterReload, netVars, dispatchVars
<1>15. CASE RefuseQueued
  <2>1. /\ conn' = conn /\ Head(queue) \in ToSet(queue) /\ Answer(Head(queue), "not_started")
    BY <1>5, <1>15 DEF RefuseQueued, Answer, netVars
  <2>2. Head(queue) \in Requests
    BY <2>1, ToSetType DEF IInv, RequestsInv, RequestTypes
  <2> QED BY <1>4, <2>1, <2>2
<1>16. CASE Reload
  <2>1. answer' = answer /\ (conn'[r] = "answered" <=> conn[r] = "answered")
    BY <1>1, <1>16 DEF Reload
  <2> QED BY <2>1 DEF Outcome
<1> QED BY <1>6, <1>7, <1>8, <1>9, <1>10, <1>11, <1>12, <1>13, <1>14, <1>15, <1>16
        DEF Next, ProcessItem, Upkeep

\* Every step is one of the contract, or invisible to it.
LEMMA ContractStep ==
  ASSUME IInv, [Next]_vars
  PROVE  [Contract!Next]_(Contract!vars)
<1>1. conn \in [Requests -> ConnStates] /\ effect \in [Requests -> 0..1]
  BY DEF IInv, RequestsInv, RequestTypes
<1>2. CASE \E r \in Requests : conn[r] = "awaiting" /\ Respond(r)
  <2>1. PICK r \in Requests : conn[r] = "awaiting" /\ Respond(r)
    BY <1>2
  <2>2. answer[r] # None /\ UNCHANGED <<answer, effect>>
    BY <2>1 DEF Respond, dispatchVars
  <2>3. PICK c \in {"answered", "lost"} : conn' = [conn EXCEPT ![r] = c]
    BY <2>1 DEF Respond
  <2>4. conn'[r] = c /\ \A u \in Requests \ {r} : conn'[u] = conn[u]
    BY <1>1, <2>3
  <2>5. CASE c = "lost"
    BY <2>1, <2>2, <2>4, <2>5, ContractStutter DEF Outcome
  <2>6. CASE c = "answered"
    <3>1. Counted(r) /\ answer[r] \in {"result", "not_started"}
      BY <2>2 DEF IInv, RequestsInv, RequestTypes
    <3>2. PICK o \in {"result", "not_started"} : o = answer[r]
      BY <3>1
    <3>3. Outcome(r) = None /\ Outcome(r)' = o
          /\ \A u \in Requests \ {r} : Outcome(u)' = Outcome(u)
      BY <2>1, <2>2, <2>4, <2>6, <3>2 DEF Outcome
    <3>4. [u \in Requests |-> Outcome(u)]' = [[u \in Requests |-> Outcome(u)] EXCEPT ![r] = o]
      BY <3>3
    <3>5. Contract!Answer(r, o)
      BY <2>2, <3>1, <3>2, <3>3, <3>4 DEF Contract!Answer, Outcome, Counted
    <3>6. o \in Contract!Outcomes \ {None}
      BY <2>2, <3>2 DEF Contract!Outcomes
    <3> QED BY <3>5, <3>6 DEF Contract!Next
  <2> QED BY <2>5, <2>6
<1>3. CASE ~\E r \in Requests : conn[r] = "awaiting" /\ Respond(r)
  <2>1. \A u \in Requests : Outcome(u)' = Outcome(u)
    BY <1>3, Delivered
  <2>2. CASE effect' = effect
    BY <2>1, <2>2, ContractStutter
  <2>3. CASE effect' # effect
    <3>1. PICK r \in Requests : /\ effect' = [effect EXCEPT ![r] = @ + 1] /\ effect[r] = 0
                                /\ Handled(r)
      BY <2>3, Effects
    <3>2. effect' = [effect EXCEPT ![r] = 1]
      BY <1>1, <3>1
    <3>3. Outcome(r) = None
      BY <3>1 DEF Outcome, Handled
    <3>4. [u \in Requests |-> Outcome(u)]' = [u \in Requests |-> Outcome(u)]
      BY <2>1
    <3>5. Contract!Execute(r)
      BY <3>1, <3>2, <3>3, <3>4 DEF Contract!Execute, Outcome
    <3> QED BY <3>5 DEF Contract!Next
  <2> QED BY <2>2, <2>3
<1> QED BY <1>2, <1>3

--------------------------------------------------------------------------------
(* Reports of failed listeners *)

\* Loops belong to listeners that were started, and a report is a loop's last step.
ReportsInv ==
  /\ \A n \in Listeners : loop[n] # "none" => n <= server.started
  /\ \A n \in ToSet(failed) : loop[n] = "ended"

ReportsTypes ==
  /\ loop \in [Listeners -> Loops] /\ failed \in Seq(Listeners) /\ ToSet(failed) \subseteq Listeners
  /\ server.started \in Nat /\ server'.started \in Nat /\ server'.started >= server.started
  /\ \A n \in Listeners : n \in Nat

LEMMA ReportsTyped ==
  ASSUME ServerInv, [Next]_vars
  PROVE  ReportsTypes
<1>1. server.started \in Nat /\ server'.started \in Nat /\ server'.started >= server.started
  BY ServerStep DEF ServerInv, Numbered, Listeners
<1>2. loop \in [Listeners -> Loops] /\ failed \in Seq(Listeners) /\ ToSet(failed) \subseteq Listeners
  BY ToSetType DEF ServerInv, ServerTypes
<1> QED BY <1>1, <1>2 DEF ReportsTypes, Listeners

\* What leaves the reports alone, and starts or revives no loop.
LEMMA ReportsKept ==
  ASSUME ReportsTypes, ReportsInv, ToSet(failed)' \subseteq ToSet(failed),
         \A n \in Listeners : /\ loop[n] = "none" => loop[n]' = "none"
                              /\ loop[n] = "ended" => loop[n]' = "ended"
  PROVE  ReportsInv'
BY DEF ReportsTypes, ReportsInv, Listeners

LEMMA ReportsStep ==
  ASSUME ServerInv, ReportsInv, [Next]_vars
  PROVE  ReportsInv'
<1>1. ReportsTypes
  BY ReportsTyped
<1>2. ASSUME UNCHANGED <<loop, failed>> PROVE ReportsInv'
  BY <1>1, <1>2, ReportsKept
<1>3. CASE UNCHANGED vars
  BY <1>2, <1>3 DEF vars, serverVars
<1>4. ASSUME NEW r \in Requests, NEW n \in Listeners, Accept(r, n) PROVE ReportsInv'
  BY <1>1, <1>4, ReportsKept DEF Accept, ReportsTypes
<1>5. ASSUME NEW r \in Requests,
             Handler(r) \/ DeadlinePasses(r) \/ TimeOut(r) \/ Callbacks(r) \/ ProcessItem(r)
                \/ Yield(r) \/ FinishAsync(r)
      PROVE  ReportsInv'
  <2>1. UNCHANGED <<loop, failed>>
    BY <1>5 DEF Handler, Refuse, Enqueue, ForceEditorUpdate, Respond, DeadlinePasses, TimeOut,
       Callbacks, ResumeTimedOut, ResumeGranted, ProcessItem, Take, Gate, Decode, Finish, Yield,
       FinishAsync, serverVars
  <2> QED BY <1>2, <2>1
<1>6. ASSUME NEW n \in Listeners, ListenLoop(n) PROVE ReportsInv'
  <2>1. CASE LoopBreaks(n) \/ LoopChecks(n)
    BY <1>1, <2>1, ReportsKept DEF LoopBreaks, LoopChecks, ReportsTypes
  <2>2. CASE LoopReports(n)
    <3>1. /\ loop[n] = "reporting" /\ loop' = [loop EXCEPT ![n] = "ended"]
          /\ server' = server /\ failed' = Append(failed, n)
      BY <2>2 DEF LoopReports
    <3>2. ToSet(failed)' = ToSet(failed) \cup {n}
      BY <1>1, <3>1, AppendSet DEF ReportsTypes
    <3> QED BY <1>1, <3>1, <3>2 DEF ReportsTypes, ReportsInv, Listeners
  <2> QED BY <1>6, <2>1, <2>2 DEF ListenLoop
<1>7. CASE Callback \/ Update \/ Drained \/ RefuseQueued \/ NoFailures \/ AfterReload
           \/ BeforeReload \/ CloseListener \/ LoadAssembly
  <2>1. UNCHANGED <<loop, failed>>
    BY <1>7 DEF Callback, Update, Drained, RefuseQueued, NoFailures, AfterReload, BeforeReload,
       CloseListener, LoadAssembly, serverVars
  <2> QED BY <1>2, <2>1
<1>8. CASE TakeFailure
  <2>1. loop' = loop /\ failed # <<>> /\ failed' = Tail(failed)
    BY <1>8 DEF TakeFailure
  <2>2. ToSet(failed)' \subseteq ToSet(failed)
    BY <1>1, <2>1, TailSet DEF ReportsTypes
  <2> QED BY <1>1, <2>1, <2>2, ReportsKept
<1>9. CASE Restart
  <2>1. CASE UNCHANGED loop
    BY <1>2, <1>9, <2>1 DEF Restart
  <2>2. CASE ~UNCHANGED loop
    <3>1. /\ server.started + 1 \in Listeners
          /\ loop' = [loop EXCEPT ![server.started + 1] = "accepting"]
          /\ server' = Started(server.started + 1) /\ failed' = failed
      BY <1>9, <2>2 DEF Restart
    <3>2. server'.started = server.started + 1
      BY <3>1 DEF Started, ServerInv, ServerTypes, ServerRecord
    <3>3. server.started + 1 \notin ToSet(failed)
      BY <1>1, <3>1 DEF ReportsTypes, ReportsInv
    <3> QED BY <1>1, <3>1, <3>2, <3>3 DEF ReportsTypes, ReportsInv
  <2> QED BY <2>1, <2>2
<1>10. CASE Reload
  <2>1. failed' = <<>>
    BY <1>10 DEF Reload
  <2>2. \A n \in Listeners : loop'[n] # "none" => n = server'.current \/ loop[n] # "none"
    BY <1>10 DEF Reload
  <2>3. \A n \in Listeners : n = server'.current => n <= server'.started
    <3>1. ServerInv'
      BY ServerStep
    <3>2. server'.current # None => server'.current \in 1..server'.started
      BY <3>1 DEF ServerInv, Numbered
    <3>3. \A n \in Listeners : n # None
      BY ConnectorAssumption DEF Listeners
    <3> QED BY <1>1, <3>2, <3>3 DEF ReportsTypes
  <2>4. ToSet(failed)' = {}
    BY <2>1 DEF ToSet
  <2> QED BY <1>1, <2>2, <2>3, <2>4 DEF ReportsTypes, ReportsInv
<1> QED BY <1>3, <1>4, <1>5, <1>6, <1>7, <1>8, <1>9, <1>10 DEF Next, Upkeep

\* Only three steps stop the server: for a report, after a reload, before one.
LEMMA StoppedForReason ==
  ASSUME ServerInv, ReportsInv, [Next]_vars, ~server.stopping, server'.stopping
  PROVE  main'.next = "unload" \/ ~Running \/ loop[server.current] = "ended"
<1>1. server \in ServerRecord /\ failed \in Seq(Listeners) /\ server'.stopping # server.stopping
  BY DEF ServerInv, ServerTypes
<1>2. CASE TakeFailure
  <2>1. failed # <<>> /\ server.current = Head(failed)
    BY <1>1, <1>2 DEF TakeFailure
  <2>2. Head(failed) \in ToSet(failed)
    BY <1>1, <2>1, TailSet
  <2> QED BY <2>1, <2>2 DEF ReportsInv
<1>3. CASE BeforeReload
  BY <1>3 DEF BeforeReload, BeginStop
<1>4. CASE AfterReload
  BY <1>1, <1>4 DEF AfterReload
<1>5. CASE Restart \/ Reload
  BY <1>1, <1>5 DEF Restart, Reload, Started, ServerRecord
<1>6. CASE CloseListener \/ \E n \in Listeners : ListenLoop(n)
  BY <1>1, <1>6 DEF CloseListener, ListenLoop, LoopBreaks, LoopChecks, LoopReports, ServerRecord
<1>7. ASSUME UNCHANGED server PROVE FALSE
  BY <1>1, <1>7
<1>8. CASE UNCHANGED vars
  BY <1>7, <1>8 DEF vars, serverVars
<1>9. CASE \E r \in Requests : \/ \E n \in Listeners : Accept(r, n)
                               \/ Handler(r) \/ DeadlinePasses(r) \/ TimeOut(r) \/ Callbacks(r)
                               \/ ProcessItem(r) \/ Yield(r) \/ FinishAsync(r)
  <2>1. UNCHANGED server
    BY <1>9 DEF Accept, Handler, Refuse, Enqueue, ForceEditorUpdate, Respond, DeadlinePasses,
       TimeOut, Callbacks, ResumeTimedOut, ResumeGranted, ProcessItem, Take, Gate, Decode, Finish,
       Yield, FinishAsync, serverVars
  <2> QED BY <1>7, <2>1
<1>10. CASE Callback \/ Update \/ Drained \/ RefuseQueued \/ NoFailures \/ LoadAssembly
  <2>1. UNCHANGED server
    BY <1>10 DEF Callback, Update, Drained, RefuseQueued, NoFailures, LoadAssembly, serverVars
  <2> QED BY <1>7, <2>1
<1> QED BY <1>2, <1>3, <1>4, <1>5, <1>6, <1>8, <1>9, <1>10 DEF Next, Upkeep

--------------------------------------------------------------------------------
(* The theorems *)

\* The variables keep their types: one drain is posted at a time, and a request runs
\* once at most.
THEOREM TypeCorrect == Spec => []TypeOK
BY Invariant, TypesHold, PTL

\* Commands run one at a time under the router's execution lock (s_Lock), however many
\* requests wait for it and however deadlines end the waiting.
THEOREM OneAtATime == Spec => []Serialized
<1>1. IInv => Serialized
  BY DEF IInv, RequestsInv
<1> QED BY <1>1, Invariant, PTL

\* The command server never stays deaf (HttpServer: ListenLoop, the failed listeners,
\* StopListener and Start), whatever failures of listeners and reloads come together.
THEOREM ServerHears == Spec => []NeverDeaf
<1>1. IInv => NeverDeaf
  BY DEF IInv, ServerInv
<1> QED BY <1>1, Invariant, PTL

\* Only the failure of the listener in use, or a reload, stops the server (ProcessQueue
\* compares the report with s_Listener): the loop of a replaced one may report at any time.
THEOREM OwnFailures == Spec => StopsItsOwn
<1>1. Init => ReportsInv
  BY DEF Init, ReportsInv, ToSet
<1>2. IInv /\ ReportsInv /\ [Next]_vars => ReportsInv'
  BY ReportsStep DEF IInv
<1>3. ASSUME IInv, ReportsInv, [Next]_vars
      PROVE  [~server.stopping /\ server'.stopping =>
                 main'.next = "unload" \/ ~Running \/ loop[server.current] = "ended"]_vars
  BY <1>3, StoppedForReason DEF IInv
<1> QED BY <1>1, <1>2, <1>3, Invariant, PTL DEF Spec, StopsItsOwn

\* A command only runs through the listener, in the domain, against the references and
\* before the deadline it was sent for (BridgeProtocol.Validate at each of its places).
THEOREM CommandsInPlace == Spec => RunsInPlace
<1>1. ASSUME IInv, [Next]_vars
      PROVE  [\A r \in Requests : effect'[r] > effect[r] =>
                 /\ envelope[r].listener = server.current
                 /\ ~server.stopping
                 /\ envelope[r].domain \in {None, editor.domain}
                 /\ envelope[r].loads \in {None, editor.loads}
                 /\ ~expired[r]
                 /\ envelope[r].kind = "exec" => Running]_vars
  BY <1>1, InPlaceStep
<1> QED BY <1>1, Invariant, PTL DEF Spec, RunsInPlace

\* The Connector keeps the contract of one request: it runs once at most, gets one answer
\* at most, and the answer says truly whether it ran.
THEOREM Implementation == Spec => ImplementsContract
<1>1. Init => Contract!Init
  <2> SUFFICES ASSUME Init PROVE Contract!Init
    OBVIOUS
  <2>1. \A r \in Requests : conn[r] = "new"
    BY DEF Init
  <2>2. [r \in Requests |-> IF conn[r] = "answered" THEN answer[r] ELSE None]
           = [r \in Requests |-> None]
    BY <2>1
  <2>3. effect = [r \in Requests |-> 0]
    BY DEF Init
  <2> QED BY <2>2, <2>3 DEF Contract!Init
<1>2. IInv /\ [Next]_vars => [Contract!Next]_(Contract!vars)
  BY ContractStep
<1> QED BY <1>1, <1>2, Invariant, PTL DEF Spec, Contract!Spec, ImplementsContract
================================================================================
