--------------------------- MODULE Operations_proofs ---------------------------
(* Proofs about Operations for every number of clients, every setup and every *)
(* size of the receipt table.  Part 1: the operators on receipts.  Part 2:    *)
(* types, and what each client knows of its command.  Part 3: what a receipt  *)
(* says of the work Unity still owes.  Part 4: the theorems.                  *)
EXTENDS Operations, FiniteSetTheorems, WellFoundedInduction, TLAPS

ClientState == [target : 0..MaxPid, seen : 0..1,
                pc : {"start", "send", "wait", "receipt", "beat", "live", "unlink", "done"},
                back : {None, "start", "receipt", "beat", "live"},
                reply : {None, "id", "noid", "error", "unknown"},
                result : {None, "confirmed", "failed"},
                from : {None, Inner, Outer}]
EditorState == [pid : 1..MaxPid, alive : BOOLEAN, up : BOOLEAN, carried : BOOLEAN,
                mode : {"edit", "entering", "arriving", "playing", "exiting"},
                forced : States \cup {None}]

\* Where the client is, or will be again once it removed the file of a dead editor.
Place(c) == IF client[c].pc = "unlink" THEN client[c].back ELSE client[c].pc

\* A command is executed once: nobody sends it again, and its client only waits for a
\* receipt that was handed out.
ClientInv(c) ==
  /\ client[c].pc = "unlink" => client[c].back \in {"start", "receipt", "beat", "live"}
  /\ Place(c) \in {"start", "send", "live"} => client[c].reply = None
  /\ Place(c) \in {"start", "send"} => c \notin flight /\ ~ran[c]
  /\ Place(c) = "wait" => client[c].reply # "unknown"
  /\ Place(c) = "beat" => client[c].reply \in {"noid", "unknown"}
  /\ client[c].pc # "done" => client[c].result = None
  /\ c \in flight => ~ran[c]
  /\ client[c].reply \in {"id", "noid"} => ran[c]
ClientsInv == \A c \in Clients : ClientInv(c)

\* Every receipt is the only one of a command that ran.
ReceiptsInv ==
  /\ IsFiniteSet(receipts)
  /\ \A r \in receipts : ran[r.id] /\ r.kind = IF Kind(r.id) = "compile" THEN "refresh" ELSE Kind(r.id)
  /\ \A q, r \in receipts : q.id = r.id => q = r

\* Every file on disk is at least as new as an import that was answered without a receipt,
\* unless the import could not write its busy mark: then the former file may still be there.
AfterInv ==
  \A c \in Clients :
    /\ client[c].reply = "noid" /\ client[c].pc # "done" /\ Kind(c) \in ImportKinds
    /\ file # None /\ c \notin unmarked
    => c \in file.after

IInv == TypeOK /\ ClientsInv /\ ReceiptsInv /\ AfterInv

\* What receipt r promises of the work o that Unity owes for it: a completed one that
\* nothing is owed, an open one that it cannot complete before.
Play(r) == r.kind \in {"play", "stop"}
Kept(r, o, compiling, carries) ==
  /\ Has(r, "completed") => Has(r, "cancelled") \/ o = "nothing"
  /\ carries => ~Has(r, "explicit")
  /\ ~Has(r, "completed") /\ Play(r) => o \in (IF Has(r, "event") THEN {"nothing"} ELSE {"nothing", "event"})
  /\ ~Has(r, "completed") /\ ~Play(r) =>
       /\ o \in {"nothing", "asked", "compile", "reload"}
       /\ o # "nothing" => ~Has(r, "moved")
       /\ o = "asked"   => Has(r, "explicit") /\ ~Has(r, "compiling") /\ ~Has(r, "compiled")
       /\ o = "compile" => Has(r, "compiling") /\ ~Has(r, "compiled")
       /\ o = "reload"  => /\ ~compiling
                           /\ Has(r, "reload") \/ (Has(r, "explicit") /\ ~Has(r, "compiled"))

Compiling == Owing("compile") # {}

\* The receipts tell the truth about the editor's work.
WorkInv ==
  /\ editor.alive /\ ~editor.up => ~Compiling
  /\ \A r \in receipts : Trusted(r.id) => Kept(r, owes[r.id], Compiling, Carries)
  /\ \A c \in Clients : Trusted(c) /\ client[c].result = "confirmed" /\ client[c].reply = "id" =>
       owes[c] = "nothing" /\ \A r \in receipts : r.id = c => Has(r, "completed")

--------------------------------------------------------------------------------
(* Part 1: the operators on receipts                                          *)

\* A nonempty set of natural numbers has a least element.
LEMMA LeastNumber ==
  ASSUME NEW T \in SUBSET Nat, T # {}
  PROVE  \E x \in T : \A y \in T : x <= y
<1> DEFINE R == {p \in Nat \X Nat : p[1] < p[2]}
<1>1. IsWellFoundedOn(R, Nat)
  BY NatLessThanWellFounded DEF OpToRel
<1>2. T \subseteq Nat
  OBVIOUS
<1>3. PICK x \in T : \A y \in T : ~(<<y, x>> \in R)
  <2> HIDE DEF R
  <2> QED BY <1>1, <1>2, WFMin
<1>4. ASSUME NEW y \in T PROVE ~(y < x)
  <2>1. <<y, x>> \in Nat \X Nat /\ <<y, x>>[1] = y /\ <<y, x>>[2] = x
    BY <1>2
  <2> QED BY <1>3, <2>1
<1> QED BY <1>2, <1>4

\* A table of receipts: finitely many, one for each command.
Table(rs) ==
  /\ rs \subseteq Receipt /\ IsFiniteSet(rs)
  /\ \A q, r \in rs : q.id = r.id => q = r

\* Table new holds receipts of table old, with other flags at most.
Derived(new, old) ==
  /\ Table(new) /\ Cardinality(new) <= Cardinality(old)
  /\ \A m \in new : \E r \in old : m.id = r.id /\ m.kind = r.kind

\* The oldest receipt is one of them.
LEMMA OldestIsOne ==
  ASSUME NEW rs, rs \subseteq Receipt, rs # {}
  PROVE  Oldest(rs) \in rs
<1> DEFINE T == {r.at : r \in rs}
<1>1. T \in SUBSET Nat /\ T # {}
  BY DEF Receipt
<1>2. PICK x \in T : \A y \in T : x <= y
  <2> HIDE DEF T
  <2> QED BY <1>1, LeastNumber
<1>3. \E r \in rs : \A q \in rs : r.at <= q.at
  BY <1>2
<1> QED BY <1>3 DEF Oldest

\* Tables with different ids whose ids are among those of a finite table are no larger.
LEMMA NoMore ==
  ASSUME NEW old, NEW new, IsFiniteSet(old),
         \A m \in new : \E r \in old : m.id = r.id,
         \A m, n \in new : m.id = n.id => m = n
  PROVE  IsFiniteSet(new) /\ Cardinality(new) <= Cardinality(old)
<1> DEFINE f == [m \in new |-> CHOOSE r \in old : m.id = r.id]
<1>1. \A m \in new : f[m] \in old /\ f[m].id = m.id
  OBVIOUS
<1>2. f \in [new -> old]
  BY <1>1
<1>3. \A m, n \in new : f[m] = f[n] => m = n
  BY <1>1
<1>4. f \in Injection(new, old)
  <2> HIDE DEF f
  <2> QED BY <1>2, <1>3 DEF Injection, IsInjective
<1> HIDE DEF f
<1> QED BY <1>4, FS_Injection

\* m is receipt r with other flags.
Same(m, r) == m \in Receipt /\ m.id = r.id /\ m.kind = r.kind

\* m is what marking makes of receipt r.
Marked(m, r, chosen, on, off) ==
  /\ Same(m, r)
  /\ r \in chosen    => m.flags = (r.flags \ off) \cup on
  /\ r \notin chosen => m = r

\* What marking does to each receipt, and to the table.
LEMMA MarkFacts ==
  ASSUME NEW rs, Table(rs), NEW chosen, NEW on \in SUBSET Flags, NEW off
  PROVE  /\ Derived(Mark(rs, chosen, on, off), rs)
         /\ \A m \in Mark(rs, chosen, on, off) : \E r \in rs : Marked(m, r, chosen, on, off)
<1> DEFINE M == Mark(rs, chosen, on, off)
           G(r) == [r EXCEPT !.flags = (r.flags \ off) \cup on]
           W(r) == IF r \in chosen THEN G(r) ELSE r
<1>1. \A m \in M : \E r \in rs : m = W(r)
  BY DEF Mark
<1>2. ASSUME NEW r \in rs PROVE Marked(W(r), r, chosen, on, off)
  BY DEF Table, Receipt, Marked, Same
<1> HIDE DEF M, W
<1>3. ASSUME NEW m \in M, NEW n \in M, m.id = n.id PROVE m = n
  <2>1. PICK q \in rs : m = W(q)
    BY <1>1
  <2>2. PICK r \in rs : n = W(r)
    BY <1>1
  <2>3. q = r
    BY <1>2, <1>3, <2>1, <2>2 DEF Table, Marked, Same
  <2> QED BY <2>1, <2>2, <2>3
<1>4. \A m \in M : \E r \in rs : Marked(m, r, chosen, on, off)
  BY <1>1, <1>2
<1>5. /\ M \subseteq Receipt
      /\ \A m \in M : \E r \in rs : m.id = r.id /\ m.kind = r.kind
  BY <1>4 DEF Marked, Same
<1>6. IsFiniteSet(M) /\ Cardinality(M) <= Cardinality(rs)
  <2>1. IsFiniteSet(rs)
    BY DEF Table
  <2> QED BY <1>3, <1>5, <2>1, NoMore
<1>7. Derived(M, rs)
  BY <1>3, <1>5, <1>6 DEF Derived, Table
<1> QED BY <1>4, <1>7 DEF M

\* Taking receipts out of a table.
LEMMA SubTable ==
  ASSUME NEW rs, Table(rs), NEW new \in SUBSET rs
  PROVE  Derived(new, rs)
<1>1. IsFiniteSet(new) /\ Cardinality(new) <= Cardinality(rs)
  BY FS_Subset DEF Table
<1> QED BY <1>1 DEF Derived, Table

LEMMA DerivedTrans ==
  ASSUME NEW a, NEW b, NEW c, Derived(a, b), Derived(b, c), IsFiniteSet(c)
  PROVE  Derived(a, c)
<1>1. Cardinality(a) \in Nat /\ Cardinality(b) \in Nat /\ Cardinality(c) \in Nat
  BY FS_CardinalityType DEF Derived, Table
<1>2. Cardinality(a) <= Cardinality(c)
  BY <1>1 DEF Derived
<1>3. \A m \in a : \E r \in c : m.id = r.id /\ m.kind = r.kind
  BY DEF Derived
<1> QED BY <1>2, <1>3 DEF Derived

\* m and r differ in nothing that their promise depends on.
Alike(m, r) ==
  Same(m, r) /\ \A flag \in Flags \ {"finished", "code"} : Has(m, flag) <=> Has(r, flag)

LEMMA StartedFacts ==
  ASSUME NEW rs, Table(rs)
  PROVE  /\ Derived(CompilationStarted(rs), rs)
         /\ \A m \in CompilationStarted(rs) : \E r \in rs :
               Marked(m, r, Active(rs), {"compiling"}, {"compiled", "failed", "reload"})
<1>1. {"compiling"} \in SUBSET Flags
  BY DEF Flags
<1> QED BY <1>1, MarkFacts, Zenon DEF CompilationStarted

\* How the compilation that was open for receipt r ended.
Ended(r, how) ==
  r.flags \cup {"compiled"} \cup (IF how = "built" THEN {"reload"} ELSE {})
          \cup (IF how = "failed" THEN {"failed"} ELSE {})
Open(rs) == {r \in Active(rs) : Has(r, "compiling")}

LEMMA FinishedFacts ==
  ASSUME NEW rs, Table(rs), NEW how \in {"built", "failed", "empty"}
  PROVE  /\ Derived(CompilationFinished(rs, how), rs)
         /\ \A m \in CompilationFinished(rs, how) : \E r \in rs :
               /\ Same(m, r)
               /\ r \in Open(rs) => m.flags = Ended(r, how)
               /\ r \notin Open(rs) => m = r
<1> DEFINE flags == CASE how = "built"  -> {"compiled", "reload"}
                      [] how = "failed" -> {"compiled", "failed"}
                      [] how = "empty"  -> {"compiled"}
<1>1. flags \in SUBSET Flags
  BY DEF Flags
<1>2. \A r : (r.flags \ {}) \cup flags = Ended(r, how)
  BY DEF Ended
<1>3. CompilationFinished(rs, how) = Mark(rs, Open(rs), flags, {})
  BY DEF CompilationFinished, Open
<1> HIDE DEF flags
<1>4. /\ Derived(CompilationFinished(rs, how), rs)
      /\ \A m \in CompilationFinished(rs, how) : \E r \in rs : Marked(m, r, Open(rs), flags, {})
  BY <1>1, <1>3, MarkFacts, Zenon
<1>5. ASSUME NEW m \in CompilationFinished(rs, how)
      PROVE  \E r \in rs : /\ Same(m, r)
                           /\ r \in Open(rs) => m.flags = Ended(r, how)
                           /\ r \notin Open(rs) => m = r
  <2>1. PICK r \in rs : Marked(m, r, Open(rs), flags, {})
    BY <1>4
  <2> QED BY <1>2, <2>1, Zenon DEF Marked
<1> QED BY <1>4, <1>5

LEMMA ReloadedFacts ==
  ASSUME NEW rs, Table(rs)
  PROVE  /\ Derived(AfterAssemblyReload(rs), rs)
         /\ \A m \in AfterAssemblyReload(rs) : \E r \in rs :
               /\ Same(m, r)
               /\ r \in Active(rs)    => m.flags = r.flags \cup {"finished", "compiled", "moved"}
               /\ r \notin Active(rs) => m.flags = r.flags \cup {"moved"}
<1> DEFINE served == Mark(rs, Active(rs), {"finished", "compiled"}, {})
<1>1. {"finished", "compiled"} \in SUBSET Flags /\ {"moved"} \in SUBSET Flags
  BY DEF Flags
<1>2. AfterAssemblyReload(rs) = Mark(served, served, {"moved"}, {})
  BY DEF AfterAssemblyReload
<1>3. /\ Derived(served, rs)
      /\ \A q \in served : \E r \in rs : Marked(q, r, Active(rs), {"finished", "compiled"}, {})
  BY <1>1, MarkFacts, Zenon
<1> HIDE DEF served
<1>4. Table(served)
  BY <1>3 DEF Derived
<1>5. /\ Derived(AfterAssemblyReload(rs), served)
      /\ \A m \in AfterAssemblyReload(rs) : \E q \in served : Marked(m, q, served, {"moved"}, {})
  BY <1>1, <1>2, <1>4, MarkFacts, Zenon
<1>6. Derived(AfterAssemblyReload(rs), rs)
  BY <1>3, <1>5, DerivedTrans DEF Table
<1>7. ASSUME NEW m \in AfterAssemblyReload(rs)
      PROVE  \E r \in rs :
               /\ Same(m, r)
               /\ r \in Active(rs)    => m.flags = r.flags \cup {"finished", "compiled", "moved"}
               /\ r \notin Active(rs) => m.flags = r.flags \cup {"moved"}
  <2>1. PICK q \in served : Marked(m, q, served, {"moved"}, {})
    BY <1>5
  <2>2. PICK r \in rs : Marked(q, r, Active(rs), {"finished", "compiled"}, {})
    BY <1>3
  <2>3. Same(m, r) /\ m.flags = q.flags \cup {"moved"}
    BY <2>1, <2>2 DEF Marked, Same
  <2>4. r \in Active(rs) => q.flags = r.flags \cup {"finished", "compiled"}
    BY <2>2 DEF Marked
  <2>5. r \notin Active(rs) => q = r
    BY <2>2 DEF Marked
  <2> QED BY <2>3, <2>4, <2>5
<1> QED BY <1>6, <1>7

\* A transition confirms the play mode receipts it reaches and cancels their opposites.
Reached(r, entered) == (r.kind = "play") = (entered = "playing")

LEMMA PlayFacts ==
  ASSUME NEW rs, Table(rs), NEW entered
  PROVE  /\ Derived(PlayModeStateChanged(rs, entered), rs)
         /\ \A m \in PlayModeStateChanged(rs, entered) : \E r \in rs :
               /\ Same(m, r)
               /\ ~(Play(r) /\ ~Has(r, "completed")) => m = r
               /\ Play(r) /\ ~Has(r, "completed") =>
                    /\ Reached(r, entered)  => m.flags = r.flags \cup {"event"}
                    /\ ~Reached(r, entered) => m.flags = r.flags \cup {"completed", "cancelled"}
<1> DEFINE open == Pending(rs) \ Active(rs)
           reached == {r \in open : (r.kind = "play") = (entered = "playing")}
           turned == open \ reached
           first == Mark(rs, turned, {"completed", "cancelled"}, {})
<1>1. {"completed", "cancelled"} \in SUBSET Flags /\ {"event"} \in SUBSET Flags
  BY DEF Flags
<1>2. /\ \A r \in rs : r \in open <=> Play(r) /\ ~Has(r, "completed")
      /\ \A r : r \in reached <=> r \in open /\ Reached(r, entered)
      /\ \A r : r \in turned <=> r \in open /\ ~Reached(r, entered)
      /\ \A r \in reached : ~("completed" \in r.flags)
  BY DEF Pending, Active, Play, Table, Receipt, Reached, Has
<1>3. PlayModeStateChanged(rs, entered) = Mark(first, reached, {"event"}, {})
  BY DEF PlayModeStateChanged
<1>4. /\ Derived(first, rs)
      /\ \A q \in first : \E r \in rs : Marked(q, r, turned, {"completed", "cancelled"}, {})
  BY <1>1, MarkFacts, Zenon
<1> HIDE DEF open, reached, turned, first
<1>5. Table(first)
  BY <1>4 DEF Derived
<1>6. /\ Derived(PlayModeStateChanged(rs, entered), first)
      /\ \A m \in PlayModeStateChanged(rs, entered) : \E q \in first :
            Marked(m, q, reached, {"event"}, {})
  BY <1>1, <1>3, <1>5, MarkFacts, Zenon
<1>7. Derived(PlayModeStateChanged(rs, entered), rs)
  BY <1>4, <1>6, DerivedTrans DEF Table
<1>8. ASSUME NEW m \in PlayModeStateChanged(rs, entered)
      PROVE  \E r \in rs :
               /\ Same(m, r)
               /\ ~(Play(r) /\ ~Has(r, "completed")) => m = r
               /\ Play(r) /\ ~Has(r, "completed") =>
                    /\ Reached(r, entered)  => m.flags = r.flags \cup {"event"}
                    /\ ~Reached(r, entered) => m.flags = r.flags \cup {"completed", "cancelled"}
  <2>1. PICK q \in first : Marked(m, q, reached, {"event"}, {})
    BY <1>6
  <2>2. PICK r \in rs : Marked(q, r, turned, {"completed", "cancelled"}, {})
    BY <1>4
  <2>3. Same(m, r)
    BY <2>1, <2>2 DEF Marked, Same
  <2>4. CASE r \in turned
    <3>1. q.flags = r.flags \cup {"completed", "cancelled"}
      BY <2>2, <2>4 DEF Marked
    <3>2. q \notin reached
      BY <1>2, <3>1
    <3>3. m = q
      BY <2>1, <3>2 DEF Marked
    <3> QED BY <1>2, <2>3, <2>4, <3>1, <3>3
  <2>5. CASE r \notin turned
    <3>1. q = r
      BY <2>2, <2>5 DEF Marked
    <3>2. r \in reached => m.flags = r.flags \cup {"event"}
      BY <2>1, <3>1 DEF Marked
    <3>3. r \notin reached => m = r
      BY <2>1, <3>1 DEF Marked
    <3> QED BY <1>2, <2>3, <2>5, <3>2, <3>3
  <2> QED BY <2>4, <2>5
<1> QED BY <1>7, <1>8

\* A code import takes receipts away and says so on the others.
LEMMA CodeFacts ==
  ASSUME NEW rs, Table(rs)
  PROVE  /\ Derived(CodeImported(rs), rs)
         /\ \A m \in CodeImported(rs) : \E r \in rs \ Withdrawn(rs) :
               Alike(m, r) /\ (r \in Active(rs) => Has(m, "code"))
<1> DEFINE left == rs \ Withdrawn(rs)
<1>1. {"code"} \in SUBSET Flags
  BY DEF Flags
<1>2. Derived(left, rs) /\ Table(left)
  BY SubTable DEF Derived
<1>3. CodeImported(rs) = Mark(left, Active(rs), {"code"}, {})
  BY DEF CodeImported
<1> HIDE DEF left
<1>4. /\ Derived(CodeImported(rs), left)
      /\ \A m \in CodeImported(rs) : \E r \in left : Marked(m, r, Active(rs), {"code"}, {})
  BY <1>1, <1>2, <1>3, MarkFacts, Zenon
<1>5. Derived(CodeImported(rs), rs)
  BY <1>2, <1>4, DerivedTrans DEF Table
<1>6. ASSUME NEW m \in CodeImported(rs)
      PROVE  \E r \in left : Alike(m, r) /\ (r \in Active(rs) => Has(m, "code"))
  <2>1. PICK r \in left : Marked(m, r, Active(rs), {"code"}, {})
    BY <1>4
  <2>2. Same(m, r) /\ (r \in Active(rs) => m.flags = r.flags \cup {"code"})
        /\ (r \notin Active(rs) => m = r)
    BY <2>1 DEF Marked
  <2> QED BY <2>2 DEF Alike, Has
<1> QED BY <1>5, <1>6 DEF left

\* The own receipt survives a synchronous import only if it is tracked.
LEMMA SynchronousFacts ==
  ASSUME NEW rs, Table(rs), NEW c
  PROVE  /\ Derived(FinishSynchronous(rs, c), rs)
         /\ \A m \in FinishSynchronous(rs, c) : \E r \in rs :
               /\ Alike(m, r)
               /\ m.id = c /\ Has(r, "code") /\ Untracked(r) => Has(r, "completed")
<1> DEFINE own == {r \in rs : r.id = c}
<1>1. CASE \E r \in own : Has(r, "code") /\ Untracked(r)
  <2>1. FinishSynchronous(rs, c) = Abandon(rs, c)
    BY <1>1 DEF FinishSynchronous
  <2>2. Abandon(rs, c) \in SUBSET rs /\ \A m \in Abandon(rs, c) : m.id = c => Has(m, "completed")
    BY DEF Abandon
  <2>3. \A m \in rs : Alike(m, m)
    BY DEF Alike, Same, Table
  <2> QED BY <2>1, <2>2, <2>3, SubTable
<1>2. CASE \A r \in own : ~(Has(r, "code") /\ Untracked(r))
  <2>1. {"finished"} \in SUBSET Flags
    BY DEF Flags
  <2>2. FinishSynchronous(rs, c) = Mark(rs, own, {"finished"}, {})
    BY <1>2 DEF FinishSynchronous
  <2> HIDE DEF own
  <2>3. /\ Derived(FinishSynchronous(rs, c), rs)
        /\ \A m \in FinishSynchronous(rs, c) : \E r \in rs : Marked(m, r, own, {"finished"}, {})
    BY <2>1, <2>2, MarkFacts, Zenon
  <2>4. ASSUME NEW m \in FinishSynchronous(rs, c)
        PROVE  \E r \in rs : /\ Alike(m, r)
                             /\ m.id = c /\ Has(r, "code") /\ Untracked(r) => Has(r, "completed")
    <3>1. PICK r \in rs : Marked(m, r, own, {"finished"}, {})
      BY <2>3
    <3>2. Same(m, r) /\ (r \in own => m.flags = r.flags \cup {"finished"})
            /\ (r \notin own => m = r)
      BY <3>1 DEF Marked
    <3>3. Alike(m, r)
      BY <3>2 DEF Alike, Has
    <3>4. m.id = c => r \in own
      BY <3>2 DEF Same, own
    <3> QED BY <1>2, <3>3, <3>4
  <2> QED BY <2>3, <2>4
<1> QED BY <1>1, <1>2

\* Unity compiles for receipt m from now on.
Recompiled(m, r) ==
  /\ Same(m, r) /\ Has(m, "compiling") /\ ~Has(m, "compiled") /\ ~Has(m, "reload")
  /\ \A flag \in {"completed", "cancelled", "moved", "event", "explicit"} : Has(m, flag) <=> Has(r, flag)

LEMMA NowFacts ==
  ASSUME NEW rs, Table(rs)
  PROVE  /\ Derived(CompilationStarted(rs), rs)
         /\ \A m \in CompilationStarted(rs) : \E r \in rs :
               /\ r \in Active(rs)    => Recompiled(m, r)
               /\ r \notin Active(rs) => m = r
<1>1. ASSUME NEW m \in CompilationStarted(rs)
      PROVE  \E r \in rs : /\ r \in Active(rs)    => Recompiled(m, r)
                           /\ r \notin Active(rs) => m = r
  <2>1. PICK r \in rs : Marked(m, r, Active(rs), {"compiling"}, {"compiled", "failed", "reload"})
    BY StartedFacts
  <2>2. /\ Same(m, r)
        /\ r \in Active(rs) => m.flags = (r.flags \ {"compiled", "failed", "reload"}) \cup {"compiling"}
        /\ r \notin Active(rs) => m = r
    BY <2>1 DEF Marked
  <2> QED BY <2>2 DEF Recompiled, Has
<1> QED BY <1>1, StartedFacts

\* Room for one more receipt, that of client c.
LEMMA BeginFacts ==
  ASSUME NEW c \in Clients, NEW kind \in {"refresh", "reserialize", "play", "stop"},
         NEW flags \in SUBSET Flags, Table(receipts), CanBegin, IsFiniteSet(Clients),
         setup.capacity \in Nat, Cardinality(receipts) <= setup.capacity,
         \A r \in receipts : r.id # c
  PROVE  /\ Table(Begin(c, kind, flags)) /\ Cardinality(Begin(c, kind, flags)) <= setup.capacity
         /\ NewReceipt(c, kind, flags) \in Receipt
         /\ \A r \in Begin(c, kind, flags) : r \in receipts \/ r = NewReceipt(c, kind, flags)
<1> DEFINE new == NewReceipt(c, kind, flags)
           spent == receipts \ Pending(receipts)
           kept == IF Cardinality(receipts) < setup.capacity THEN receipts
                   ELSE receipts \ {Oldest(spent)}
<1>1. new \in Receipt /\ new.id = c
  <2>1. IsFiniteSet({d \in Clients : ran[d]})
    BY FS_Subset
  <2>2. Cardinality({d \in Clients : ran[d]}) \in Nat
    BY <2>1, FS_CardinalityType
  <2> QED BY <2>2 DEF NewReceipt, Receipt
<1>2. Cardinality(receipts) \in Nat
  BY FS_CardinalityType DEF Table
<1>3. kept \in SUBSET receipts /\ Cardinality(kept) + 1 <= setup.capacity
  <2>1. CASE Cardinality(receipts) < setup.capacity
    BY <1>2, <2>1
  <2>2. CASE ~(Cardinality(receipts) < setup.capacity)
    <3>1. spent # {} /\ spent \subseteq Receipt
      BY <2>2 DEF CanBegin, Pending, Table
    <3>2. Oldest(spent) \in receipts
      BY <3>1, OldestIsOne DEF Pending
    <3> HIDE DEF spent
    <3>3. Cardinality(receipts \ {Oldest(spent)}) = Cardinality(receipts) - 1
      BY <3>2, FS_RemoveElement DEF Table
    <3> QED BY <1>2, <2>2, <3>3
  <2> QED BY <2>1, <2>2
<1>4. Begin(c, kind, flags) = kept \cup {new}
  BY DEF Begin
<1> HIDE DEF kept, new
<1>5. IsFiniteSet(kept) /\ Cardinality(kept) \in Nat
  BY <1>3, FS_Subset, FS_CardinalityType DEF Table
<1>6. IsFiniteSet(kept \cup {new}) /\ Cardinality(kept \cup {new}) <= setup.capacity
  <2>1. new \notin kept
    BY <1>1, <1>3
  <2>2. IsFiniteSet(kept \cup {new}) /\ Cardinality(kept \cup {new}) = Cardinality(kept) + 1
    BY <1>5, <2>1, FS_AddElement
  <2> QED BY <1>3, <1>5, <2>2
<1>7. Table(kept \cup {new})
  BY <1>1, <1>3, <1>6 DEF Table
<1> QED BY <1>1, <1>3, <1>4, <1>6, <1>7 DEF new

\* What a synchronous import leaves of each receipt.
LEMMA ImportFacts ==
  ASSUME NEW rs, Table(rs), NEW c, NEW found \in {"data", "code", "now", "library", "failure"}
  PROVE  /\ Derived(FinishSynchronous(Imported(c, found, rs), c), rs)
         /\ \A m \in FinishSynchronous(Imported(c, found, rs), c) : \E r \in rs :
               /\ Same(m, r)
               /\ found # "now" => Alike(m, r)
               /\ found = "now" => /\ r \in Active(rs)    => Recompiled(m, r)
                                   /\ r \notin Active(rs) => Alike(m, r)
               /\ found \notin {"data", "now"} /\ m.id = c /\ r \in Active(rs) =>
                     Has(r, "explicit") \/ Has(r, "compiling")
<1> DEFINE done == FinishSynchronous(Imported(c, found, rs), c)
<1>1. CASE found = "data"
  <2>1. Imported(c, found, rs) = rs
    BY <1>1 DEF Imported
  <2> QED BY <1>1, <2>1, SynchronousFacts DEF Alike
<1>2. CASE found \in {"code", "library", "failure"}
  <2>1. Imported(c, found, rs) = CodeImported(rs)
    BY <1>2 DEF Imported
  <2>2. /\ Derived(CodeImported(rs), rs)
        /\ \A q \in CodeImported(rs) : \E r \in rs : Alike(q, r) /\ (r \in Active(rs) => Has(q, "code"))
    BY CodeFacts
  <2>3. Derived(done, CodeImported(rs)) /\ Table(CodeImported(rs))
    BY <2>1, <2>2, SynchronousFacts DEF Derived
  <2>4. Derived(done, rs)
    BY <2>2, <2>3, DerivedTrans DEF Table
  <2>5. ASSUME NEW m \in done
        PROVE  \E r \in rs : /\ Alike(m, r)
                             /\ m.id = c /\ r \in Active(rs) => Has(r, "explicit") \/ Has(r, "compiling")
    <3>1. PICK q \in CodeImported(rs) :
            Alike(m, q) /\ (m.id = c /\ Has(q, "code") /\ Untracked(q) => Has(q, "completed"))
      BY <2>1, <2>3, SynchronousFacts
    <3>2. PICK r \in rs : Alike(q, r) /\ (r \in Active(rs) => Has(q, "code"))
      BY <2>2
    <3>3. Alike(m, r)
      BY <3>1, <3>2 DEF Alike, Same
    <3>4. ASSUME m.id = c, r \in Active(rs) PROVE Has(r, "explicit") \/ Has(r, "compiling")
      <4>1. ~Has(r, "completed")
        BY <3>4 DEF Active, Pending
      <4>2. {"completed", "compiling", "explicit"} \subseteq Flags \ {"finished", "code"}
        BY DEF Flags
      <4>3. ~Has(q, "completed")
        BY <3>2, <4>1, <4>2 DEF Alike
      <4>4. ~Untracked(q)
        BY <3>1, <3>2, <3>4, <4>3
      <4> QED BY <3>2, <4>2, <4>4 DEF Alike, Untracked
    <3> QED BY <3>3, <3>4
  <2> QED BY <1>2, <2>4, <2>5 DEF Alike
<1>3. CASE found = "now"
  <2>1. Imported(c, found, rs) = CompilationStarted(CodeImported(rs))
    BY <1>3 DEF Imported
  <2>2. /\ Derived(CodeImported(rs), rs)
        /\ \A q \in CodeImported(rs) : \E r \in rs : Alike(q, r)
    BY CodeFacts
  <2>3. Table(CodeImported(rs))
    BY <2>2 DEF Derived
  <2>4. Derived(CompilationStarted(CodeImported(rs)), CodeImported(rs))
        /\ Table(CompilationStarted(CodeImported(rs)))
    BY <2>3, NowFacts DEF Derived
  <2>5. Derived(done, CompilationStarted(CodeImported(rs)))
    BY <2>1, <2>4, SynchronousFacts
  <2>6. Derived(done, rs)
    BY <2>2, <2>3, <2>4, <2>5, DerivedTrans DEF Table
  <2>7. ASSUME NEW m \in done
        PROVE  \E r \in rs : /\ Same(m, r)
                             /\ r \in Active(rs)    => Recompiled(m, r)
                             /\ r \notin Active(rs) => Alike(m, r)
    <3>1. PICK p \in CompilationStarted(CodeImported(rs)) : Alike(m, p)
      BY <2>1, <2>4, SynchronousFacts
    <3>2. PICK q \in CodeImported(rs) : /\ q \in Active(CodeImported(rs))    => Recompiled(p, q)
                                        /\ q \notin Active(CodeImported(rs)) => p = q
      BY <2>3, NowFacts
    <3>3. PICK r \in rs : Alike(q, r)
      BY <2>2
    <3>4. {"completed", "cancelled", "moved", "event", "explicit", "compiling", "compiled", "reload"}
            \subseteq Flags \ {"finished", "code"}
      BY DEF Flags
    <3>5. q \in Active(CodeImported(rs)) <=> r \in Active(rs)
      BY <3>3, <3>4 DEF Active, Pending, Alike, Same
    <3>6. CASE r \in Active(rs)
      <4>1. Recompiled(p, q)
        BY <3>2, <3>5, <3>6
      <4> QED BY <3>1, <3>3, <3>4, <3>6, <4>1 DEF Recompiled, Alike, Same
    <3>7. CASE r \notin Active(rs)
      <4>1. p = q
        BY <3>2, <3>5, <3>7
      <4> QED BY <3>1, <3>3, <3>7, <4>1 DEF Alike, Same
    <3> QED BY <3>6, <3>7
  <2> QED BY <1>3, <2>6, <2>7
<1> QED BY <1>1, <1>2, <1>3

--------------------------------------------------------------------------------
(* Part 2: types, and what a client knows of its command                      *)

\* Only client c moves.
Only(c) ==
  client' \in [Clients -> ClientState] /\ \A d \in Clients \ {c} : client'[d] = client[d]

LEMMA ClientType == TypeOK => client \in [Clients -> ClientState]
BY DEF TypeOK, ClientState

LEMMA FailFacts ==
  ASSUME TypeOK, NEW c \in Clients, Fail(c)
  PROVE  /\ Only(c)
         /\ client'[c].pc = "done" /\ client'[c].reply = None /\ client'[c].result = "failed"
         /\ client'[c].from = client[c].from
<1>1. client \in [Clients -> ClientState]
  BY ClientType
<1>2. PICK q \in ClientState : q = client[c]
  BY <1>1
<1> DEFINE new == [q EXCEPT !.pc = "done", !.target = 0, !.seen = 0,
                           !.reply = None, !.result = "failed"]
<1>3. client' = [client EXCEPT ![c] = new]
  BY <1>1, <1>2 DEF Fail
<1>4. 0 \in 0..MaxPid /\ 0 \in 0..1
  BY OperationsAssumption
<1>5. new \in ClientState
  BY <1>4 DEF ClientState
<1>6. /\ new.pc = "done" /\ new.reply = None /\ new.result = "failed"
      /\ new.from = q.from
  BY DEF ClientState
<1> HIDE DEF new
<1> QED BY <1>1, <1>2, <1>3, <1>5, <1>6 DEF Only

LEMMA ConfirmFacts ==
  ASSUME TypeOK, NEW c \in Clients, NEW i, i.project \in {Inner, Outer}, Confirm(c, i)
  PROVE  /\ Only(c)
         /\ client'[c].pc = "done" /\ client'[c].reply = client[c].reply
         /\ client'[c].result = "confirmed" /\ client'[c].from = i.project
<1>1. client \in [Clients -> ClientState]
  BY ClientType
<1>2. PICK q \in ClientState : q = client[c]
  BY <1>1
<1> DEFINE new == [q EXCEPT !.pc = "done", !.target = 0, !.seen = 0,
                           !.result = "confirmed", !.from = i.project]
<1>3. client' = [client EXCEPT ![c] = new]
  BY <1>1, <1>2 DEF Confirm
<1>4. 0 \in 0..MaxPid /\ 0 \in 0..1
  BY OperationsAssumption
<1>5. new \in ClientState
  BY <1>4 DEF ClientState
<1>6. /\ new.pc = "done" /\ new.reply = q.reply /\ new.result = "confirmed"
      /\ new.from = i.project
  BY DEF ClientState
<1> HIDE DEF new
<1> QED BY <1>1, <1>2, <1>3, <1>5, <1>6 DEF Only

LEMMA GotoFacts ==
  ASSUME TypeOK, NEW c \in Clients,
         NEW pc \in {"start", "send", "wait", "receipt", "beat", "live", "done"}, Goto(c, pc)
  PROVE  /\ Only(c)
         /\ client'[c].pc = pc /\ client'[c].reply = client[c].reply
         /\ client'[c].result = client[c].result
BY ClientType DEF Goto, Only, ClientState

LEMMA UnansweredFacts ==
  ASSUME TypeOK, NEW c \in Clients, Unanswered(c)
  PROVE  /\ Only(c)
         /\ client'[c].pc = "beat" /\ client'[c].reply = "unknown"
         /\ client'[c].result = client[c].result
<1>1. client \in [Clients -> ClientState]
  BY ClientType
<1>2. PICK q \in ClientState : q = client[c]
  BY <1>1
<1> DEFINE new == [q EXCEPT !.pc = "beat", !.reply = "unknown"]
<1>3. client' = [client EXCEPT ![c] = new]
  BY <1>1, <1>2 DEF Unanswered
<1>4. new \in ClientState /\ new.pc = "beat" /\ new.reply = "unknown" /\ new.result = q.result
  BY DEF ClientState
<1> HIDE DEF new
<1> QED BY <1>1, <1>2, <1>3, <1>4 DEF Only

\* The files a scan finds: the editor's own and that of the outer one.
LEMMA InstancesFacts ==
  ASSUME TypeOK, NEW i \in Instances
  PROVE  /\ i.project \in {Inner, Outer}
         /\ i.project = Inner => file # None /\ i.pid = file.pid /\ i.pid \in 1..MaxPid
BY OperationsAssumption DEF Instances, OuterFile, TypeOK, File

LEMMA DiscoverFacts ==
  ASSUME NEW S, NEW want, want.by \in {"port", "project", "cwd"}
  PROVE  Discover(S, want) \subseteq S
BY DEF Discover, FindActiveByPort, FindByPort, FindByProject, FindByCwd, MostSpecific

LEMMA SameProjectFacts ==
  ASSUME TypeOK
  PROVE  SameProject \subseteq Instances
BY DiscoverFacts DEF SameProject

\* What a step of client c alone does: it looks, it is told, or it sends.
Looks(c) ==
  /\ Only(c) /\ UNCHANGED <<unityVars, setup, ran, unmarked>>
  /\ flight' \subseteq flight \cup {c}
  /\ c \in flight' \ flight => ~ran[c]
  /\ ClientInv(c)'
  /\ client'[c].reply = "noid" /\ client'[c].pc # "done" =>
       client[c].reply = "noid" /\ client[c].pc # "done"
  /\ client'[c].result = "confirmed" /\ client'[c].reply = "id" => Snapshot(c) = "completed"
  /\ client'[c].result = "confirmed" /\ client'[c].from = Inner /\ client[c].pc = "beat" => file # None

LEMMA FailLooks ==
  ASSUME IInv, NEW c \in Clients, Fail(c), UNCHANGED <<flight, unityVars, setup, ran, unmarked>>,
         client[c].pc \notin {"unlink", "done"}
  PROVE  Looks(c)
<1>1. /\ Only(c)
      /\ client'[c].pc = "done" /\ client'[c].reply = None /\ client'[c].result = "failed"
  BY FailFacts DEF IInv
<1>2. ClientInv(c)
  BY DEF IInv, ClientsInv
<1>3. None # "id" /\ None # "noid"
  BY OperationsAssumption
<1> QED BY <1>1, <1>2, <1>3 DEF Looks, ClientInv, Place

LEMMA ConfirmLooks ==
  ASSUME IInv, NEW c \in Clients, NEW i \in Instances, Confirm(c, i),
         UNCHANGED <<flight, unityVars, setup, ran, unmarked>>,
         client[c].pc \in {"receipt", "beat", "live"},
         client[c].reply = "id" => Snapshot(c) = "completed"
  PROVE  Looks(c)
<1>1. i.project \in {Inner, Outer} /\ (i.project = Inner => file # None)
  BY InstancesFacts DEF IInv
<1>2. /\ Only(c)
      /\ client'[c].pc = "done" /\ client'[c].reply = client[c].reply
      /\ client'[c].result = "confirmed" /\ client'[c].from = i.project
  BY <1>1, ConfirmFacts DEF IInv
<1>3. ClientInv(c)
  BY DEF IInv, ClientsInv
<1> QED BY <1>1, <1>2, <1>3 DEF Looks, ClientInv, Place

LEMMA LookStep ==
  ASSUME IInv, NEW c \in Clients, ClientStep(c), ~Unlink(c)
  PROVE  Looks(c)
<1> USE DEF IInv
<1>1. ClientInv(c)
  BY DEF ClientsInv
<1>2. /\ client \in [Clients -> ClientState] /\ client[c] \in ClientState
      /\ None \notin {"id", "noid", "error", "unknown", "confirmed", "failed"}
  BY ClientType, OperationsAssumption
<1>3. CASE ScanDead(c)
  <2>1. PICK q \in ClientState : q = client[c]
    BY <1>2
  <2> DEFINE new == [q EXCEPT !.pc = "unlink", !.back = q.pc]
  <2>2. client' = [client EXCEPT ![c] = new] /\ q.pc \in {"start", "receipt", "beat", "live"}
    BY <1>2, <1>3, <2>1 DEF ScanDead
  <2>3. /\ new \in ClientState /\ new.pc = "unlink" /\ new.back = q.pc
        /\ new.reply = q.reply /\ new.result = q.result
    BY <2>2 DEF ClientState
  <2> HIDE DEF new
  <2>4. /\ Only(c) /\ client'[c] = new
    BY <1>2, <2>2, <2>3 DEF Only
  <2> QED BY <1>1, <1>2, <1>3, <2>1, <2>2, <2>3, <2>4 DEF ScanDead, Looks, ClientInv, Place
<1>4. CASE Resolve(c)
  <2>1. client[c].pc = "start" /\ UNCHANGED <<flight, unityVars, setup, ran, unmarked>>
    BY <1>4 DEF Resolve
  <2>0. PICK want \in Wants : \E i \in Discover(Instances, want) :
           IF i.project = Inner
           THEN client' = [client EXCEPT ![c].pc = IF Kind(c) = "ready" THEN "live" ELSE "send",
                                         ![c].target = i.pid]
           ELSE Fail(c)
    BY <1>4 DEF Resolve
  <2>2. PICK i \in Discover(Instances, want) :
           IF i.project = Inner
           THEN client' = [client EXCEPT ![c].pc = IF Kind(c) = "ready" THEN "live" ELSE "send",
                                         ![c].target = i.pid]
           ELSE Fail(c)
    BY <2>0
  <2>3. i \in Instances
    BY DiscoverFacts, OperationsAssumption
  <2>4. CASE i.project # Inner
    BY <2>1, <2>2, <2>4, FailLooks
  <2>5. CASE i.project = Inner
    <3>1. i.pid \in 0..MaxPid
      BY <2>3, <2>5, InstancesFacts
    <3>2. PICK q \in ClientState : q = client[c]
      BY <1>2
    <3>3. PICK pc \in {"live", "send"} : pc = IF Kind(c) = "ready" THEN "live" ELSE "send"
      OBVIOUS
    <3> DEFINE new == [q EXCEPT !.pc = pc, !.target = i.pid]
    <3>4. client' = [client EXCEPT ![c] = new]
      BY <1>2, <2>2, <2>5, <3>2, <3>3
    <3>5. new \in ClientState /\ new.pc = pc /\ new.reply = q.reply /\ new.result = q.result
      BY <3>1, <3>3 DEF ClientState
    <3> HIDE DEF new
    <3>6. Only(c) /\ client'[c] = new
      BY <1>2, <3>4, <3>5 DEF Only
    <3> QED BY <1>1, <1>2, <2>1, <3>2, <3>3, <3>5, <3>6 DEF Looks, ClientInv, Place
  <2> QED BY <2>4, <2>5
<1>5. CASE Send(c)
  <2>1. CASE flight' = flight \cup {c} /\ Goto(c, "wait")
    <3>1. Only(c) /\ client'[c].pc = "wait" /\ client'[c].reply = client[c].reply
            /\ client'[c].result = client[c].result
      BY <2>1, GotoFacts
    <3> QED BY <1>1, <1>2, <1>5, <2>1, <3>1 DEF Send, Looks, ClientInv, Place
  <2>2. CASE UNCHANGED flight /\ Unanswered(c)
    <3>1. Only(c) /\ client'[c].pc = "beat" /\ client'[c].reply = "unknown"
            /\ client'[c].result = client[c].result
      BY <2>2, UnansweredFacts
    <3> QED BY <1>1, <1>2, <1>5, <2>2, <3>1 DEF Send, Looks, ClientInv, Place
  <2> QED BY <1>5, <2>1, <2>2 DEF Send
<1>6. CASE GiveUp(c)
  <2>1. Only(c) /\ client'[c].pc = "beat" /\ client'[c].reply = "unknown"
          /\ client'[c].result = client[c].result
    BY <1>6, UnansweredFacts DEF GiveUp
  <2> QED BY <1>1, <1>2, <1>6, <2>1 DEF GiveUp, Looks, ClientInv, Place
<1>7. CASE Receive(c)
  <2>1. client[c].pc = "wait" /\ client[c].reply # None /\ UNCHANGED <<flight, unityVars, setup, ran, unmarked>>
    BY <1>7 DEF Receive
  <2>2. CASE client[c].reply = "error"
    BY <1>7, <2>1, <2>2, FailLooks DEF Receive
  <2>3. CASE client[c].reply = "id"
    <3>1. Goto(c, "receipt")
      BY <1>7, <2>3 DEF Receive
    <3>2. Only(c) /\ client'[c].pc = "receipt" /\ client'[c].reply = client[c].reply
            /\ client'[c].result = client[c].result
      BY <3>1, GotoFacts
    <3> QED BY <1>1, <1>2, <2>1, <3>2 DEF Looks, ClientInv, Place
  <2>4. CASE client[c].reply = "noid"
    <3>1. Goto(c, "beat")
      BY <1>7, <2>4 DEF Receive
    <3>2. Only(c) /\ client'[c].pc = "beat" /\ client'[c].reply = client[c].reply
            /\ client'[c].result = client[c].result
      BY <3>1, GotoFacts
    <3> QED BY <1>1, <1>2, <2>1, <2>4, <3>2 DEF Looks, ClientInv, Place
  <2>5. client[c].reply = "unknown" => FALSE
    BY <1>1, <2>1 DEF ClientInv, Place
  <2> QED BY <1>2, <2>1, <2>2, <2>3, <2>4, <2>5 DEF ClientState
<1>8. CASE PollReceipt(c)
  <2>1. client[c].pc = "receipt" /\ UNCHANGED <<flight, unityVars, setup, ran, unmarked>>
    BY <1>8 DEF PollReceipt
  <2>2. PICK i \in SameProject :
           \/ Fail(c)
           \/ Snapshot(c) = "completed" /\ Confirm(c, i)
    BY <1>8 DEF PollReceipt
  <2>3. i \in Instances
    BY SameProjectFacts
  <2> QED BY <2>1, <2>2, <2>3, FailLooks, ConfirmLooks
<1>9. CASE PollHeartbeat(c)
  <2>1. client[c].pc = "beat" /\ UNCHANGED <<flight, unityVars, setup, ran, unmarked>>
    BY <1>9 DEF PollHeartbeat
  <2>2. ASSUME NEW seen \in 0..1, client' = [client EXCEPT ![c].seen = seen] PROVE Looks(c)
    <3>1. Only(c) /\ client'[c].pc = "beat" /\ client'[c].reply = client[c].reply
            /\ client'[c].result = client[c].result
      BY <1>2, <2>1, <2>2 DEF Only, ClientState
    <3> QED BY <1>1, <1>2, <2>1, <3>1 DEF Looks, ClientInv, Place
  <2>3. CASE \E i \in SameProject : Fresh(c, i) /\ i.state = Wanted(c)
    <3>1. PICK i \in SameProject : i = CHOOSE j \in SameProject : TRUE
      BY <2>3
    <3>2. client' = [client EXCEPT ![c].seen = 1] \/ Confirm(c, i)
      BY <1>9, <2>3, <3>1 DEF PollHeartbeat
    <3>3. i \in Instances /\ client[c].reply # "id"
      BY <1>1, <2>1, SameProjectFacts DEF ClientInv, Place
    <3> QED BY <2>1, <2>2, <3>2, <3>3, ConfirmLooks
  <2>4. CASE ~\E i \in SameProject : Fresh(c, i) /\ i.state = Wanted(c)
    <3>1. client' = [client EXCEPT ![c].seen = 0]
      BY <1>9, <2>4 DEF PollHeartbeat
    <3> QED BY <2>2, <3>1
  <2> QED BY <2>3, <2>4
<1>10. CASE PollLive(c)
  <2>1. client[c].pc = "live" /\ UNCHANGED <<flight, unityVars, setup, ran, unmarked>>
    BY <1>10 DEF PollLive
  <2>2. PICK i \in SameProject : Fail(c) \/ Confirm(c, i)
    BY <1>10 DEF PollLive
  <2>3. i \in Instances /\ client[c].reply # "id"
    BY <1>1, <1>2, <2>1, SameProjectFacts DEF ClientInv, Place
  <2> QED BY <2>1, <2>2, <2>3, FailLooks, ConfirmLooks
<1>11. CASE Timeout(c)
  BY <1>11, FailLooks DEF Timeout
<1> QED BY <1>3, <1>4, <1>5, <1>6, <1>7, <1>8, <1>9, <1>10, <1>11 DEF ClientStep

\* A client that does not move knows what it knew.
LEMMA ClientFrame ==
  ASSUME NEW d, ClientInv(d), client'[d] = client[d], ran'[d] = ran[d], d \in flight' => d \in flight
  PROVE  ClientInv(d)'
BY DEF ClientInv, Place

LEMMA LooksInv ==
  ASSUME IInv, NEW c \in Clients, Looks(c)
  PROVE  IInv'
<1> USE DEF IInv, Looks
<1>1. TypeOK'
  BY DEF TypeOK, Only, ClientState, unityVars
<1>2. ClientsInv'
  <2>1. ASSUME NEW d \in Clients PROVE ClientInv(d)'
    <3>1. CASE d # c
      BY <3>1, ClientFrame DEF ClientsInv, Only
    <3> QED BY <3>1
  <2> QED BY <2>1 DEF ClientsInv
<1>3. ReceiptsInv'
  BY DEF ReceiptsInv, unityVars, Kind
<1>4. AfterInv'
  <2>1. ASSUME NEW d \in Clients, client'[d].reply = "noid", client'[d].pc # "done",
               Kind(d)' \in ImportKinds, file' # None, d \notin unmarked'
        PROVE  d \in file'.after
    <3>1. client[d].reply = "noid" /\ client[d].pc # "done"
      BY <2>1 DEF Only
    <3> QED BY <2>1, <3>1 DEF AfterInv, unityVars, Kind
  <2> QED BY <2>1 DEF AfterInv
<1> QED BY <1>1, <1>2, <1>3, <1>4

LEMMA UnlinkInv ==
  ASSUME IInv, NEW c \in Clients, Unlink(c)
  PROVE  /\ IInv' /\ UNCHANGED <<flight, editor, receipts, owes, setup, ran, unmarked>>
         /\ \A d \in Clients : client'[d].result = client[d].result /\ client'[d].reply = client[d].reply
         /\ client[c].pc = "unlink"
         /\ Only(c) /\ client[c].result = None
<1> USE DEF IInv
<1>1. PICK q \in ClientState : q = client[c]
  BY ClientType
<1>2. ClientInv(c)
  BY DEF ClientsInv
<1> DEFINE new == [q EXCEPT !.pc = q.back, !.back = None]
<1>3. client' = [client EXCEPT ![c] = new] /\ q.pc = "unlink"
  BY <1>1, ClientType DEF Unlink
<1>4. /\ new \in ClientState /\ new.pc = q.back
      /\ new.reply = q.reply /\ new.result = q.result
  BY <1>1, <1>2, <1>3 DEF ClientState, ClientInv
<1> HIDE DEF new
<1>5. Only(c) /\ client'[c] = new
  BY <1>3, <1>4, ClientType DEF Only
<1>6. UNCHANGED <<flight, editor, receipts, owes, setup, ran, unmarked>> /\ file' = None
  BY DEF Unlink
<1>7. TypeOK'
  BY <1>5, <1>6 DEF TypeOK, Only, ClientState
<1>8. ClientInv(c)'
  BY <1>1, <1>2, <1>3, <1>4, <1>5, <1>6 DEF ClientInv, Place
<1>9. ClientsInv'
  <2>1. ASSUME NEW d \in Clients PROVE ClientInv(d)'
    <3>1. CASE d # c
      BY <1>5, <1>6, <3>1, ClientFrame DEF ClientsInv, Only
    <3> QED BY <1>8, <3>1
  <2> QED BY <2>1 DEF ClientsInv
<1>10. ReceiptsInv' /\ AfterInv'
  BY <1>6 DEF ReceiptsInv, Kind, AfterInv
<1>11. client[c].result = None
  BY <1>1, <1>2, <1>3 DEF ClientInv
<1>12. \A d \in Clients : client'[d].result = client[d].result /\ client'[d].reply = client[d].reply
  BY <1>1, <1>4, <1>5 DEF Only
<1> QED BY <1>1, <1>3, <1>5, <1>6, <1>7, <1>9, <1>10, <1>11, <1>12

LEMMA StateType ==
  ASSUME NEW e \in EditorState, NEW rs, NEW o
  PROVE  GetState(e, rs, o) \in States
BY DEF GetState, PendingState, EditorState, States

LEMMA FileType ==
  ASSUME TypeOK, NEW e \in EditorState, NEW state \in States
  PROVE  /\ FileOf(e, state) \in File
         /\ FileOf(e, state).after = {c \in Newer : ran'[c]}
BY DEF FileOf, File, EditorState, Newer

LEMMA EditorType == TypeOK => editor \in EditorState
BY DEF TypeOK, EditorState

\* The instance file after a step: as it was, or written anew.
Rewritten == \E e \in EditorState, state \in States : file' = FileOf(e, state)
Filed     == file' = file \/ Rewritten

\* A step of the editor's own.
LEMMA EditorInv ==
  ASSUME IInv, UNCHANGED <<client, setup, ran, unmarked>>, flight' \subseteq flight,
         editor' \in EditorState, owes' \in [Clients -> Owed],
         Derived(receipts', receipts), Filed
  PROVE  IInv'
<1> USE DEF IInv
<1>1. TypeOK'
  <2>1. file' \in File \cup {None}
    BY FileType DEF Filed, Rewritten, TypeOK
  <2>2. receipts' \subseteq Receipt /\ Cardinality(receipts') <= setup'.capacity
    <3>1. Cardinality(receipts') \in Nat /\ Cardinality(receipts) \in Nat
      BY FS_CardinalityType DEF Derived, Table, ReceiptsInv
    <3>2. setup.capacity \in Nat
      BY OperationsAssumption DEF TypeOK
    <3> QED BY <3>1, <3>2 DEF Derived, Table, TypeOK
  <2>3. flight' \subseteq Clients
    BY DEF TypeOK
  <2> QED BY <2>1, <2>2, <2>3 DEF TypeOK, EditorState
<1>2. ClientsInv'
  BY ClientFrame DEF ClientsInv
<1>3. ReceiptsInv'
  BY DEF ReceiptsInv, Derived, Table, Kind
<1>4. AfterInv'
  <2>1. ASSUME NEW c \in Clients, client[c].reply = "noid", client[c].pc # "done",
               Kind(c) \in ImportKinds, file' # None, c \notin unmarked'
        PROVE  c \in file'.after
    <3>1. CASE file' = file
      BY <2>1, <3>1 DEF AfterInv
    <3>2. CASE file' # file
      <4>1. file'.after = {d \in Newer : ran'[d]}
        BY <3>2, FileType DEF Filed, Rewritten
      <4>2. ran[c] /\ client[c].pc # "start"
        <5>1. ClientInv(c) /\ None # "noid"
          BY OperationsAssumption DEF ClientsInv
        <5> QED BY <2>1, <5>1 DEF ClientInv, Place
      <4> QED BY <2>1, <4>1, <4>2 DEF Newer
    <3> QED BY <3>1, <3>2
  <2> QED BY <2>1 DEF AfterInv, Kind
<1> QED BY <1>1, <1>2, <1>3, <1>4

\* The kind of the receipt that the command of client c may get.
ReceiptKind(c) == IF Kind(c) = "compile" THEN "refresh" ELSE Kind(c)

\* The answer reaches the client if it still waits for it.
LEMMA AnswerFacts ==
  ASSUME IInv, NEW c \in Clients, NEW reply \in {"id", "noid", "error"}, Answer(c, reply)
  PROVE  /\ Only(c) /\ flight' = flight \ {c} /\ setup' = setup
         /\ \A d \in Clients : /\ client'[d].pc = client[d].pc /\ client'[d].back = client[d].back
                               /\ client'[d].result = client[d].result
         /\ client'[c].reply # client[c].reply => client[c].pc = "wait" /\ client'[c].reply = reply
BY ClientType DEF IInv, Answer, Only, ClientState

\* The editor executes the command of client c, or refuses to.
LEMMA ExecuteInv ==
  ASSUME IInv, NEW c \in flight, NEW reply \in {"id", "noid", "error"}, Answer(c, reply),
         ran' \in {ran, [ran EXCEPT ![c] = TRUE]}, reply # "error" => ran'[c],
         editor' \in EditorState, owes' \in [Clients -> Owed],
         Table(receipts'), Cardinality(receipts') <= setup.capacity,
         \A m \in receipts' : ran'[m.id] /\ m.kind = ReceiptKind(m.id),
         Filed, reply = "noid" /\ Kind(c) \in ImportKinds => Rewritten \/ c \in unmarked',
         unmarked' \in {unmarked, unmarked \cup {c}}
  PROVE  IInv'
<1> USE DEF IInv
<1>1. /\ c \in Clients /\ Only(c) /\ flight' = flight \ {c} /\ setup' = setup
      /\ \A d \in Clients : /\ client'[d].pc = client[d].pc /\ client'[d].back = client[d].back
                            /\ client'[d].result = client[d].result
      /\ client'[c].reply # client[c].reply => client[c].pc = "wait" /\ client'[c].reply = reply
  BY AnswerFacts DEF TypeOK
<1>2. ran' \in [Clients -> BOOLEAN] /\ \A d \in Clients : (ran[d] => ran'[d]) /\ (d # c => ran'[d] = ran[d])
  BY <1>1 DEF TypeOK
<1>3. TypeOK'
  <2>1. file' \in File \cup {None}
    BY FileType DEF Filed, Rewritten, TypeOK
  <2>2. flight' \subseteq Clients
    BY <1>1 DEF TypeOK
  <2> QED BY <1>1, <1>2, <2>1, <2>2 DEF TypeOK, Table, Only, ClientState, EditorState
<1>4. ClientInv(c)'
  <2>1. ClientInv(c) /\ ~ran[c] /\ c \notin flight'
    BY <1>1 DEF ClientsInv, ClientInv
  <2>2. Place(c)' = Place(c)
    BY <1>1 DEF Place
  <2>3. CASE client'[c].reply = client[c].reply
    BY <1>1, <1>2, <2>1, <2>2, <2>3 DEF ClientInv, Place
  <2>4. CASE client'[c].reply # client[c].reply
    BY <1>1, <1>2, <2>1, <2>2, <2>4 DEF ClientInv, Place
  <2> QED BY <2>3, <2>4
<1>5. ClientsInv'
  <2>1. ASSUME NEW d \in Clients PROVE ClientInv(d)'
    <3>1. CASE d # c
      BY <1>1, <1>2, <3>1, ClientFrame DEF ClientsInv, Only
    <3> QED BY <1>4, <3>1
  <2> QED BY <2>1 DEF ClientsInv
<1>6. ReceiptsInv'
  BY <1>1 DEF ReceiptsInv, Table, Kind, ReceiptKind
<1>7. AfterInv'
  <2>1. ASSUME NEW d \in Clients, client'[d].reply = "noid", client'[d].pc # "done",
               Kind(d) \in ImportKinds, file' # None, d \notin unmarked'
        PROVE  d \in file'.after
    <3>1. client[d].pc # "done" /\ (d # c => client[d].reply = "noid")
      BY <1>1, <2>1 DEF Only
    <3>2. d = c => reply = "noid"
      <4>1. ASSUME d = c PROVE client[c].reply # "noid"
        BY <1>1 DEF ClientsInv, ClientInv
      <4> QED BY <1>1, <2>1, <4>1
    <3>3. CASE ~Rewritten
      BY <2>1, <3>1, <3>2, <3>3 DEF AfterInv, Filed
    <3>4. CASE Rewritten
      <4>1. file'.after = {e \in Newer : ran'[e]}
        BY <3>4, FileType DEF Rewritten
      <4>2. ClientInv(d)'
        BY <1>5 DEF ClientsInv
      <4>3. ran'[d] /\ client'[d].pc # "start"
        BY <2>1, <4>2, OperationsAssumption DEF ClientInv, Place
      <4> QED BY <1>1, <2>1, <3>1, <4>1, <4>3 DEF Newer
    <3> QED BY <3>3, <3>4
  <2> QED BY <1>1, <2>1 DEF AfterInv, Kind
<1> QED BY <1>3, <1>5, <1>6, <1>7

\* A new receipt for client c, and no other that was not there before.
LEMMA BegunFacts ==
  ASSUME IInv, NEW c \in flight, NEW flags \in SUBSET Flags, CanBegin,
         Kind(c) \in {"refresh", "compile", "reserialize", "play", "stop"}
  PROVE  LET begun == Begin(c, ReceiptKind(c), flags)
         IN  /\ Table(begun) /\ Cardinality(begun) <= setup.capacity
             /\ \A r \in begun : r \in receipts \/ r = NewReceipt(c, ReceiptKind(c), flags)
             /\ \A r \in begun : r.kind = ReceiptKind(r.id) /\ (r.id # c => ran[r.id])
             /\ \A r \in receipts : r.id # c
<1> USE DEF IInv
<1>1. c \in Clients /\ IsFiniteSet(Clients) /\ setup.capacity \in Nat /\ Cardinality(receipts) <= setup.capacity
  BY OperationsAssumption DEF TypeOK
<1>2. ReceiptKind(c) \in {"refresh", "reserialize", "play", "stop"}
  BY DEF ReceiptKind
<1>3. Table(receipts)
  BY DEF Table, TypeOK, ReceiptsInv
<1>4. \A r \in receipts : r.id # c
  BY <1>1 DEF ReceiptsInv, ClientsInv, ClientInv
<1>5. /\ Table(Begin(c, ReceiptKind(c), flags)) /\ Cardinality(Begin(c, ReceiptKind(c), flags)) <= setup.capacity
      /\ \A r \in Begin(c, ReceiptKind(c), flags) :
            r \in receipts \/ r = NewReceipt(c, ReceiptKind(c), flags)
  BY <1>1, <1>2, <1>3, <1>4, BeginFacts
<1>6. NewReceipt(c, ReceiptKind(c), flags).id = c /\ NewReceipt(c, ReceiptKind(c), flags).kind = ReceiptKind(c)
  BY DEF NewReceipt
<1>7. \A r \in receipts : r.kind = ReceiptKind(r.id) /\ ran[r.id]
  BY DEF ReceiptsInv, ReceiptKind
<1> QED BY <1>4, <1>5, <1>6, <1>7

\* The receipts when the import of client c begins.
Explicit(c) == IF Kind(c) = "compile" THEN {"explicit"} ELSE {}
Begun(c)    == Begin(c, ReceiptKind(c), Explicit(c))

\* What the import leaves of receipt r of those.
Left(m, r, c, found) ==
  /\ Same(m, r)
  /\ found # "now" => Alike(m, r)
  /\ found = "now" => /\ r \in Active(Begun(c))    => Recompiled(m, r)
                      /\ r \notin Active(Begun(c)) => Alike(m, r)
  /\ found \notin {"data", "now"} /\ m.id = c /\ r \in Active(Begun(c)) =>
        found # "failure" /\ (Has(r, "explicit") \/ Has(r, "compiling"))

LEMMA ImportStep ==
  ASSUME IInv, NEW c \in Clients, NEW found \in {"data", "code", "now", "library", "failure"},
         NEW mark \in BusyMarks(c), Import(c, found, mark)
  PROVE  /\ c \in flight /\ Running /\ Kind(c) \in ImportKinds /\ CanBegin /\ Table(Begun(c))
         /\ found = "now" => CanCompile
         /\ ran' = [ran EXCEPT ![c] = TRUE]
         /\ \E reply \in {"id", "noid", "error"} : Answer(c, reply)
         /\ \E forced \in States : editor' = [editor EXCEPT !.forced = forced]
         /\ Derived(receipts', Begun(c))
         /\ \A m \in receipts' : \E r \in Begun(c) : Left(m, r, c, found)
         /\ found = "failure" => owes' = owes
         /\ \E owed \in {"nothing", "asked", "compile", "reload"} :
              /\ found = "now" => owed = "compile" /\ owes' = [Settle("asked", "compile") EXCEPT ![c] = owed]
              /\ found \notin {"now", "failure"} => owes' = [owes EXCEPT ![c] = owed]
              /\ found \in {"code", "library"} /\ Kind(c) = "compile" => owed = "asked"
              /\ found = "data" => owed = IF Kind(c) = "compile" THEN "asked" ELSE "nothing"
              /\ owed = "reload" => found = "library"
              /\ owed = "compile" => found = "now"
         /\ IInv'
<1> USE DEF IInv
<1>1. /\ CanExecute(c) /\ Kind(c) \in ImportKinds /\ CanBegin
      /\ found = "now" => CanCompile
      /\ ran' = [ran EXCEPT ![c] = TRUE]
  BY DEF Import
<1>2. Explicit(c) \in SUBSET Flags
  BY DEF Explicit, Flags
<1>3. Kind(c) \in {"refresh", "compile", "reserialize", "play", "stop"}
  BY <1>1 DEF ImportKinds
<1>4. /\ Table(Begun(c)) /\ Cardinality(Begun(c)) <= setup.capacity
      /\ \A r \in Begun(c) : r.kind = ReceiptKind(r.id) /\ (r.id # c => ran[r.id])
      /\ \A r \in Begun(c) : r \in receipts \/ r = NewReceipt(c, ReceiptKind(c), Explicit(c))
      /\ \A r \in receipts : r.id # c
  BY <1>1, <1>2, <1>3, BegunFacts DEF CanExecute, Begun
<1>5. PICK begun : begun = Begun(c)
  OBVIOUS
<1>6. begun = Begin(c, IF Kind(c) = "compile" THEN "refresh" ELSE Kind(c),
                    IF Kind(c) = "compile" THEN {"explicit"} ELSE {})
  BY <1>5 DEF Begun, ReceiptKind, Explicit
<1> DEFINE done == FinishSynchronous(Imported(c, found, begun), c)
           gone == Abandon(Imported(c, found, begun), c)
<1>7. PICK forced \in States, owed \in {"nothing", "asked", "compile", "reload"} :
        /\ IF found = "failure"
           THEN /\ Answer(c, "error")
                /\ MarkRequested(c, forced, gone, owes)
           ELSE /\ Answer(c, IF \E r \in done : r.id = c THEN "id" ELSE "noid")
                /\ MarkRequested(c, forced, done,
                         [(IF found = "now" THEN Settle("asked", "compile") ELSE owes) EXCEPT ![c] = owed])
        /\ found = "now" => owed = "compile"
        /\ found \in {"code", "library"} /\ Kind(c) = "compile" => owed = "asked"
        /\ found = "data" => owed = IF Kind(c) = "compile" THEN "asked" ELSE "nothing"
        /\ owed = "reload" => found = "library"
        /\ owed = "compile" => found = "now"
  <2> DEFINE explicit == Kind(c) = "compile"
             work == CASE found = "now"     -> "compile"
                       [] found = "library" -> IF explicit THEN "asked" ELSE "reload"
                       [] found = "code"    -> "asked"
                       [] found = "data"    -> IF explicit THEN "asked" ELSE "nothing"
  <2>1. IF found = "failure"
        THEN /\ Answer(c, "error")
             /\ MarkRequested(c, mark, gone, owes)
        ELSE /\ Answer(c, IF \E r \in done : r.id = c THEN "id" ELSE "noid")
             /\ MarkRequested(c, mark, done,
                      [(IF found = "now" THEN Settle("asked", "compile") ELSE owes) EXCEPT ![c] = work])
    BY <1>6 DEF Import
  <2>2. mark \in States
    BY DEF States, BusyMarks
  <2>3. found # "failure" =>
          /\ work \in {"nothing", "asked", "compile", "reload"}
          /\ found = "now" => work = "compile"
          /\ found \in {"code", "library"} /\ Kind(c) = "compile" => work = "asked"
          /\ found = "data" => work = IF Kind(c) = "compile" THEN "asked" ELSE "nothing"
          /\ work = "reload" => found = "library"
          /\ work = "compile" => found = "now"
    OBVIOUS
  <2> HIDE DEF work, done, gone
  <2>4. CASE found = "failure"
    BY <2>1, <2>2, <2>4
  <2>5. CASE found # "failure"
    BY <2>1, <2>2, <2>3, <2>5
  <2> QED BY <2>4, <2>5
<1>8. PICK reply \in {"id", "noid", "error"} :
        Answer(c, reply) /\ (found = "failure" => reply = "error")
  BY <1>7
<1>9. receipts' = IF found = "failure" THEN gone ELSE done
  BY <1>7 DEF MarkRequested, Publish
<1>10. /\ Derived(receipts', begun)
       /\ \A m \in receipts' : \E r \in begun : Left(m, r, c, found)
  <2>1. CASE found # "failure"
    <3>1. receipts' = done
      BY <1>9, <2>1
    <3> QED BY <1>4, <1>5, <2>1, <3>1, ImportFacts DEF Left
  <2>2. CASE found = "failure"
    <3>1. Imported(c, found, begun) = CodeImported(begun)
      BY <2>2 DEF Imported
    <3>2. /\ Derived(CodeImported(begun), begun)
          /\ \A m \in CodeImported(begun) : \E r \in begun : Alike(m, r)
      BY <1>4, <1>5, CodeFacts
    <3>3. receipts' = Abandon(CodeImported(begun), c)
      BY <1>9, <2>2, <3>1
    <3>4. receipts' \in SUBSET CodeImported(begun) /\ \A m \in receipts' : m.id = c => Has(m, "completed")
      BY <3>3 DEF Abandon
    <3>5. Derived(receipts', begun)
      BY <1>4, <1>5, <3>2, <3>4, SubTable, DerivedTrans DEF Derived, Table
    <3>6. ASSUME NEW m \in receipts' PROVE \E r \in begun : Left(m, r, c, found)
      <4>1. PICK r \in begun : Alike(m, r)
        BY <3>2, <3>4
      <4>2. "completed" \in Flags \ {"finished", "code"}
        BY DEF Flags
      <4>3. m.id = c => r \notin Active(begun)
        BY <3>4, <4>1, <4>2 DEF Alike, Active, Pending
      <4> QED BY <1>5, <2>2, <4>1, <4>3 DEF Left, Alike
    <3> QED BY <3>5, <3>6
  <2> QED BY <2>1, <2>2
<1> HIDE DEF done, gone
<1>11. editor' = [editor EXCEPT !.forced = forced] /\ editor' \in EditorState
  <2>1. editor' = [editor EXCEPT !.forced = forced]
    BY <1>7 DEF MarkRequested, Publish
  <2> QED BY <2>1, EditorType DEF EditorState
<1>12. owes' \in [Clients -> Owed]
  BY <1>7 DEF MarkRequested, Publish, TypeOK, Owed, Settle
<1>13. PICK written \in BOOLEAN :
         /\ NoteMark(c, written)
         /\ written => \E e \in EditorState, state \in States : file' = FileOf(e, state)
         /\ ~written => file' = file
  <2>1. PICK rs, o : MarkRequested(c, forced, rs, o)
    BY <1>7
  <2>2. PICK written \in Outcomes :
          Publish([editor EXCEPT !.forced = forced], rs, o, written) /\ NoteMark(c, written)
    BY <2>1 DEF MarkRequested
  <2>3. written \in BOOLEAN
    BY DEF Outcomes
  <2> QED BY <2>2, <2>3, <1>11, StateType DEF Publish
<1>14. Table(receipts') /\ Cardinality(receipts') <= setup.capacity
  <2>1. Cardinality(receipts') \in Nat /\ Cardinality(begun) \in Nat /\ setup.capacity \in Nat
    BY <1>4, <1>5, <1>10, FS_CardinalityType, OperationsAssumption DEF Table, Derived, TypeOK
  <2> QED BY <1>4, <1>5, <1>10, <2>1 DEF Derived
<1>15. \A m \in receipts' : ran'[m.id] /\ m.kind = ReceiptKind(m.id)
  <2>1. ASSUME NEW m \in receipts' PROVE ran'[m.id] /\ m.kind = ReceiptKind(m.id)
    <3>1. PICK r \in begun : m.id = r.id /\ m.kind = r.kind
      BY <1>10 DEF Derived
    <3>2. m.id \in Clients
      BY <1>14 DEF Table, Receipt
    <3> QED BY <1>1, <1>4, <1>5, <3>1, <3>2 DEF TypeOK
  <2> QED BY <2>1
<1>16. /\ Filed /\ (Rewritten \/ c \in unmarked')
       /\ unmarked' \in {unmarked, unmarked \cup {c}}
  BY <1>13 DEF Filed, Rewritten, NoteMark
<1>17. ran' \in {ran, [ran EXCEPT ![c] = TRUE]} /\ ran'[c]
  BY <1>1 DEF TypeOK
<1>18. IInv'
  <2>1. c \in flight
    BY <1>1 DEF CanExecute
  <2> QED BY <1>8, <1>11, <1>12, <1>14, <1>15, <1>16, <1>17, <2>1, ExecuteInv
<1>19. c \in flight /\ Running
  BY <1>1 DEF CanExecute, Running
<1>20. (found = "failure" => owes' = owes)
       /\ (found = "now" => owes' = [Settle("asked", "compile") EXCEPT ![c] = owed])
       /\ (found \notin {"now", "failure"} => owes' = [owes EXCEPT ![c] = owed])
  BY <1>7 DEF MarkRequested, Publish
<1>21. \E work \in {"nothing", "asked", "compile", "reload"} :
         /\ found = "now" => work = "compile" /\ owes' = [Settle("asked", "compile") EXCEPT ![c] = work]
         /\ found \notin {"now", "failure"} => owes' = [owes EXCEPT ![c] = work]
         /\ found \in {"code", "library"} /\ Kind(c) = "compile" => work = "asked"
         /\ found = "data" => work = IF Kind(c) = "compile" THEN "asked" ELSE "nothing"
         /\ work = "reload" => found = "library"
         /\ work = "compile" => found = "now"
  BY <1>7, <1>20
<1> QED BY <1>1, <1>4, <1>5, <1>8, <1>10, <1>11, <1>18, <1>19, <1>20, <1>21

LEMMA PlayModeStep ==
  ASSUME IInv, NEW c \in Clients, ChangePlayMode(c)
  PROVE  /\ c \in flight /\ Running /\ CanBegin /\ Kind(c) \in {"play", "stop"}
         /\ Answer(c, "id") /\ ran' = [ran EXCEPT ![c] = TRUE]
         /\ receipts' = Begin(c, ReceiptKind(c), {})
         /\ owes' = [owes EXCEPT ![c] = "event"]
         /\ editor'.carried = editor.carried /\ editor'.alive = editor.alive /\ editor'.up = editor.up
         /\ IInv'
<1> USE DEF IInv
<1>1. /\ c \in flight /\ Running /\ CanBegin /\ Kind(c) \in {"play", "stop"}
      /\ Answer(c, "id") /\ ran' = [ran EXCEPT ![c] = TRUE]
      /\ owes' = [owes EXCEPT ![c] = "event"]
      /\ receipts' = Begin(c, Kind(c), {})
      /\ \E mode \in {"entering", "exiting"}, forced \in States :
            editor' = [editor EXCEPT !.mode = mode, !.forced = forced]
      /\ file' \in {file, FileOf(editor', GetState(editor', receipts', owes'))}
      /\ unmarked' = unmarked
  <2>1. PICK mode \in {"entering", "exiting"} : mode = IF Kind(c) = "play" THEN "entering" ELSE "exiting"
    OBVIOUS
  <2>2. PICK forced \in States :
          forced = IF Kind(c) = "play" THEN "entering_playmode" ELSE "exiting_playmode"
    BY DEF States
  <2>3. Write([editor EXCEPT !.mode = mode, !.forced = forced],
              Begin(c, Kind(c), {}), [owes EXCEPT ![c] = "event"])
    BY <2>1, <2>2 DEF ChangePlayMode
  <2>4. CanExecute(c) /\ CanBegin /\ Kind(c) \in {"play", "stop"} /\ Answer(c, "id")
          /\ ran' = [ran EXCEPT ![c] = TRUE] /\ unmarked' = unmarked
    BY DEF ChangePlayMode
  <2> QED BY <2>3, <2>4 DEF Write, Publish, CanExecute, Running
<1>2. receipts' = Begin(c, ReceiptKind(c), {}) /\ {} \in SUBSET Flags
  BY <1>1 DEF ReceiptKind
<1>3. /\ Table(receipts') /\ Cardinality(receipts') <= setup.capacity
      /\ \A m \in receipts' : m.kind = ReceiptKind(m.id) /\ (m.id # c => ran[m.id])
  BY <1>1, <1>2, BegunFacts
<1>4. /\ editor' \in EditorState
      /\ editor'.carried = editor.carried /\ editor'.alive = editor.alive /\ editor'.up = editor.up
  BY <1>1, EditorType DEF EditorState
<1>5. owes' \in [Clients -> Owed]
  BY <1>1 DEF TypeOK, Owed
<1>6. Filed
  BY <1>1, <1>4, StateType DEF Rewritten, Filed
<1>7. ran' \in {ran, [ran EXCEPT ![c] = TRUE]} /\ ran'[c]
  BY <1>1 DEF TypeOK
<1>8. \A m \in receipts' : ran'[m.id] /\ m.kind = ReceiptKind(m.id)
  BY <1>1, <1>3 DEF Table, Receipt, TypeOK
<1>9. IInv'
  BY <1>1, <1>3, <1>4, <1>5, <1>6, <1>7, <1>8, ExecuteInv
<1> QED BY <1>1, <1>2, <1>4, <1>9

\* The command of client c is answered, and nothing else is done.
Replied(c) == /\ c \in flight /\ UNCHANGED unityVars
              /\ \E reply \in {"noid", "error"} : Answer(c, reply)

LEMMA RepliedStep ==
  ASSUME IInv, NEW c \in Clients, RefuseImport(c) \/ AlreadyThere(c) \/ RefusePlayMode(c)
  PROVE  Replied(c) /\ IInv'
<1> USE DEF IInv
<1>1. PICK reply \in {"noid", "error"} :
        /\ c \in flight /\ UNCHANGED unityVars /\ Answer(c, reply)
        /\ unmarked' = unmarked
        /\ reply = "error" => ran' = ran
        /\ reply = "noid"  => ran' = [ran EXCEPT ![c] = TRUE] /\ Kind(c) \in {"play", "stop"}
  BY DEF RefuseImport, AlreadyThere, RefusePlayMode, Refuse, CanExecute
<1>2. editor' \in EditorState /\ owes' \in [Clients -> Owed] /\ Filed /\ receipts' = receipts
  BY <1>1, EditorType DEF unityVars, TypeOK, Filed
<1>3. Table(receipts') /\ Cardinality(receipts') <= setup.capacity
  BY <1>2 DEF Table, TypeOK, ReceiptsInv
<1>4. ran' \in {ran, [ran EXCEPT ![c] = TRUE]} /\ (reply # "error" => ran'[c])
  BY <1>1 DEF TypeOK
<1>5. \A m \in receipts' : ran'[m.id] /\ m.kind = ReceiptKind(m.id)
  BY <1>2, <1>3, <1>4 DEF ReceiptsInv, ReceiptKind, Table, Receipt, TypeOK
<1>6. ~(reply = "noid" /\ Kind(c) \in ImportKinds)
  BY <1>1 DEF ImportKinds
<1>7. IInv'
  BY <1>1, <1>2, <1>3, <1>4, <1>5, <1>6, ExecuteInv
<1> QED BY <1>1, <1>7 DEF Replied

\* Writing the file is part of a step of the editor.
LEMMA PublishFacts ==
  ASSUME NEW e \in EditorState, NEW rs, NEW o, NEW written, Publish(e, rs, o, written)
  PROVE  Filed /\ editor' = e /\ receipts' = rs /\ owes' = o
BY StateType DEF Publish, Filed, Rewritten

LEMMA WriteFacts ==
  ASSUME NEW e \in EditorState, NEW rs, NEW o, Write(e, rs, o)
  PROVE  Filed /\ editor' = e /\ receipts' = rs /\ owes' = o
BY PublishFacts DEF Write

LEMMA TickInv ==
  ASSUME IInv, OperationsTick
  PROVE  /\ IInv' /\ client' = client /\ owes' = owes /\ Running /\ ~Compiling
         /\ editor'.carried = editor.carried /\ editor'.alive = editor.alive /\ editor'.up = editor.up
         /\ \A m \in receipts' : \E r \in receipts :
               Marked(m, r, {q \in receipts : Complete(q)}, {"completed"}, {})
<1> USE DEF IInv
<1>1. PICK after : after = Mark(receipts, {r \in receipts : Complete(r)}, {"completed"}, {})
  OBVIOUS
<1>2. /\ EditorStep /\ Running /\ ~IsCompiling(editor, owes)
      /\ \/ Write([editor EXCEPT !.forced = None], after, owes)
         \/ receipts' = after /\ UNCHANGED <<editor, file, owes>>
  BY <1>1 DEF OperationsTick
<1>3. /\ editor \in EditorState /\ [editor EXCEPT !.forced = None] \in EditorState
      /\ [editor EXCEPT !.forced = None].carried = editor.carried
      /\ [editor EXCEPT !.forced = None].alive = editor.alive
      /\ [editor EXCEPT !.forced = None].up = editor.up
  BY EditorType DEF EditorState
<1>4. /\ Filed /\ receipts' = after /\ owes' = owes /\ editor' \in EditorState
      /\ editor'.carried = editor.carried /\ editor'.alive = editor.alive /\ editor'.up = editor.up
  BY <1>2, <1>3, WriteFacts DEF Filed
<1>5. Table(receipts) /\ {"completed"} \in SUBSET Flags
  BY DEF Table, TypeOK, ReceiptsInv, Flags
<1>6. /\ Derived(after, receipts)
      /\ \A m \in after : \E r \in receipts :
            Marked(m, r, {q \in receipts : Complete(q)}, {"completed"}, {})
  BY <1>1, <1>5, MarkFacts, Zenon
<1>7. IInv'
  BY <1>2, <1>4, <1>6, EditorInv DEF EditorStep, clientVars, TypeOK
<1>8. ~Compiling
  BY <1>2 DEF IsCompiling, Compiling, Owing
<1> QED BY <1>2, <1>4, <1>6, <1>7, <1>8 DEF EditorStep, clientVars

LEMMA TableNow ==
  ASSUME IInv
  PROVE  /\ Table(receipts) /\ editor \in EditorState
         /\ \A rs : rs = receipts => Derived(rs, receipts)
<1>1. Table(receipts) /\ editor \in EditorState
  BY EditorType DEF IInv, Table, TypeOK, ReceiptsInv
<1>2. Derived(receipts, receipts)
  BY <1>1, SubTable
<1> QED BY <1>1, <1>2

LEMMA HeartbeatInv ==
  ASSUME IInv, NEW written, HeartbeatTick(written)
  PROVE  /\ IInv' /\ client' = client /\ owes' = owes /\ receipts' = receipts
         /\ editor'.carried = editor.carried /\ editor'.alive = editor.alive /\ editor'.up = editor.up
<1> USE DEF IInv
<1>1. PICK forced \in {editor.forced, None} :
        Publish([editor EXCEPT !.forced = forced], receipts, owes, written)
  BY DEF HeartbeatTick
<1> DEFINE e == [editor EXCEPT !.forced = forced]
<1>2. /\ e \in EditorState
      /\ e.carried = editor.carried /\ e.alive = editor.alive /\ e.up = editor.up
  BY EditorType DEF EditorState
<1> HIDE DEF e
<1>9. Publish(e, receipts, owes, written)
  BY <1>1 DEF e
<1>3. Filed /\ editor' = e /\ receipts' = receipts /\ owes' = owes
  BY <1>2, <1>9, PublishFacts
<1>4. EditorStep
  BY DEF HeartbeatTick
<1>5. IInv'
  BY <1>2, <1>3, <1>4, TableNow, EditorInv DEF EditorStep, clientVars, TypeOK
<1> QED BY <1>2, <1>3, <1>4, <1>5 DEF EditorStep, clientVars

LEMMA CompileStartInv ==
  ASSUME IInv, CompileStart
  PROVE  IInv' /\ editor'.carried = FALSE /\ editor'.alive = editor.alive /\ editor'.up = editor.up
<1> USE DEF IInv
<1>1. /\ editor' \in EditorState /\ editor'.carried = FALSE
      /\ editor'.alive = editor.alive /\ editor'.up = editor.up
  BY EditorType DEF CompileStart, EditorState
<1>2. Derived(receipts', receipts)
  BY TableNow, NowFacts DEF CompileStart
<1>3. owes' \in [Clients -> Owed]
  BY DEF CompileStart, Settle, TypeOK, Owed
<1> QED BY <1>1, <1>2, <1>3, EditorInv DEF CompileStart, EditorStep, clientVars, Filed

LEMMA CompileEndInv ==
  ASSUME IInv, NEW how \in {"built", "failed", "empty"}, CompileEnd(how)
  PROVE  IInv'
<1> USE DEF IInv
<1>1. Derived(receipts', receipts)
  BY TableNow, FinishedFacts DEF CompileEnd
<1>2. owes' \in [Clients -> Owed]
  BY DEF CompileEnd, Settle, TypeOK, Owed
<1>3. editor' \in EditorState
  BY EditorType DEF CompileEnd
<1> QED BY <1>1, <1>2, <1>3, EditorInv DEF CompileEnd, EditorStep, clientVars, Filed

LEMMA NoChangeInv ==
  ASSUME IInv, NoChange
  PROVE  IInv'
<1> USE DEF IInv
<1>1. owes' \in [Clients -> Owed]
  BY DEF NoChange, Settle, TypeOK, Owed
<1>2. editor' \in EditorState /\ Derived(receipts', receipts)
  BY TableNow DEF NoChange
<1> QED BY <1>1, <1>2, EditorInv DEF NoChange, EditorStep, clientVars, Filed

LEMMA LateImportInv ==
  ASSUME IInv, LateImport
  PROVE  IInv'
<1> USE DEF IInv
<1>1. Derived(receipts', receipts)
  BY TableNow, CodeFacts DEF LateImport
<1>2. owes' \in [Clients -> Owed]
  BY DEF LateImport, TypeOK, Owed
<1>3. editor' \in EditorState
  BY EditorType DEF LateImport
<1> QED BY <1>1, <1>2, <1>3, EditorInv DEF LateImport, EditorStep, clientVars, Filed

LEMMA ReloadStartInv ==
  ASSUME IInv, ReloadStart
  PROVE  IInv' /\ editor'.carried = editor.carried /\ owes' = owes /\ receipts' = receipts
<1> USE DEF IInv
<1> DEFINE e == [editor EXCEPT !.up = FALSE, !.forced = "reloading"]
<1>1. /\ e \in EditorState
      /\ e.carried = editor.carried
  BY EditorType DEF EditorState, States
<1> HIDE DEF e
<1>9. Write(e, receipts, owes)
  BY DEF ReloadStart, e
<1>2. Filed /\ editor' = e /\ receipts' = receipts /\ owes' = owes
  BY <1>1, <1>9, WriteFacts
<1>3. IInv'
  BY <1>1, <1>2, TableNow, EditorInv DEF ReloadStart, TypeOK
<1> QED BY <1>1, <1>2, <1>3

LEMMA ReloadEndInv ==
  ASSUME IInv, ReloadEnd
  PROVE  /\ IInv' /\ receipts' = AfterAssemblyReload(receipts)
         /\ \E carried \in {FALSE, Carries} :
              /\ editor'.carried = carried
              /\ owes' = [c \in Clients |-> IF owes[c] = "reload" \/ (owes[c] = "asked" /\ ~carried)
                                            THEN "nothing" ELSE owes[c]]
<1> USE DEF IInv
<1>1. PICK carried \in {FALSE, Carries} :
        Write([editor EXCEPT !.up = TRUE, !.forced = None, !.carried = carried,
                !.mode = IF @ = "entering" THEN "arriving" ELSE @],
             AfterAssemblyReload(receipts),
             [c \in Clients |-> IF owes[c] = "reload" \/ (owes[c] = "asked" /\ ~carried)
                                THEN "nothing" ELSE owes[c]])
  BY DEF ReloadEnd
<1>2. PICK mode \in {"edit", "arriving", "playing", "exiting"} :
        mode = IF editor.mode = "entering" THEN "arriving" ELSE editor.mode
  BY EditorType DEF EditorState
<1>3. PICK e \in EditorState :
        /\ e = [editor EXCEPT !.up = TRUE, !.forced = None, !.carried = carried,
                !.mode = IF @ = "entering" THEN "arriving" ELSE @]
        /\ e.carried = carried
  <2>1. PICK q \in EditorState : q = editor
    BY EditorType
  <2> DEFINE e == [q EXCEPT !.up = TRUE, !.forced = None, !.carried = carried, !.mode = mode]
  <2>2. e = [editor EXCEPT !.up = TRUE, !.forced = None, !.carried = carried,
                !.mode = IF @ = "entering" THEN "arriving" ELSE @]
    BY <1>2, <2>1 DEF EditorState
  <2>3. carried \in BOOLEAN
    <3>1. {setup.outer, setup.carries, setup.lossy} \subseteq BOOLEAN
      BY OperationsAssumption DEF TypeOK
    <3> QED BY <3>1 DEF Carries
  <2>4. e \in EditorState /\ e.carried = carried
    BY <2>3 DEF EditorState
  <2> QED BY <2>2, <2>4
<1>4. /\ Filed /\ editor' = e /\ receipts' = AfterAssemblyReload(receipts)
      /\ owes' = [c \in Clients |-> IF owes[c] = "reload" \/ (owes[c] = "asked" /\ ~carried)
                                    THEN "nothing" ELSE owes[c]]
  BY <1>1, <1>3, WriteFacts
<1>5. Derived(receipts', receipts)
  BY <1>4, TableNow, ReloadedFacts
<1>6. owes' \in [Clients -> Owed]
  BY <1>4 DEF TypeOK, Owed
<1>7. EditorStep
  BY DEF ReloadEnd
<1>8. IInv'
  BY <1>4, <1>5, <1>6, <1>7, EditorInv DEF EditorStep, clientVars
<1> QED BY <1>3, <1>4, <1>8

\* The transition into mode entered serves the command of client c.
Serves(c, entered) == owes[c] = "event" /\ (Kind(c) = "play") = (entered = "playing")

LEMMA PlayModeEventInv ==
  ASSUME IInv, NEW entered \in {"playing", "edit"}, PlayModeEvent(entered)
  PROVE  /\ IInv' /\ receipts' = PlayModeStateChanged(receipts, entered)
         /\ editor'.carried = editor.carried /\ editor'.alive = editor.alive /\ editor'.up = editor.up
         /\ owes' = [c \in Clients |-> IF owes[c] # "event" THEN owes[c]
                                       ELSE IF Serves(c, entered) THEN "nothing" ELSE "cancelled"]
<1> USE DEF IInv
<1> DEFINE e == [editor EXCEPT !.mode = entered, !.forced = None]
<1>1. /\ e \in EditorState
      /\ e.carried = editor.carried /\ e.alive = editor.alive /\ e.up = editor.up
  BY EditorType DEF EditorState
<1> HIDE DEF e
<1> DEFINE o == [c \in Clients |-> IF owes[c] # "event" THEN owes[c]
                                    ELSE IF Serves(c, entered) THEN "nothing" ELSE "cancelled"]
<1>9. Write(e, PlayModeStateChanged(receipts, entered), o)
  BY DEF PlayModeEvent, Serves, e
<1>2. /\ Filed /\ editor' = e /\ receipts' = PlayModeStateChanged(receipts, entered)
      /\ owes' = [c \in Clients |-> IF owes[c] # "event" THEN owes[c]
                                    ELSE IF Serves(c, entered) THEN "nothing" ELSE "cancelled"]
  BY <1>1, <1>9, WriteFacts
<1>3. Derived(receipts', receipts)
  BY <1>2, TableNow, PlayFacts
<1>4. owes' \in [Clients -> Owed]
  BY <1>2 DEF TypeOK, Owed
<1>5. EditorStep
  BY DEF PlayModeEvent
<1>6. IInv'
  BY <1>1, <1>2, <1>3, <1>4, <1>5, EditorInv DEF EditorStep, clientVars
<1> QED BY <1>1, <1>2, <1>6

LEMMA ExitInv ==
  ASSUME IInv, NEW cleanly \in BOOLEAN, Exit(cleanly)
  PROVE  IInv' /\ editor'.carried = FALSE /\ editor'.alive = FALSE
<1> USE DEF IInv
<1>1. PICK q \in EditorState : q = editor
  BY EditorType
<1> DEFINE e == [q EXCEPT !.alive = FALSE, !.up = FALSE, !.forced = None,
                         !.carried = FALSE, !.mode = "edit"]
<1>2. e \in EditorState /\ e.carried = FALSE /\ e.alive = FALSE
  BY DEF EditorState
<1>3. editor' = e
  BY <1>1 DEF Exit
<1> HIDE DEF e
<1>4. Filed
  BY <1>1, <1>3 DEF Exit, Filed, Rewritten, States
<1>5. Derived(receipts', receipts)
  BY TableNow, SubTable DEF Exit
<1>6. owes' \in [Clients -> Owed]
  BY DEF Exit, TypeOK, Owed
<1>7. IInv'
  BY <1>2, <1>3, <1>4, <1>5, <1>6, EditorInv DEF Exit
<1> QED BY <1>2, <1>3, <1>7

LEMMA LaunchInv ==
  ASSUME IInv, Launch
  PROVE  IInv' /\ editor'.carried = editor.carried /\ editor'.up = TRUE /\ owes' = owes
               /\ receipts' = receipts /\ client' = client
<1> USE DEF IInv
<1>1. MaxPid \in Nat /\ editor.pid + 1 \in 1..MaxPid
  BY EditorType, OperationsAssumption DEF Launch, EditorState
<1> DEFINE e == [editor EXCEPT !.pid = @ + 1, !.alive = TRUE, !.up = TRUE]
<1>2. /\ e \in EditorState
      /\ e.carried = editor.carried /\ e.up = TRUE
  BY <1>1, EditorType DEF EditorState
<1> HIDE DEF e
<1>9. Write(e, receipts, owes)
  BY DEF Launch, e
<1>3. Filed /\ editor' = e /\ receipts' = receipts /\ owes' = owes
  BY <1>2, <1>9, WriteFacts
<1>4. EditorStep
  BY DEF Launch
<1>5. IInv'
  BY <1>2, <1>3, <1>4, TableNow, EditorInv DEF EditorStep, clientVars, TypeOK
<1> QED BY <1>2, <1>3, <1>4, <1>5 DEF EditorStep, clientVars

LEMMA InitInv == Init => IInv
<1> SUFFICES ASSUME Init PROVE IInv
  OBVIOUS
<1>1. /\ IsFiniteSet(receipts) /\ Cardinality(receipts) = 0 /\ receipts = {}
      /\ setup \in Setups /\ setup.capacity \in Nat
  BY FS_EmptySet, OperationsAssumption DEF Init
<1>2. 0 \in 0..MaxPid /\ 1 \in 1..MaxPid /\ 0 \in 0..1 /\ 0 <= setup.capacity
  BY <1>1, OperationsAssumption
<1>3. client \in [Clients -> ClientState] /\ file \in File
  BY <1>2 DEF Init, ClientState, File, States
<1>4. editor \in EditorState
  BY <1>2 DEF Init, EditorState
<1>5. /\ flight = {} /\ owes \in [Clients -> Owed] /\ ran = [c \in Clients |-> FALSE]
      /\ unmarked = {}
  BY DEF Init, Owed
<1>6. TypeOK
  BY <1>1, <1>2, <1>3, <1>4, <1>5 DEF TypeOK, ClientState, EditorState
<1>7. ClientsInv
  <2>1. ASSUME NEW c \in Clients PROVE ClientInv(c)
    <3>1. client[c].pc = "start" /\ client[c].reply = None /\ client[c].result = None
      BY DEF Init
    <3> QED BY <1>5, <3>1, OperationsAssumption DEF ClientInv, Place
  <2> QED BY <2>1 DEF ClientsInv
<1>8. ReceiptsInv /\ AfterInv
  <2>1. \A c \in Clients : client[c].reply = None
    BY DEF Init
  <2> QED BY <1>1, <2>1, OperationsAssumption DEF ReceiptsInv, AfterInv
<1> QED BY <1>6, <1>7, <1>8 DEF IInv

LEMMA StutterInv == IInv /\ UNCHANGED vars => IInv'
<1> SUFFICES ASSUME IInv, UNCHANGED vars PROVE IInv'
  OBVIOUS
<1>1. UNCHANGED <<client, flight, editor, receipts, file, owes, setup, ran, unmarked>>
  BY DEF vars, clientVars, unityVars
<1>2. editor' \in EditorState /\ owes' \in [Clients -> Owed] /\ Derived(receipts', receipts)
  BY <1>1, TableNow DEF IInv, TypeOK
<1> QED BY <1>1, <1>2, EditorInv DEF Filed

LEMMA StepInv == IInv /\ [Next]_vars => IInv'
<1> SUFFICES ASSUME IInv, [Next]_vars PROVE IInv'
  OBVIOUS
<1>1. CASE \E c \in Clients : ClientStep(c)
  BY <1>1, LookStep, LooksInv, UnlinkInv
<1>2. CASE \E c \in Clients : Execute(c)
  BY <1>2, ImportStep, PlayModeStep, RepliedStep DEF Execute
<1>3. CASE Unity
  BY <1>3, CompileStartInv, NoChangeInv, CompileEndInv, ReloadStartInv, ReloadEndInv,
     PlayModeEventInv DEF Unity
<1>4. CASE OperationsTick \/ (\E written \in Outcomes : HeartbeatTick(written)) \/ LateImport \/ Launch
  BY <1>4, TickInv, HeartbeatInv, LateImportInv, LaunchInv
<1>5. CASE \E cleanly \in BOOLEAN : Exit(cleanly)
  BY <1>5, ExitInv
<1>6. CASE UNCHANGED vars
  BY <1>6, StutterInv
<1> QED BY <1>1, <1>2, <1>3, <1>4, <1>5, <1>6 DEF Next

\* What holds in every reachable state: types, one receipt for a command that ran and
\* one run for a command, and files no older than an import answered without receipt
\* that could write its busy mark, whichever other writes of the file fail.
THEOREM Invariant == Spec => []IInv
<1>1. Init => IInv
  BY InitInv
<1>2. IInv /\ [Next]_vars => IInv'
  BY StepInv
<1> QED BY <1>1, <1>2, PTL DEF Spec

\* The state of clients and editor stays in its types, and the table of receipts within
\* its capacity, whichever commands run, reload and crash (EditorOperations.Begin).
THEOREM TypeCorrect == Spec => []TypeOK
<1>1. IInv => TypeOK
  BY DEF IInv
<1> QED BY <1>1, Invariant, PTL

\* A step that confirms an import answered without a receipt, whose busy mark was
\* written, finds a file that was written when, or after, the import had run.
LEMMA StepReady ==
  ASSUME IInv, [Next]_vars, NEW c \in Clients, ImportConfirmed(c), c \notin unmarked
  PROVE  c \in file.after
<1>1. /\ client[c].result = None /\ None # "confirmed"
      /\ client'[c].result = "confirmed" /\ client'[c].from = Inner
  BY OperationsAssumption DEF IInv, ClientsInv, ClientInv, ImportConfirmed
<1>2. file # None => c \in file.after
  BY DEF IInv, AfterInv, ImportConfirmed
<1>3. ASSUME NEW d \in Clients, Looks(d) PROVE file # None
  <2>1. d = c
    BY <1>1, <1>3 DEF Looks, Only
  <2> QED BY <1>3, <2>1 DEF Looks, ImportConfirmed
<1>4. CASE \E d \in Clients : ClientStep(d)
  <2>1. PICK d \in Clients : ClientStep(d)
    BY <1>4
  <2>2. CASE Unlink(d)
    BY <1>1, <2>2, UnlinkInv
  <2>3. CASE ~Unlink(d)
    BY <1>2, <1>3, <2>1, <2>3, LookStep
  <2> QED BY <2>2, <2>3
<1>5. CASE \E d \in Clients : Execute(d)
  <2>1. PICK d \in Clients, reply \in {"id", "noid", "error"} : Answer(d, reply)
    <3>1. PICK d \in Clients : Execute(d)
      BY <1>5
    <3> QED BY <3>1, ImportStep, PlayModeStep, RepliedStep DEF Execute, Replied
  <2> QED BY <1>1, <2>1, AnswerFacts
<1>6. CASE Unity
  BY <1>1, <1>6 DEF Unity, CompileStart, NoChange, CompileEnd, ReloadStart, ReloadEnd, PlayModeEvent,
     EditorStep, clientVars
<1>7. CASE \/ OperationsTick \/ (\E written \in Outcomes : HeartbeatTick(written)) \/ LateImport \/ Launch
           \/ \E cleanly \in BOOLEAN : Exit(cleanly)
  BY <1>1, <1>7 DEF OperationsTick, HeartbeatTick, LateImport, Launch, Exit, EditorStep, clientVars
<1>8. CASE UNCHANGED vars
  BY <1>1, <1>8 DEF vars, clientVars
<1> QED BY <1>4, <1>5, <1>6, <1>7, <1>8 DEF Next

\* A refresh, compile or reserialize that came back without a receipt is not confirmed
\* by a ready file older than its own busy mark (Heartbeat.MarkRefreshRequested,
\* adapter.py wait_for_state), unless that mark could not be written: every other write
\* of the file may fail (Heartbeat.Write), and anyone may remove or replace it.
THEOREM ReadyIsNew == Spec => ReadyAfterCommand
<1>1. IInv /\ [Next]_vars =>
        \A c \in Clients : ImportConfirmed(c) /\ c \notin unmarked => c \in file.after
  BY StepReady
<1> QED BY <1>1, Invariant, PTL DEF Spec, ReadyAfterCommand

--------------------------------------------------------------------------------
(* Part 3: what a receipt says of the work Unity still owes                   *)

\* Like marks keep a promise.
LEMMA AlikeKept ==
  ASSUME NEW m, NEW r, Alike(m, r), NEW o, NEW now, NEW carries, Kept(r, o, now, carries)
  PROVE  Kept(m, o, now, carries)
<1>1. {"completed", "cancelled", "moved", "event", "explicit", "compiling", "compiled", "reload"}
        \subseteq Flags \ {"finished", "code"}
  BY DEF Flags
<1>2. Play(m) <=> Play(r)
  BY DEF Alike, Same, Play
<1> QED BY <1>1, <1>2 DEF Alike, Kept

\* A promise made while Unity compiled holds when it no longer does.
LEMMA KeptLater ==
  ASSUME NEW r, NEW o, NEW now, NEW carries, Kept(r, o, now, carries), NEW later, later => now
  PROVE  Kept(r, o, later, carries)
BY DEF Kept

\* m stands for receipt r of an earlier table, and is not less complete.
Follows(m, r) == m.id = r.id /\ (Has(r, "completed") => Has(m, "completed"))

LEMMA EditorWork ==
  ASSUME IInv, WorkInv, client' = client, setup' = setup, editor'.alive /\ ~editor'.up => ~Compiling',
         \A c \in Clients : owes[c] = "nothing" =>
            owes'[c] = "nothing" \/ \E r \in receipts : r.id = c /\ ~Has(r, "completed"),
         \A m \in receipts' : Trusted(m.id) => \E r \in receipts :
            Follows(m, r) /\ Kept(m, owes'[r.id], Compiling', Carries)
  PROVE  WorkInv'
<1>1. \A m \in receipts' : Trusted(m.id) => Kept(m, owes'[m.id], Compiling', Carries)
  BY DEF Follows
<1>2. ASSUME NEW c \in Clients, Trusted(c), client[c].result = "confirmed" /\ client[c].reply = "id"
      PROVE  owes'[c] = "nothing" /\ \A m \in receipts' : m.id = c => Has(m, "completed")
  <2>1. owes[c] = "nothing" /\ \A r \in receipts : r.id = c => Has(r, "completed")
    BY <1>2 DEF WorkInv
  <2> QED BY <1>2, <2>1 DEF Follows
<1> QED BY <1>1, <1>2 DEF WorkInv, Trusted, Kind, Carries

LEMMA SameWork ==
  ASSUME IInv, WorkInv, client' = client, receipts' = receipts, owes' = owes,
         setup' = setup, editor'.alive /\ ~editor'.up => ~Compiling
  PROVE  WorkInv'
BY DEF WorkInv, Compiling, Owing, Trusted, Kind, Carries

LEMMA CompletedWork ==
  ASSUME IInv, WorkInv, NEW r \in receipts, Trusted(r.id), Complete(r), ~Compiling
  PROVE  owes[r.id] = "nothing"
<1>1. Kept(r, owes[r.id], Compiling, Carries) /\ ~Has(r, "completed")
  BY DEF WorkInv, Complete
<1>2. CASE Play(r)
  <2>1. Has(r, "event")
    BY <1>2 DEF Complete, Play
  <2> QED BY <1>1, <1>2, <2>1 DEF Kept
<1>3. CASE ~Play(r)
  <2>1. /\ Has(r, "explicit")  => Has(r, "compiled")
        /\ Has(r, "compiling") => Has(r, "compiled")
        /\ Has(r, "reload")    => Has(r, "moved")
    BY <1>3 DEF Complete, Play
  <2> QED BY <1>1, <1>3, <2>1 DEF Kept
<1> QED BY <1>2, <1>3

LEMMA TickWork == ASSUME IInv, WorkInv, OperationsTick PROVE WorkInv'
<1>1. /\ client' = client /\ setup' = setup /\ owes' = owes /\ Running /\ ~Compiling
      /\ editor'.alive = editor.alive /\ editor'.up = editor.up
      /\ \A m \in receipts' : \E r \in receipts :
            Marked(m, r, {q \in receipts : Complete(q)}, {"completed"}, {})
  BY TickInv DEF OperationsTick, EditorStep
<1>2. ~Compiling'
  BY <1>1 DEF Compiling, Owing
<1>3. ASSUME NEW m \in receipts', Trusted(m.id)
      PROVE  \E r \in receipts : Follows(m, r) /\ Kept(m, owes'[r.id], Compiling', Carries)
  <2>1. PICK r \in receipts : Marked(m, r, {q \in receipts : Complete(q)}, {"completed"}, {})
    BY <1>1
  <2>2. Kept(r, owes[r.id], Compiling, Carries) /\ Trusted(r.id)
    BY <1>3, <2>1 DEF WorkInv, Marked, Same
  <2>3. CASE Complete(r)
    <3>1. Same(m, r) /\ m.flags = r.flags \cup {"completed"}
      BY <2>1, <2>3 DEF Marked
    <3>2. owes'[r.id] = "nothing"
      BY <1>1, <2>2, <2>3, CompletedWork
    <3> QED BY <2>2, <3>1, <3>2 DEF Follows, Kept, Same, Has
  <2>4. CASE ~Complete(r)
    <3>1. m = r
      BY <2>1, <2>4 DEF Marked
    <3> QED BY <1>1, <1>2, <2>2, <3>1 DEF Follows, Kept
  <2> QED BY <2>3, <2>4
<1> QED BY <1>1, <1>2, <1>3, EditorWork DEF WorkInv

LEMMA CompileStartWork == ASSUME IInv, WorkInv, CompileStart PROVE WorkInv'
<1>1. /\ client' = client /\ setup' = setup /\ Running /\ CanCompile /\ owes' = Settle("asked", "compile")
      /\ editor'.alive = editor.alive /\ editor'.up = editor.up
      /\ receipts' = CompilationStarted(receipts)
  BY CompileStartInv DEF CompileStart, EditorStep, clientVars
<1>2. \A c \in Clients : owes[c] \notin {"compile", "reload"}
  BY <1>1 DEF CanCompile, Owing
<1>3. \A c \in Clients : owes'[c] = IF owes[c] = "asked" THEN "compile" ELSE owes[c]
  BY <1>1 DEF Settle
<1>4. ASSUME NEW m \in receipts', Trusted(m.id)
      PROVE  \E r \in receipts : Follows(m, r) /\ Kept(m, owes'[r.id], Compiling', Carries)
  <2>1. PICK r \in receipts : /\ r \in Active(receipts)    => Recompiled(m, r)
                              /\ r \notin Active(receipts) => m = r
    BY <1>1, TableNow, NowFacts
  <2>2. Kept(r, owes[r.id], Compiling, Carries) /\ r.id \in Clients
    BY <1>4, <2>1, TableNow DEF WorkInv, Table, Receipt, Recompiled, Same
  <2>3. CASE r \in Active(receipts)
    <3>1. Recompiled(m, r) /\ ~Has(r, "completed") /\ ~Play(r)
      BY <2>1, <2>3 DEF Active, Pending, Play
    <3>2. ~Has(m, "completed") /\ ~Play(m)
      BY <3>1 DEF Recompiled, Same, Play
    <3>3. owes'[r.id] \in {"nothing", "compile"} /\ (owes'[r.id] # "nothing" => ~Has(m, "moved"))
      BY <1>2, <1>3, <2>2, <3>1 DEF Kept, Recompiled
    <3> QED BY <2>2, <3>1, <3>2, <3>3 DEF Follows, Kept, Recompiled, Same
  <2>4. CASE r \notin Active(receipts)
    <3>1. m = r /\ (Has(r, "completed") \/ Play(r))
      BY <2>1, <2>4, TableNow DEF Active, Pending, Play, Table, Receipt
    <3> QED BY <1>3, <2>2, <3>1 DEF Follows, Kept
  <2> QED BY <2>3, <2>4
<1>5. \A c \in Clients : owes[c] = "nothing" => owes'[c] = "nothing"
  BY <1>3
<1> QED BY <1>1, <1>4, <1>5, EditorWork DEF Running

LEMMA CompileEndWork ==
  ASSUME IInv, WorkInv, NEW how \in {"built", "failed", "empty"}, CompileEnd(how)
  PROVE  WorkInv'
<1>1. /\ client' = client /\ setup' = setup /\ Running /\ Compiling /\ editor' = editor
      /\ receipts' = CompilationFinished(receipts, how)
      /\ owes' = Settle("compile", IF how = "built" THEN "reload" ELSE "nothing")
  BY DEF CompileEnd, EditorStep, clientVars, Compiling
<1>2. \A c \in Clients : owes'[c] = IF owes[c] = "compile"
                                    THEN IF how = "built" THEN "reload" ELSE "nothing" ELSE owes[c]
  BY <1>1 DEF Settle
<1>3. ~Compiling'
  BY <1>2 DEF Compiling, Owing
<1>4. ASSUME NEW m \in receipts', Trusted(m.id)
      PROVE  \E r \in receipts : Follows(m, r) /\ Kept(m, owes'[r.id], Compiling', Carries)
  <2>1. PICK r \in receipts : /\ Same(m, r)
                              /\ r \in Open(receipts)    => m.flags = Ended(r, how)
                              /\ r \notin Open(receipts) => m = r
    BY <1>1, TableNow, FinishedFacts
  <2>2. Kept(r, owes[r.id], Compiling, Carries) /\ r.id \in Clients
    BY <1>4, <2>1, TableNow DEF WorkInv, Table, Receipt, Same
  <2>3. CASE r \in Open(receipts)
    <3>1. ~Has(r, "completed") /\ ~Play(r) /\ Has(r, "compiling")
      BY <2>3 DEF Open, Active, Pending, Play
    <3>2. owes[r.id] \in {"nothing", "compile"} /\ (owes[r.id] = "compile" => ~Has(r, "moved"))
      BY <1>1, <2>2, <3>1 DEF Kept
    <3>3. /\ ~Has(m, "completed") /\ ~Play(m) /\ (Has(m, "explicit") <=> Has(r, "explicit"))
          /\ owes[r.id] = "compile" => ~Has(m, "moved") /\ (how = "built" => Has(m, "reload"))
      BY <2>1, <2>3, <3>1, <3>2 DEF Ended, Has, Same, Play
    <3> QED BY <1>2, <1>3, <2>1, <2>2, <3>1, <3>2, <3>3 DEF Follows, Kept, Same
  <2>4. CASE r \notin Open(receipts)
    <3>1. m = r /\ (Has(r, "completed") \/ Play(r) \/ ~Has(r, "compiling"))
      BY <2>1, <2>4, TableNow DEF Open, Active, Pending, Play, Table, Receipt
    <3> QED BY <1>2, <1>3, <2>2, <3>1 DEF Follows, Kept
  <2> QED BY <2>3, <2>4
<1>5. \A c \in Clients : owes[c] = "nothing" => owes'[c] = "nothing"
  BY <1>2
<1> QED BY <1>1, <1>3, <1>4, <1>5, EditorWork DEF Running, WorkInv

LEMMA NoChangeWork == ASSUME IInv, WorkInv, NoChange PROVE WorkInv'
<1>1. /\ client' = client /\ setup' = setup /\ Running /\ ~Compiling /\ editor' = editor /\ receipts' = receipts
      /\ \A c \in Clients : owes'[c] = IF owes[c] = "asked" THEN "reload" ELSE owes[c]
  BY DEF NoChange, EditorStep, clientVars, Compiling, Settle
<1>2. ~Compiling'
  BY <1>1 DEF Compiling, Owing
<1>3. ASSUME NEW m \in receipts', Trusted(m.id)
      PROVE  \E r \in receipts : Follows(m, r) /\ Kept(m, owes'[r.id], Compiling', Carries)
  <2>1. m \in receipts /\ Kept(m, owes[m.id], Compiling, Carries) /\ m.id \in Clients
    BY <1>1, <1>3, TableNow DEF WorkInv, Table, Receipt
  <2> QED BY <1>1, <1>2, <2>1 DEF Follows, Kept
<1>4. \A c \in Clients : owes[c] = "nothing" => owes'[c] = "nothing"
  BY <1>1
<1> QED BY <1>1, <1>2, <1>3, <1>4, EditorWork DEF WorkInv

LEMMA ReloadEndWork ==
  ASSUME IInv, WorkInv, ReloadEnd
  PROVE  WorkInv'
<1>0. PICK carried \in {FALSE, Carries} :
         owes' = [c \in Clients |-> IF owes[c] = "reload" \/ (owes[c] = "asked" /\ ~carried)
                                    THEN "nothing" ELSE owes[c]]
  BY ReloadEndInv
<1>1. /\ client' = client /\ setup' = setup /\ editor.alive /\ ~editor.up
      /\ receipts' = AfterAssemblyReload(receipts)
      /\ \A c \in Clients :
           /\ owes'[c] \in {owes[c], "nothing"}
           /\ owes[c] = "reload" => owes'[c] = "nothing"
           /\ owes[c] = "asked" /\ ~Carries => owes'[c] = "nothing"
  <2>1. ~Carries => ~carried
    BY <1>0
  <2>2. /\ client' = client /\ setup' = setup /\ editor.alive /\ ~editor.up
        /\ receipts' = AfterAssemblyReload(receipts)
    BY ReloadEndInv DEF ReloadEnd, EditorStep, clientVars
  <2>3. \A c \in Clients :
          /\ owes'[c] \in {owes[c], "nothing"}
          /\ owes[c] = "reload" => owes'[c] = "nothing"
          /\ owes[c] = "asked" /\ ~carried => owes'[c] = "nothing"
    BY <1>0
  <2> QED BY <2>1, <2>2, <2>3
<1>2. ~Compiling
  BY <1>1 DEF WorkInv
<1>3. ~Compiling'
  BY <1>1, <1>2 DEF Compiling, Owing
<1>4. ASSUME NEW m \in receipts', Trusted(m.id)
      PROVE  \E r \in receipts : Follows(m, r) /\ Kept(m, owes'[r.id], Compiling', Carries)
  <2>1. PICK r \in receipts :
           /\ Same(m, r)
           /\ r \in Active(receipts)    => m.flags = r.flags \cup {"finished", "compiled", "moved"}
           /\ r \notin Active(receipts) => m.flags = r.flags \cup {"moved"}
    BY <1>1, TableNow, ReloadedFacts
  <2>2. Kept(r, owes[r.id], Compiling, Carries) /\ r.id \in Clients
    BY <1>4, <2>1, TableNow DEF WorkInv, Table, Receipt, Same
  <2>3. r.id \in Clients => owes[r.id] # "compile"
    BY <1>2 DEF Compiling, Owing
  <2>4. Play(m) <=> Play(r)
    BY <2>1 DEF Same, Play
  <2>5. CASE r \in Active(receipts)
    <3>1. ~Has(r, "completed") /\ ~Play(r)
      BY <2>5 DEF Active, Pending, Play
    <3>2. owes'[r.id] = "nothing"
      BY <1>1, <2>2, <2>3, <3>1 DEF Kept
    <3>3. Has(m, "explicit") <=> Has(r, "explicit")
      BY <2>1, <2>5 DEF Has
    <3> QED BY <2>1, <2>2, <2>4, <3>1, <3>2, <3>3 DEF Follows, Kept, Same
  <2>6. CASE r \notin Active(receipts)
    <3>1. Has(r, "completed") \/ Play(r)
      BY <2>6, TableNow DEF Active, Pending, Play, Table, Receipt
    <3>2. \A flag \in {"completed", "cancelled", "event", "explicit"} : Has(m, flag) <=> Has(r, flag)
      BY <2>1, <2>6 DEF Has
    <3> QED BY <1>1, <2>1, <2>2, <2>4, <3>1, <3>2 DEF Follows, Kept, Same
  <2> QED BY <2>5, <2>6
<1>5. \A c \in Clients : owes[c] = "nothing" => owes'[c] = "nothing"
  BY <1>1
<1> QED BY <1>1, <1>3, <1>4, <1>5, EditorWork

LEMMA PlayModeEventWork ==
  ASSUME IInv, WorkInv, NEW entered \in {"playing", "edit"}, PlayModeEvent(entered)
  PROVE  WorkInv'
<1>1. /\ client' = client /\ setup' = setup /\ receipts' = PlayModeStateChanged(receipts, entered)
      /\ editor'.alive = editor.alive /\ editor'.up = editor.up
      /\ Owing("asked") \cup Owing("compile") \cup Owing("reload") = {}
      /\ Running
  BY PlayModeEventInv DEF PlayModeEvent, EditorStep, clientVars
<1>2. \A c \in Clients : /\ owes[c] \notin {"asked", "compile", "reload"}
                         /\ owes[c] # "event" => owes'[c] = owes[c]
                         /\ Serves(c, entered) => owes'[c] = "nothing"
                         /\ owes'[c] # "compile"
  BY <1>1, PlayModeEventInv DEF Owing, Serves
<1>3. ~Compiling'
  BY <1>2 DEF Compiling, Owing
<1>4. ASSUME NEW m \in receipts', Trusted(m.id)
      PROVE  \E r \in receipts : Follows(m, r) /\ Kept(m, owes'[r.id], Compiling', Carries)
  <2>1. PICK r \in receipts :
           /\ Same(m, r)
           /\ ~(Play(r) /\ ~Has(r, "completed")) => m = r
           /\ Play(r) /\ ~Has(r, "completed") =>
                /\ Reached(r, entered)  => m.flags = r.flags \cup {"event"}
                /\ ~Reached(r, entered) => m.flags = r.flags \cup {"completed", "cancelled"}
    BY <1>1, TableNow, PlayFacts
  <2>2. Kept(r, owes[r.id], Compiling, Carries) /\ r.id \in Clients
    BY <1>4, <2>1, TableNow DEF WorkInv, Table, Receipt, Same
  <2>3. Play(m) <=> Play(r)
    BY <2>1 DEF Same, Play
  <2>4. CASE Play(r) /\ ~Has(r, "completed") /\ Reached(r, entered)
    <3>1. r.kind = ReceiptKind(r.id)
      BY DEF IInv, ReceiptsInv, ReceiptKind
    <3>2. (Kind(r.id) = "play") = (entered = "playing")
      BY <2>4, <3>1 DEF Reached, Play, ReceiptKind
    <3>3. owes[r.id] \in {"nothing", "event"}
      BY <2>2, <2>4 DEF Kept
    <3>4. owes'[r.id] = "nothing"
      BY <1>2, <2>2, <3>2, <3>3 DEF Serves
    <3>5. ~Has(m, "completed") /\ Has(m, "event") /\ (Has(m, "explicit") <=> Has(r, "explicit"))
      BY <2>1, <2>4 DEF Has
    <3> QED BY <2>1, <2>2, <2>3, <2>4, <3>4, <3>5 DEF Follows, Kept, Same
  <2>5. CASE Play(r) /\ ~Has(r, "completed") /\ ~Reached(r, entered)
    <3>1. Has(m, "completed") /\ Has(m, "cancelled") /\ (Has(m, "explicit") <=> Has(r, "explicit"))
      BY <2>1, <2>5 DEF Has
    <3> QED BY <2>1, <2>2, <3>1 DEF Follows, Kept, Same
  <2>6. CASE ~(Play(r) /\ ~Has(r, "completed"))
    <3>1. m = r
      BY <2>1, <2>6
    <3>2. CASE Has(r, "completed")
      BY <1>2, <2>2, <3>1, <3>2 DEF Follows, Kept
    <3>3. CASE ~Has(r, "completed")
      <4>1. owes[r.id] = "nothing"
        BY <1>2, <2>2, <2>6, <3>3 DEF Kept
      <4> QED BY <1>2, <2>2, <2>6, <3>1, <3>3, <4>1 DEF Follows, Kept
    <3> QED BY <3>2, <3>3
  <2> QED BY <2>4, <2>5, <2>6
<1>5. \A c \in Clients : owes[c] = "nothing" => owes'[c] = "nothing"
  BY <1>2
<1> QED BY <1>1, <1>3, <1>4, <1>5, EditorWork DEF Running, WorkInv

LEMMA LateImportWork == ASSUME IInv, WorkInv, LateImport PROVE WorkInv'
<1>1. /\ client' = client /\ setup' = setup /\ Running /\ editor' = editor /\ receipts' = CodeImported(receipts)
      /\ \A c \in Clients :
           owes'[c] = IF \E r \in Withdrawn(receipts) : r.id = c THEN "reload" ELSE owes[c]
  BY DEF LateImport, EditorStep, clientVars
<1>2. Compiling' => Compiling
  BY <1>1 DEF Compiling, Owing
<1>3. ASSUME NEW m \in receipts', Trusted(m.id)
      PROVE  \E r \in receipts : Follows(m, r) /\ Kept(m, owes'[r.id], Compiling', Carries)
  <2>1. PICK r \in receipts \ Withdrawn(receipts) : Alike(m, r)
    BY <1>1, TableNow, CodeFacts
  <2>2. Kept(r, owes[r.id], Compiling, Carries) /\ r.id \in Clients
    BY <1>3, <2>1, TableNow DEF WorkInv, Table, Receipt, Alike, Same
  <2>3. ~\E q \in Withdrawn(receipts) : q.id = r.id
    BY <2>1 DEF Withdrawn, Active, Pending, IInv, ReceiptsInv
  <2>4. owes'[r.id] = owes[r.id]
    BY <1>1, <2>2, <2>3
  <2>5. Kept(m, owes'[r.id], Compiling', Carries)
    BY <1>2, <2>1, <2>2, <2>4, AlikeKept, KeptLater
  <2>6. "completed" \in Flags \ {"finished", "code"}
    BY DEF Flags
  <2> QED BY <2>1, <2>5, <2>6 DEF Follows, Alike, Same
<1>4. \A c \in Clients : owes[c] = "nothing" =>
         owes'[c] = "nothing" \/ \E r \in receipts : r.id = c /\ ~Has(r, "completed")
  BY <1>1 DEF Withdrawn, Active, Pending
<1> QED BY <1>1, <1>3, <1>4, EditorWork DEF Running, WorkInv

LEMMA ExitWork ==
  ASSUME IInv, WorkInv, NEW cleanly \in BOOLEAN, Exit(cleanly)
  PROVE  WorkInv'
<1>1. /\ client' = client /\ setup' = setup /\ receipts' = {}
      /\ \A c \in Clients : owes'[c] = IF owes[c] = "nothing" THEN "nothing" ELSE "lost"
      /\ editor'.alive = FALSE
  BY ExitInv DEF Exit
<1> QED BY <1>1, EditorWork

\* Commands are executed for clients that were not confirmed.
LEMMA ExecuteWork ==
  ASSUME IInv, WorkInv, NEW c \in flight, NEW reply \in {"id", "noid", "error"}, Answer(c, reply),
         editor'.up = editor.up, editor.up,
         \A d \in Clients : d # c /\ owes[d] = "nothing" => owes'[d] = "nothing",
         \A m \in receipts' : Trusted(m.id) =>
            /\ Kept(m, owes'[m.id], Compiling', Carries)
            /\ m.id # c => \E r \in receipts : Follows(m, r)
  PROVE  WorkInv'
<1>1. /\ c \in Clients /\ Only(c) /\ setup' = setup
      /\ client'[c].result = client[c].result
      /\ client'[c].reply # client[c].reply => client[c].pc = "wait"
  BY AnswerFacts DEF IInv, TypeOK
<1>2. client'[c].result = "confirmed" /\ client'[c].reply = "id" => FALSE
  <2>1. ClientInv(c) /\ None # "confirmed"
    BY <1>1, OperationsAssumption DEF IInv, ClientsInv
  <2> QED BY <1>1, <2>1 DEF ClientInv
<1>3. ASSUME NEW d \in Clients, Trusted(d), client'[d].result = "confirmed" /\ client'[d].reply = "id"
      PROVE  owes'[d] = "nothing" /\ \A m \in receipts' : m.id = d => Has(m, "completed")
  <2>1. d # c /\ client'[d] = client[d]
    BY <1>1, <1>2, <1>3 DEF Only
  <2>2. owes[d] = "nothing" /\ \A r \in receipts : r.id = d => Has(r, "completed")
    BY <1>3, <2>1 DEF WorkInv
  <2> QED BY <1>3, <2>1, <2>2 DEF Follows
<1> QED BY <1>1, <1>3 DEF WorkInv, Trusted, Kind, Carries

LEMMA RepliedWork ==
  ASSUME IInv, WorkInv, NEW c \in Clients, CanExecute(c), Replied(c)
  PROVE  WorkInv'
<1>1. PICK reply \in {"noid", "error"} : c \in flight /\ Answer(c, reply)
  BY DEF Replied
<1>2. editor' = editor /\ receipts' = receipts /\ owes' = owes /\ editor.up
  BY DEF Replied, unityVars, CanExecute
<1>3. \A m \in receipts' : Trusted(m.id) => Kept(m, owes'[m.id], Compiling', Carries) /\ \E r \in receipts : Follows(m, r)
  BY <1>2 DEF WorkInv, Compiling, Owing, Follows
<1> QED BY <1>1, <1>2, <1>3, ExecuteWork

LEMMA PlayModeWork ==
  ASSUME IInv, WorkInv, NEW c \in Clients, ChangePlayMode(c)
  PROVE  WorkInv'
<1>1. /\ c \in flight /\ Running /\ CanBegin /\ Kind(c) \in {"play", "stop"}
      /\ Answer(c, "id")
      /\ receipts' = Begin(c, ReceiptKind(c), {})
      /\ owes' = [owes EXCEPT ![c] = "event"]
      /\ editor'.up = editor.up
  BY PlayModeStep
<1>2. \A d \in Clients : owes'[d] = IF d = c THEN "event" ELSE owes[d]
  BY <1>1 DEF IInv, TypeOK
<1>3. Compiling' => Compiling
  BY <1>2 DEF Compiling, Owing
<1>4. {} \in SUBSET Flags
  OBVIOUS
<1>5. ASSUME NEW m \in receipts', Trusted(m.id)
      PROVE  Kept(m, owes'[m.id], Compiling', Carries) /\ (m.id # c => \E r \in receipts : Follows(m, r))
  <2>1. /\ m \in receipts \/ m = NewReceipt(c, ReceiptKind(c), {})
        /\ \A r \in receipts : r.id # c
    BY <1>1, <1>4, BegunFacts
  <2>2. CASE m \in receipts
    <3>1. m.id # c /\ m.id \in Clients /\ Kept(m, owes[m.id], Compiling, Carries)
      BY <1>5, <2>1, <2>2, TableNow DEF Table, Receipt, WorkInv
    <3> QED BY <1>2, <1>3, <2>2, <3>1, KeptLater DEF Follows
  <2>3. CASE m = NewReceipt(c, ReceiptKind(c), {})
    <3>1. m.id = c /\ m.flags = {} /\ Play(m)
      BY <1>1, <2>3 DEF NewReceipt, Play, ReceiptKind
    <3>2. owes'[c] = "event"
      BY <1>2
    <3> QED BY <3>1, <3>2 DEF Kept, Has
  <2> QED BY <2>1, <2>2, <2>3
<1> QED BY <1>1, <1>2, <1>5, ExecuteWork DEF Running

LEMMA ImportWork ==
  ASSUME IInv, WorkInv, NEW c \in Clients, NEW found \in {"data", "code", "now", "library", "failure"},
         NEW mark \in BusyMarks(c), Import(c, found, mark)
  PROVE  WorkInv'
<1>1. /\ c \in flight /\ Running /\ Kind(c) \in ImportKinds /\ CanBegin
      /\ found = "now" => CanCompile
      /\ \A m \in receipts' : \E r \in Begun(c) : Left(m, r, c, found)
  BY ImportStep
<1>2. PICK reply \in {"id", "noid", "error"} : Answer(c, reply)
  BY ImportStep
<1>3. editor'.up = editor.up
  BY ImportStep, EditorType DEF IInv, EditorState
<1>4. PICK owed \in {"nothing", "asked", "compile", "reload"} :
        /\ found = "failure" => owes' = owes
        /\ found = "now" => owed = "compile" /\ owes' = [Settle("asked", "compile") EXCEPT ![c] = owed]
        /\ found \notin {"now", "failure"} => owes' = [owes EXCEPT ![c] = owed]
        /\ found \in {"code", "library"} /\ Kind(c) = "compile" => owed = "asked"
        /\ found = "data" => owed = IF Kind(c) = "compile" THEN "asked" ELSE "nothing"
        /\ owed = "reload" => found = "library"
        /\ owed = "compile" => found = "now"
  BY ImportStep
<1>5. \A d \in Clients \ {c} :
        owes'[d] = IF found = "now" /\ owes[d] = "asked" THEN "compile" ELSE owes[d]
  BY <1>4 DEF Settle, IInv, TypeOK
<1>6. found # "failure" => owes'[c] = owed
  BY <1>4 DEF Settle, IInv, TypeOK
<1>7. found # "now" => (Compiling' => Compiling)
  BY <1>4, <1>5, <1>6 DEF Compiling, Owing
<1>8. /\ \A r \in Begun(c) : r \in receipts \/ r = NewReceipt(c, ReceiptKind(c), Explicit(c))
      /\ \A r \in receipts : r.id # c
  <2>1. Explicit(c) \in SUBSET Flags
    BY DEF Explicit, Flags
  <2> QED BY <1>1, <2>1, BegunFacts DEF Begun, ImportKinds
<1>9. ASSUME NEW m \in receipts', Trusted(m.id)
      PROVE  Kept(m, owes'[m.id], Compiling', Carries) /\ (m.id # c => \E r \in receipts : Follows(m, r))
  <2>1. PICK r \in Begun(c) : Left(m, r, c, found)
    BY <1>1
  <2>2. {"completed", "cancelled", "moved", "event", "explicit", "compiling", "compiled", "reload"}
          \subseteq Flags \ {"finished", "code"}
    BY DEF Flags
  <2>3. m.id = r.id /\ m.kind = r.kind /\ (Has(m, "completed") <=> Has(r, "completed"))
    BY <2>1, <2>2 DEF Left, Same, Alike, Recompiled
  <2>4. CASE r \in receipts
    <3>1. r.id # c /\ r.id \in Clients \ {c} /\ Kept(r, owes[r.id], Compiling, Carries)
      BY <1>8, <1>9, <2>3, <2>4, TableNow DEF Table, Receipt, WorkInv
    <3>2. CASE found # "now"
      <4>1. Alike(m, r) /\ owes'[r.id] = owes[r.id]
        BY <1>5, <2>1, <3>1, <3>2 DEF Left
      <4> QED BY <1>7, <2>3, <2>4, <3>1, <3>2, <4>1, AlikeKept, KeptLater DEF Follows
    <3>3. CASE found = "now" /\ r \in Active(Begun(c))
      <4>1. Recompiled(m, r) /\ ~Has(r, "completed") /\ ~Play(r)
        BY <2>1, <3>3 DEF Left, Active, Pending, Play
      <4>2. owes[r.id] \notin {"compile", "reload"}
        BY <1>1, <3>1, <3>3 DEF CanCompile, Owing
      <4>3. ~Has(m, "completed") /\ ~Play(m)
        BY <2>3, <4>1 DEF Play
      <4>4. owes'[r.id] \in {"nothing", "compile"} /\ (owes'[r.id] # "nothing" => ~Has(m, "moved"))
        BY <1>5, <3>1, <3>3, <4>1, <4>2 DEF Kept, Recompiled
      <4> QED BY <2>3, <2>4, <3>1, <4>1, <4>3, <4>4 DEF Follows, Kept, Recompiled
    <3>4. CASE found = "now" /\ r \notin Active(Begun(c))
      <4>1. Alike(m, r) /\ (Has(r, "completed") \/ Play(r))
        BY <2>1, <2>4, <3>4, TableNow DEF Left, Active, Pending, Play, Table, Receipt
      <4>2. Kept(r, owes'[r.id], Compiling', Carries)
        BY <1>5, <3>1, <4>1 DEF Kept
      <4> QED BY <2>3, <2>4, <4>1, <4>2, AlikeKept DEF Follows
    <3> QED BY <3>2, <3>3, <3>4
  <2>5. CASE r = NewReceipt(c, ReceiptKind(c), Explicit(c))
    <3>1. /\ r.id = c /\ r.flags = Explicit(c) /\ ~Play(r) /\ r.kind \in {"refresh", "reserialize"}
          /\ ~Has(r, "completed") /\ ~Has(r, "compiling") /\ ~Has(r, "compiled") /\ ~Has(r, "moved")
          /\ Has(r, "explicit") <=> Kind(c) = "compile"
          /\ Carries => ~Has(r, "explicit")
      <4>1. /\ r.id = c /\ r.flags = Explicit(c) /\ r.kind = ReceiptKind(c)
        BY <2>5 DEF NewReceipt
      <4>2. Carries => Kind(c) # "compile"
        BY <1>9, <2>3, <4>1 DEF Trusted
      <4> QED BY <1>1, <4>1, <4>2 DEF Play, ReceiptKind, ImportKinds, Explicit, Has
    <3>2. r \in Active(Begun(c)) /\ ~Play(m) /\ ~Has(m, "completed")
      BY <2>1, <2>3, <3>1 DEF Active, Pending, Play
    <3>3. CASE found = "now"
      <4>1. Recompiled(m, r) /\ owes'[c] = "compile"
        BY <1>4, <1>6, <2>1, <3>2, <3>3 DEF Left
      <4> QED BY <2>3, <3>1, <3>2, <4>1 DEF Kept, Recompiled
    <3>4. CASE found # "now"
      <4>1. Alike(m, r) /\ found # "failure"
        BY <2>1, <2>3, <3>1, <3>2, <3>4 DEF Left
      <4>2. found # "data" => Kind(c) = "compile"
        BY <2>1, <2>3, <3>1, <3>2, <3>4 DEF Left
      <4>3. owes'[c] = IF Kind(c) = "compile" THEN "asked" ELSE "nothing"
        BY <1>4, <1>6, <3>4, <4>1, <4>2
      <4>4. Kept(r, owes'[c], Compiling', Carries)
        BY <3>1, <4>3 DEF Kept
      <4> QED BY <2>3, <3>1, <4>1, <4>4, AlikeKept
    <3> QED BY <3>3, <3>4
  <2> QED BY <1>8, <2>4, <2>5
<1>10. \A d \in Clients : d # c /\ owes[d] = "nothing" => owes'[d] = "nothing"
  BY <1>5
<1> QED BY <1>1, <1>2, <1>3, <1>9, <1>10, ExecuteWork DEF Running

\* A client that looks is confirmed by a completed receipt, which owes nothing.
LEMMA LooksWork ==
  ASSUME IInv, WorkInv, NEW c \in Clients, Looks(c)
  PROVE  WorkInv'
<1>1. UNCHANGED <<editor, receipts, file, owes, setup>>
  BY DEF Looks, unityVars
<1>2. ASSUME Snapshot(c) = "completed", Trusted(c)
      PROVE  owes[c] = "nothing" /\ \A r \in receipts : r.id = c => Has(r, "completed")
  <2> DEFINE own == {r \in receipts : r.id = c}
  <2>1. own # {}
    BY <1>2 DEF Snapshot
  <2>2. PICK r \in own : r = CHOOSE q \in own : TRUE
    BY <2>1
  <2>3. Has(r, "completed") /\ ~Has(r, "cancelled")
    BY <1>2, <2>1, <2>2 DEF Snapshot
  <2>4. owes[c] = "nothing"
    BY <1>2, <2>3 DEF WorkInv, Kept
  <2>5. \A q \in receipts : q.id = c => q = r
    BY DEF IInv, ReceiptsInv
  <2> QED BY <2>3, <2>4, <2>5
<1>3. ASSUME NEW d \in Clients, Trusted(d), client'[d].result = "confirmed" /\ client'[d].reply = "id"
      PROVE  owes[d] = "nothing" /\ \A r \in receipts : r.id = d => Has(r, "completed")
  <2>1. CASE d = c
    BY <1>2, <1>3, <2>1 DEF Looks
  <2>2. CASE d # c
    BY <1>3, <2>2 DEF Looks, Only, WorkInv
  <2> QED BY <2>1, <2>2
<1> QED BY <1>1, <1>3 DEF WorkInv, Compiling, Owing, Trusted, Kind, Carries

LEMMA UnlinkWork ==
  ASSUME IInv, WorkInv, NEW c \in Clients, Unlink(c)
  PROVE  WorkInv'
BY UnlinkInv DEF WorkInv, Compiling, Owing, Trusted, Kind, Carries

LEMMA StepWork == ASSUME IInv, WorkInv, [Next]_vars PROVE WorkInv'
<1>1. CASE \E c \in Clients : ClientStep(c)
  BY <1>1, LookStep, LooksWork, UnlinkWork
<1>2. CASE \E c \in Clients : Execute(c)
  <2>1. PICK c \in Clients : Execute(c)
    BY <1>2
  <2>2. CASE RefuseImport(c) \/ AlreadyThere(c) \/ RefusePlayMode(c)
    <3>1. CanExecute(c)
      BY <2>2 DEF RefuseImport, AlreadyThere, RefusePlayMode
    <3> QED BY <2>2, <3>1, RepliedStep, RepliedWork
  <2> QED BY <2>1, <2>2, ImportWork, PlayModeWork DEF Execute
<1>3. CASE CompileStart \/ NoChange \/ (\E how \in {"built", "failed", "empty"} : CompileEnd(how))
  BY <1>3, CompileStartWork, NoChangeWork, CompileEndWork
<1>4. CASE ReloadStart
  <2>1. Owing("compile") = {} /\ client' = client /\ setup' = setup
    BY <1>4 DEF ReloadStart
  <2> QED BY <1>4, <2>1, ReloadStartInv, SameWork DEF WorkInv, Compiling
<1>5. CASE ReloadEnd
  BY <1>5, ReloadEndWork
<1>6. CASE \E entered \in {"playing", "edit"} : PlayModeEvent(entered)
  BY <1>6, PlayModeEventWork
<1>7. CASE OperationsTick \/ LateImport
  BY <1>7, TickWork, LateImportWork
<1>8. CASE (\E written \in Outcomes : HeartbeatTick(written)) \/ Launch
  BY <1>8, HeartbeatInv, LaunchInv, SameWork DEF WorkInv, HeartbeatTick, Launch, EditorStep
<1>9. CASE \E cleanly \in BOOLEAN : Exit(cleanly)
  BY <1>9, ExitWork
<1>10. CASE UNCHANGED vars
  BY <1>10, SameWork DEF WorkInv, vars, clientVars, unityVars
<1> QED BY <1>1, <1>2, <1>3, <1>4, <1>5, <1>6, <1>7, <1>8, <1>9, <1>10 DEF Next, Unity

LEMMA InitWork == Init => WorkInv
<1> SUFFICES ASSUME Init PROVE WorkInv
  OBVIOUS
<1>1. editor.up /\ receipts = {} /\ \A c \in Clients : client[c].result = None
  BY DEF Init
<1> QED BY <1>1, OperationsAssumption DEF WorkInv

--------------------------------------------------------------------------------
(* Part 4: the theorems about the work                                        *)

\* Every receipt tells the truth about what Unity still owes its command, but for an
\* explicit compilation in an editor that keeps the request for it over a reload.
THEOREM ReceiptsTellTruth == Spec => []WorkInv
<1>1. Init => IInv /\ WorkInv
  BY InitInv, InitWork
<1>2. IInv /\ WorkInv /\ [Next]_vars => (IInv /\ WorkInv)'
  BY StepInv, StepWork
<1> QED BY <1>1, <1>2, PTL DEF Spec

\* A command that was confirmed by its receipt has run, and Unity owes it no compilation,
\* no domain reload and no play-mode event (EditorOperations.Tick, adapter.py
\* completed_operation): compile where a reload serves its request, all others anywhere.
THEOREM ConfirmedDone == Spec => []ConfirmedMeansDone
<1>1. IInv /\ WorkInv => ConfirmedMeansDone
  BY DEF IInv, ClientsInv, ClientInv, WorkInv, ConfirmedMeansDone
<1> QED BY <1>1, Invariant, ReceiptsTellTruth, PTL
================================================================================
