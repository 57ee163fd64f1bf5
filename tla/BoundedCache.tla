----------------------------- MODULE BoundedCache -----------------------------
(***************************************************************************)
(* BoundedCache (src/compiler-worker/UnityBridge.Compiler/BoundedCache.cs):*)
(* the compiler's least-recently-used cache, bounded in entries and bytes. *)
(* An entry has a weight of its own and shares images with other entries;  *)
(* an image is counted once while any entry holds it, at the largest       *)
(* weight it was added with meanwhile.                                     *)
(*                                                                         *)
(* MetadataReferenceCache uses it without images, CompilerEngine with them.*)
(***************************************************************************)
EXTENDS Integers, Sequences, FiniteSets, FiniteSetsExt

CONSTANTS Keys,      \* cache keys
          Images,    \* shared resources, by RetentionId
          Weights,   \* weights of entries and images
          Capacity,  \* capacity
          MaxBytes   \* maxBytes

ASSUME CacheAssumption ==
    /\ IsFiniteSet(Keys) /\ IsFiniteSet(Images)
    /\ Weights \subseteq Nat
    /\ Capacity \in Nat \ {0} /\ MaxBytes \in Nat

VARIABLE cache  \* the entries from the oldest to the newest use, the images, the bytes

Resources == UNION {[dom -> Weights] : dom \in SUBSET Images}
Entry == [key : Keys, weight : Weights, shared : Resources]

\* The bounds hold after every operation, and a key has one entry.
TypeOK ==
    /\ cache.lru \in Seq(Entry) /\ Len(cache.lru) <= Capacity
    /\ \A m, n \in DOMAIN cache.lru : cache.lru[m].key = cache.lru[n].key => m = n
    /\ cache.images \in [Images -> [weight : Weights \cup {0}, users : 0..Len(cache.lru)]]
    /\ cache.bytes \in 0..MaxBytes

Init == cache = [lru |-> <<>>, images |-> [i \in Images |-> [weight |-> 0, users |-> 0]],
                 bytes |-> 0]

Total(f) == MapThenSumSet(LAMBDA i : f[i], DOMAIN f)

\* Remove: the entry at position n goes, and every image only it still used.
Remove(c, n) ==
    LET e == c.lru[n]
        last == {i \in DOMAIN e.shared : c.images[i].users = 1}
    IN  [lru |-> SubSeq(c.lru, 1, n - 1) \o SubSeq(c.lru, n + 1, Len(c.lru)),
         images |-> [i \in Images |->
                        IF i \in last THEN [weight |-> 0, users |-> 0]
                        ELSE IF i \in DOMAIN e.shared THEN [c.images[i] EXCEPT !.users = @ - 1]
                        ELSE c.images[i]],
         bytes |-> c.bytes - e.weight - Total([i \in last |-> c.images[i].weight])]

Position(c, k) == {n \in DOMAIN c.lru : c.lru[n].key = k}

WithoutKey_kept(c, k) == c

WithoutKey(c, k) ==
    IF Position(c, k) = {} THEN c ELSE Remove(c, CHOOSE n \in Position(c, k) : TRUE)

Growth_full(c, res) == Total([i \in DOMAIN res |-> IF res[i] > c.images[i].weight
                                                   THEN res[i] ELSE 0])

\* What images add to the bytes of c, beyond what is counted already.
Growth(c, res) ==
    Total([i \in DOMAIN res |-> IF res[i] > c.images[i].weight
                                THEN res[i] - c.images[i].weight ELSE 0])

TooLarge_alone(w, res) == w > MaxBytes

TooLarge(w, res) == w > MaxBytes \/ Total(res) > MaxBytes - w

Fits(c, w, res) == Len(c.lru) < Capacity /\ c.bytes + w + Growth(c, res) <= MaxBytes

\* The cache after its n oldest entries are evicted.
Evicted(c, n) ==
    LET evicted[k \in 0..n] == IF k = 0 THEN c ELSE Remove(evicted[k - 1], 1)
    IN  evicted[n]

\* res holds each image once: Add groups sharedWeights by image.
Insert(c, k, w, res) ==
    [lru |-> Append(c.lru, [key |-> k, weight |-> w, shared |-> res]),
     images |-> [i \in Images |->
                    IF i \notin DOMAIN res THEN c.images[i]
                    ELSE [weight |-> Max({res[i], c.images[i].weight}),
                          users |-> c.images[i].users + 1]],
     bytes |-> c.bytes + w + Growth(c, res)]

\* Evicts only until the entry fits; an entry that never fits is dropped, after the
\* entry it was to replace.
Add(k, w, res) ==
    LET c == WithoutKey(cache, k)
    IN  \/ TooLarge(w, res) /\ cache' = c
        \/ /\ ~TooLarge(w, res)
           /\ \E n \in 0..Len(c.lru) :
                 /\ Fits(Evicted(c, n), w, res)
                 /\ \A m \in 0..(n - 1) : ~Fits(Evicted(c, m), w, res)
                 /\ cache' = Insert(Evicted(c, n), k, w, res)

\* A hit becomes the newest entry.
TryGet(k) ==
    \E n \in Position(cache, k) :
        cache' = [cache EXCEPT !.lru = SubSeq(@, 1, n - 1) \o SubSeq(@, n + 1, Len(@))
                                       \o <<@[n]>>]

Next == \E k \in Keys : \/ TryGet(k)
                        \/ \E w \in Weights, res \in Resources : Add(k, w, res)

Spec == Init /\ [][Next]_cache

-----------------------------------------------------------------------------
(* Properties *)

Users(i) == {n \in DOMAIN cache.lru : i \in DOMAIN cache.lru[n].shared}

\* The byte account never drifts: it is the sum of what is retained, however entries
\* sharing images came and went. An image is counted exactly while an entry holds it, and
\* never below the weight any of its holders gave it.
ExactAccount ==
    /\ cache.bytes = Total([n \in DOMAIN cache.lru |-> cache.lru[n].weight])
                     + Total([i \in Images |-> cache.images[i].weight])
    /\ \A i \in Images :
          /\ cache.images[i].users = Cardinality(Users(i))
          /\ \A n \in Users(i) : cache.lru[n].shared[i] <= cache.images[i].weight
          /\ Users(i) = {} => cache.images[i].weight = 0

\* Eviction never runs out of entries: whatever may be cached at all fits once the
\* cache is empty, so the loop does not remove from an empty list.
EvictionSuffices ==
    \A k \in Keys : LET c == WithoutKey(cache, k) IN
        \A w \in Weights, res \in Resources :
            ~TooLarge(w, res) => \E n \in 0..Len(c.lru) : Fits(Evicted(c, n), w, res)
=============================================================================
