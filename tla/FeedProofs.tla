----------------------------- MODULE FeedProofs -----------------------------
(***************************************************************************)
(* Lemmas about the operators FeedReading is built from, for feeds of any  *)
(* length: the walk over posts and quotes, the exposures a row keeps, the  *)
(* rounds that cut a discovery to its bound.  Each is a fold or a          *)
(* recursive function; a fold along a sequence is proved to be the last    *)
(* state of a run with one step per element, and the run is reasoned about *)
(* by induction on the position.                                           *)
(***************************************************************************)
EXTENDS FeedReading, TLAPS, FiniteSetTheorems, WellFoundedInduction

-----------------------------------------------------------------------------
(***************************************************************************)
(* Induction along an interval, and the recursive functions and folds the  *)
(* sampling is made of.  Each of these is proved to exist for its operator *)
(* and is then a sequence of states, one per element.                      *)
(***************************************************************************)

\* Induction on the naturals, for a set that holds zero and every successor.
LEMMA Induction ==
    ASSUME NEW S, 0 \in S, \A n \in Nat : n \in S => n + 1 \in S
    PROVE  \A n \in Nat : n \in S
<1> SUFFICES ASSUME Nat \ S # {} PROVE FALSE
  OBVIOUS
<1>1. PICK m \in Nat \ S : \A y \in Nat \ S : ~ (<<y, m>> \in OpToRel(<, Nat))
  <2>1. Nat \ S \subseteq Nat
    OBVIOUS
  <2> QED
    BY <2>1, NatLessThanWellFounded, WFMin
<1>2. \A y \in Nat : y < m => <<y, m>> \in OpToRel(<, Nat)
  BY DEF OpToRel
<1>3. m # 0 /\ m - 1 \in Nat /\ m - 1 < m /\ (m - 1) + 1 = m
  OBVIOUS
<1>4. m - 1 \in S
  BY <1>1, <1>2, <1>3
<1> QED
  BY <1>3, <1>4

\* The same up to n.
LEMMA PrefixInduction ==
    ASSUME NEW n \in Nat, NEW S, 0 \in S, \A k \in 1..n : k - 1 \in S => k \in S
    PROVE  \A k \in 0..n : k \in S
<1> DEFINE T == {k \in Nat : k <= n => k \in S}
<1>1. 0 \in T
  OBVIOUS
<1>2. ASSUME NEW k \in Nat, k \in T PROVE k + 1 \in T
  <2>1. CASE k + 1 <= n
    <3>1. k + 1 \in 1..n /\ (k + 1) - 1 = k /\ k <= n
      BY <2>1
    <3> QED
      BY <1>2, <3>1
  <2> QED
    BY <2>1
<1> HIDE DEF T
<1>3. \A k \in Nat : k \in T
  BY <1>1, <1>2, Induction
<1> QED
  BY <1>3 DEF T

\* The greatest of some numbers up to k + 1, one of which is k + 1.
LEMMA LastOfSome ==
    ASSUME NEW k \in Nat, NEW T \in SUBSET (1..(k + 1)), k + 1 \in T
    PROVE  Max(T) = k + 1
<1>1. \A x \in T : (\A y \in T : x >= y) <=> x = k + 1
  OBVIOUS
<1> QED
  BY <1>1 DEF Max

\* Some numbers up to n have a greatest, and it is one of them.
LEMMA LastIsIn ==
    \A n \in Nat : \A T \in SUBSET (1..n) : T # {} => Max(T) \in T
<1> DEFINE S == {n \in Nat : \A T \in SUBSET (1..n) : T # {} => Max(T) \in T}
<1>1. 0 \in S
  <2>1. \A T : T \in SUBSET (1..0) => T = {}
    OBVIOUS
  <2> QED
    BY <2>1
<1>2. ASSUME NEW n \in Nat, n \in S PROVE n + 1 \in S
  <2> SUFFICES ASSUME NEW T \in SUBSET (1..(n + 1)), T # {} PROVE Max(T) \in T
    OBVIOUS
  <2>1. CASE n + 1 \in T
    BY <2>1, LastOfSome
  <2>2. CASE n + 1 \notin T
    <3>1. T \in SUBSET (1..n)
      BY <2>2
    <3> QED
      BY <1>2, <3>1
  <2> QED
    BY <2>1, <2>2
<1> HIDE DEF S
<1>3. \A n \in Nat : n \in S
  BY <1>1, <1>2, Induction
<1> QED
  BY <1>3 DEF S

\* What a fold computes of each set of positions.
Solves(f, next, base, s, n) ==
    \A T \in SUBSET (1..n) :
        f[T] = IF T = {} THEN base ELSE next[<<f[T \ {Max(T)}], s[Max(T)]>>]

\* The recursive function a fold applies exists: the equations have a solution on
\* every set of positions, for any operator that stays among the states.
LEMMA FoldExists ==
    ASSUME NEW W, NEW E, NEW next \in [W \X E -> W], NEW base \in W, NEW N \in Nat,
           NEW s \in [1..N -> E]
    PROVE  \E f \in [SUBSET (1..N) -> W] : Solves(f, next, base, s, N)
<1> DEFINE S == {n \in 0..N : \E f \in [SUBSET (1..n) -> W] : Solves(f, next, base, s, n)}
<1>1. 0 \in S
  <2>1. \A T : T \in SUBSET (1..0) => T = {}
    OBVIOUS
  <2>2. Solves([T \in SUBSET (1..0) |-> base], next, base, s, 0)
    BY <2>1 DEF Solves
  <2> QED
    BY <2>2
<1>2. ASSUME NEW n \in 1..N, n - 1 \in S PROVE n \in S
  <2>1. PICK f \in [SUBSET (1..(n - 1)) -> W] : Solves(f, next, base, s, n - 1)
    BY <1>2
  <2> DEFINE g == [T \in SUBSET (1..n) |->
                     IF n \in T THEN next[<<f[T \ {n}], s[n]>>] ELSE f[T]]
  <2>m. n - 1 \in Nat /\ (n - 1) + 1 = n /\ n \in 0..N
    OBVIOUS
  <2>2. \A T \in SUBSET (1..(n - 1)) : n \notin T /\ T \in SUBSET (1..n)
    OBVIOUS
  <2>3. \A T \in SUBSET (1..n) : T \ {n} \in SUBSET (1..(n - 1)) /\ (n \notin T => T \in SUBSET (1..(n - 1)))
    OBVIOUS
  <2>4. g \in [SUBSET (1..n) -> W]
    <3>1. ASSUME NEW T \in SUBSET (1..n), n \in T PROVE next[<<f[T \ {n}], s[n]>>] \in W
      <4>1. <<f[T \ {n}], s[n]>> \in W \X E
        BY <2>3
      <4> QED
        BY <4>1
    <3>2. ASSUME NEW T \in SUBSET (1..n), n \notin T PROVE f[T] \in W
      BY <2>3, <3>2
    <3> QED
      BY <3>1, <3>2
  <2>5. /\ \A T \in SUBSET (1..(n - 1)) : g[T] = f[T]
        /\ \A T \in SUBSET (1..n) : n \in T => g[T] = next[<<f[T \ {n}], s[n]>>]
    BY <2>2
  <2> HIDE DEF g
  <2>6. ASSUME NEW T \in SUBSET (1..n)
        PROVE  g[T] = IF T = {} THEN base ELSE next[<<g[T \ {Max(T)}], s[Max(T)]>>]
    <3>1. CASE n \in T
      <4>1. Max(T) = n
        BY <2>m, <3>1, LastOfSome
      <4>2. g[T \ {n}] = f[T \ {n}]
        BY <2>3, <2>5
      <4> QED
        BY <2>5, <3>1, <4>1, <4>2
    <3>2. CASE n \notin T
      <4>1. T \in SUBSET (1..(n - 1)) /\ \A x : T \ {x} \in SUBSET (1..(n - 1))
        BY <2>3, <3>2
      <4>2. g[T] = f[T] /\ \A x : g[T \ {x}] = f[T \ {x}]
        BY <2>5, <4>1
      <4>3. f[T] = IF T = {} THEN base ELSE next[<<f[T \ {Max(T)}], s[Max(T)]>>]
        BY <2>1, <4>1 DEF Solves
      <4> QED
        BY <4>2, <4>3
    <3> QED
      BY <3>1, <3>2
  <2>7. Solves(g, next, base, s, n)
    BY <2>6 DEF Solves
  <2> QED
    BY <2>m, <2>4, <2>7
<1> HIDE DEF S
<1>3. \A k \in 0..N : k \in S
  BY <1>1, <1>2, PrefixInduction
<1>4. N \in S
  BY <1>3
<1> QED
  BY <1>4 DEF S

\* The positions up to k, the last of them and those before it.
LEMMA UpTo ==
    ASSUME NEW n \in Nat
    PROVE  /\ 1..0 = {} /\ \A k \in 0..n : 1..k \in SUBSET (1..n)
           /\ \A k \in 1..n : 1..k # {} /\ Max(1..k) = k /\ (1..k) \ {k} = 1..(k - 1)
                                /\ k - 1 \in 0..n /\ k \in 0..n
<1>1. ASSUME NEW k \in 1..n PROVE Max(1..k) = k
  <2>1. k - 1 \in Nat /\ (k - 1) + 1 = k /\ k \in 1..k /\ 1..k \in SUBSET (1..k)
    OBVIOUS
  <2> QED
    BY <2>1, LastOfSome
<1>2. \A k \in 1..n : 1..k # {} /\ (1..k) \ {k} = 1..(k - 1) /\ k - 1 \in 0..n /\ k \in 0..n
  OBVIOUS
<1>3. 1..0 = {} /\ \A k \in 0..n : 1..k \in SUBSET (1..n)
  OBVIOUS
<1> QED
  BY <1>1, <1>2, <1>3

-----------------------------------------------------------------------------
(* What the walk over posts and quotes finds (extractFeedExposures).       *)

Lineages == {Lineage(own, raw, view) : own \in Addresses, raw, view \in Replies}
Samplings == [exposures : Seq(Subjects), items : Seq(Lineages),
              seen : SUBSET (STRING \X Nat), here : Nat, complete : BOOLEAN]

\* What the walk changes of a sampling, field by field.
LEMMA SamplingUpdates ==
    ASSUME NEW A, NEW B, NEW C, NEW D,
           NEW r \in [exposures : A, items : B, seen : C, here : D, complete : BOOLEAN],
           NEW a \in A, NEW b \in B, NEW c \in C, NEW d \in D, NEW e \in BOOLEAN
    PROVE  /\ [r EXCEPT !.seen = c, !.here = d, !.exposures = a]
                \in [exposures : A, items : B, seen : C, here : D, complete : BOOLEAN]
           /\ [r EXCEPT !.seen = c, !.here = d, !.exposures = a].exposures = a
           /\ [r EXCEPT !.seen = c, !.here = d, !.exposures = a].seen = c
           /\ [r EXCEPT !.seen = c, !.here = d, !.exposures = a].items = r.items
           /\ [r EXCEPT !.seen = c, !.here = d, !.exposures = a].complete = r.complete
           /\ [r EXCEPT !.here = d, !.items = b, !.complete = e]
                \in [exposures : A, items : B, seen : C, here : D, complete : BOOLEAN]
           /\ [r EXCEPT !.here = d, !.items = b, !.complete = e].exposures = r.exposures
           /\ [r EXCEPT !.here = d, !.items = b, !.complete = e].seen = r.seen
           /\ [r EXCEPT !.here = d, !.items = b, !.complete = e].items = b
           /\ [r EXCEPT !.here = d, !.items = b, !.complete = e].complete = e
           /\ [r EXCEPT !.complete = e]
                \in [exposures : A, items : B, seen : C, here : D, complete : BOOLEAN]
           /\ [r EXCEPT !.complete = e].exposures = r.exposures
           /\ [r EXCEPT !.complete = e].seen = r.seen
           /\ [r EXCEPT !.complete = e].items = r.items
           /\ [r EXCEPT !.complete = e].complete = e
OBVIOUS

\* What a sequence holds, and what one more element adds to it.
LEMMA RangeOf ==
    ASSUME NEW A, NEW s \in Seq(A)
    PROVE  /\ Range(s) \subseteq A /\ DOMAIN s = 1..Len(s) /\ Len(s) \in Nat
           /\ \A a \in A : Append(s, a) \in Seq(A) /\ Range(Append(s, a)) = Range(s) \cup {a}
<1>1. DOMAIN s = 1..Len(s) /\ Len(s) \in Nat /\ \A i \in DOMAIN s : s[i] \in A
  OBVIOUS
<1>2. ASSUME NEW a \in A
      PROVE  Append(s, a) \in Seq(A) /\ Range(Append(s, a)) = Range(s) \cup {a}
  <2> DEFINE t == Append(s, a)
  <2>1. /\ t \in Seq(A) /\ DOMAIN t = 1..(Len(s) + 1)
        /\ \A i \in 1..Len(s) : t[i] = s[i]
        /\ t[Len(s) + 1] = a
    OBVIOUS
  <2> HIDE DEF t
  <2>2. DOMAIN t = DOMAIN s \cup {Len(s) + 1} /\ \A i \in DOMAIN s : t[i] = s[i]
    BY <1>1, <2>1
  <2>3. Range(t) = Range(s) \cup {a}
    BY <2>1, <2>2 DEF Range
  <2> QED
    BY <2>1, <2>3 DEF t
<1> QED
  BY <1>1, <1>2 DEF Range

\* One author: the sampling says it was cut short, or the author is among the
\* exposures, now or since an entry of the same uri.
Adds(acc, entry, after) ==
    /\ after \in Samplings /\ after.items = acc.items
    /\ \E key : key[1] = entry.uri /\
         \/ /\ after.exposures = acc.exposures /\ after.seen = acc.seen
            /\ after.complete => acc.complete /\ key \in acc.seen /\ entry.actor # NoActor
         \/ /\ Range(after.exposures) = Range(acc.exposures) \cup {entry.actor}
            /\ after.seen = acc.seen \cup {key} /\ after.complete = acc.complete
            /\ entry.actor # NoActor

\* One author, for every sampling: its type is kept and nothing else changes.
LEMMA AddExposureAdds ==
    ASSUME NEW acc \in Samplings, NEW entry \in Entries, NEW depth \in Nat
    PROVE  Adds(acc, entry, AddExposure(acc, entry, depth))
<1> DEFINE key == <<entry.uri, depth>>
           seen == acc.seen \cup {key}
           here == acc.here + 1
           exposures == Append(acc.exposures, entry.actor)
           cut == [acc EXCEPT !.complete = FALSE]
           new == [acc EXCEPT !.seen = seen, !.here = here, !.exposures = exposures]
<1>1. /\ acc.exposures \in Seq(Subjects) /\ acc.seen \in SUBSET (STRING \X Nat) /\ acc.here \in Nat
  BY DEF Samplings
<1>2. here \in Nat /\ seen \in SUBSET (STRING \X Nat)
  BY <1>1 DEF Entries
<1>3. entry.actor # NoActor => /\ exposures \in Seq(Subjects)
                               /\ Range(exposures) = Range(acc.exposures) \cup {entry.actor}
  BY <1>1, RangeOf DEF Entries
<1>4. /\ cut \in Samplings /\ cut.exposures = acc.exposures /\ cut.seen = acc.seen
      /\ cut.items = acc.items /\ cut.complete = FALSE
  BY SamplingUpdates DEF Samplings
<1>5. \/ AddExposure(acc, entry, depth) = cut
      \/ AddExposure(acc, entry, depth) = acc /\ key \in acc.seen /\ entry.actor # NoActor
      \/ AddExposure(acc, entry, depth) = new /\ entry.actor # NoActor
  BY DEF AddExposure
<1> HIDE DEF seen, here, exposures
<1>6. entry.actor # NoActor =>
      /\ new \in Samplings /\ new.exposures = exposures /\ new.seen = seen
      /\ new.items = acc.items /\ new.complete = acc.complete
  BY <1>2, <1>3, SamplingUpdates DEF Samplings
<1>7. key[1] = entry.uri
  OBVIOUS
<1> HIDE DEF cut, new, key
<1>8. CASE AddExposure(acc, entry, depth) = cut
  BY <1>4, <1>7, <1>8 DEF Adds
<1>9. CASE AddExposure(acc, entry, depth) = acc /\ key \in acc.seen /\ entry.actor # NoActor
  BY <1>7, <1>9 DEF Adds
<1>10. CASE AddExposure(acc, entry, depth) = new /\ entry.actor # NoActor
  <2>1. seen = acc.seen \cup {key}
    BY DEF seen, key
  <2> QED
    BY <1>3, <1>6, <1>7, <1>10, <2>1 DEF Adds
<1> QED
  BY <1>5, <1>8, <1>9, <1>10

\* The samplings along a chain of authors.
ChainRun(base, chain, n, h) ==
    /\ h \in [0..(n + 1) -> Samplings] /\ h[0] = base
    /\ \A k \in 1..(n + 1) : h[k] = AddExposure(h[k - 1], chain[k], k - 1)

\* The fold along a chain of authors is the last state of a run along it.
LEMMA ChainInTurn ==
    ASSUME NEW n \in Nat, NEW chain, \A k \in 1..(n + 1) : chain[k] \in Entries,
           NEW base \in Samplings
    PROVE  \E h : ChainRun(base, chain, n, h) /\ AddChain(base, chain, n) = h[n + 1]
<1> DEFINE m == n + 1
           s == [i \in 1..m |-> i - 1]
           next == [p \in Samplings \X (0..n) |-> AddExposure(p[1], chain[p[2] + 1], p[2])]
<1>1. s \in [1..m -> 0..n] /\ (\A k \in 1..m : s[k] = k - 1 /\ s[k] + 1 = k) /\ m \in Nat
  OBVIOUS
<1>2. next \in [Samplings \X (0..n) -> Samplings]
  <2>1. ASSUME NEW a \in Samplings, NEW d \in 0..n
        PROVE  AddExposure(a, chain[d + 1], d) \in Samplings
    <3>1. d + 1 \in 1..(n + 1) /\ d \in Nat
      OBVIOUS
    <3>2. chain[d + 1] \in Entries
      BY <3>1
    <3> QED
      BY <3>1, <3>2, AddExposureAdds DEF Adds
  <2> QED
    BY <2>1
<1>3. \A a \in Samplings, d \in 0..n : next[<<a, d>>] = AddExposure(a, chain[d + 1], d)
  OBVIOUS
<1> HIDE DEF next
<1> DEFINE step(g, T) == IF T = {} THEN base
                         ELSE AddExposure(g[T \ {Max(T)}], chain[s[Max(T)] + 1], s[Max(T)])
           iter == CHOOSE g : g = [T \in SUBSET (1..m) |-> step(g, T)]
<1>7. AddChain(base, chain, n) = iter[1..m]
  BY <1>1 DEF AddChain, FoldLeft, MapThenFoldSet
<1> HIDE DEF s, m
<1>4. PICK f \in [SUBSET (1..m) -> Samplings] : Solves(f, next, base, s, m)
  BY <1>1, <1>2, FoldExists
<1>5. f = [T \in SUBSET (1..m) |-> step(f, T)]
  <2>1. ASSUME NEW T \in SUBSET (1..m) PROVE f[T] = step(f, T)
    <3>1. CASE T = {}
      BY <1>4, <3>1 DEF Solves
    <3>2. CASE T # {}
      <4>1. Max(T) \in 1..m
        BY <1>1, <3>2, LastIsIn
      <4>2. f[T \ {Max(T)}] \in Samplings /\ s[Max(T)] \in 0..n
        BY <1>1, <4>1
      <4> QED
        BY <1>3, <1>4, <3>2, <4>2 DEF Solves
    <3> QED
      BY <3>1, <3>2
  <2> HIDE DEF step
  <2> QED
    BY <2>1
<1>6. iter = [T \in SUBSET (1..m) |-> step(iter, T)]
  <2> HIDE DEF step
  <2> QED
    BY <1>5
<1> HIDE DEF iter
<1> DEFINE h == [k \in 0..m |-> iter[1..k]]
<1>8. iter[1..0] = base
  BY <1>1, <1>6, UpTo
<1>9. ASSUME NEW k \in 1..m PROVE iter[1..k] = AddExposure(iter[1..(k - 1)], chain[k], k - 1)
  <2>1. /\ 1..k # {} /\ Max(1..k) = k /\ (1..k) \ {k} = 1..(k - 1) /\ 1..k \in SUBSET (1..m)
        /\ s[k] + 1 = k /\ s[k] = k - 1
    BY <1>1, UpTo
  <2>2. iter[1..k] = step(iter, 1..k)
    BY <1>6, <2>1
  <2> QED
    BY <2>1, <2>2
<1>10. /\ h[0] = base /\ h[m] = iter[1..m]
       /\ \A k \in 1..m : h[k] = AddExposure(h[k - 1], chain[k], k - 1)
  <2>1. \A k \in 0..m : h[k] = iter[1..k]
    OBVIOUS
  <2>2. m \in 0..m /\ 0 \in 0..m /\ \A k \in 1..m : k \in 0..m /\ k - 1 \in 0..m
    BY <1>1
  <2> HIDE DEF h
  <2> QED
    BY <1>8, <1>9, <2>1, <2>2
<1>11. h = [k \in 0..m |-> h[k]]
  OBVIOUS
<1> HIDE DEF h
<1>12. \A k \in 0..m : k \in {i \in 0..m : h[i] \in Samplings}
  <2>1. 0 \in {i \in 0..m : h[i] \in Samplings}
    BY <1>1, <1>10
  <2>2. ASSUME NEW k \in 1..m, h[k - 1] \in Samplings PROVE k \in 0..m /\ h[k] \in Samplings
    <3>1. chain[k] \in Entries /\ k - 1 \in Nat
      BY <1>1 DEF m
    <3>2. AddExposure(h[k - 1], chain[k], k - 1) \in Samplings
      BY <2>2, <3>1, AddExposureAdds DEF Adds
    <3> QED
      BY <1>1, <1>10, <3>2
  <2> QED
    BY <1>1, <2>1, <2>2, PrefixInduction
<1>13. h \in [0..m -> Samplings]
  BY <1>11, <1>12
<1> QED
  BY <1>7, <1>10, <1>13 DEF m, ChainRun


\* A uri names its author: what InputsAssumption says of the entries of a feed.
Named(entries) ==
    \A e, f \in entries : e.uri = f.uri => e.actor = f.actor \/ NoActor \in {e.actor, f.actor}

\* An entry met before is one whose author was taken.
SeenIsTaken(acc, entries) ==
    \A key \in acc.seen : \E e \in entries : e.uri = key[1] /\ e.actor \in Range(acc.exposures)

\* One author: when the sampling still calls itself complete, it is among the exposures.
Takes(entries, acc, entry, after) ==
    /\ after.items = acc.items /\ SeenIsTaken(after, entries)
    /\ Range(acc.exposures) \subseteq Range(after.exposures)
    /\ after.complete => acc.complete /\ entry.actor \in Range(after.exposures)

\* One author is taken, because a uri met before names the same author.
LEMMA AddedIsTaken ==
    ASSUME NEW acc \in Samplings, NEW entries \in SUBSET Entries, Named(entries),
           NEW entry \in entries, SeenIsTaken(acc, entries), NEW after, Adds(acc, entry, after)
    PROVE  Takes(entries, acc, entry, after)
<1>1. PICK key : key[1] = entry.uri /\
         \/ /\ after.exposures = acc.exposures /\ after.seen = acc.seen
            /\ after.complete => acc.complete /\ key \in acc.seen /\ entry.actor # NoActor
         \/ /\ Range(after.exposures) = Range(acc.exposures) \cup {entry.actor}
            /\ after.seen = acc.seen \cup {key} /\ after.complete = acc.complete
            /\ entry.actor # NoActor
  BY DEF Adds
<1>6. after.items = acc.items
  BY DEF Adds
<1>2. acc.exposures \in Seq(Subjects) /\ NoActor \notin Subjects
  BY ReadingAssumption DEF Samplings
<1>3. Range(acc.exposures) \subseteq Subjects
  BY <1>2, RangeOf
<1>4. CASE /\ after.exposures = acc.exposures /\ after.seen = acc.seen
           /\ after.complete => acc.complete /\ key \in acc.seen /\ entry.actor # NoActor
  <2>1. ASSUME key \in acc.seen, entry.actor # NoActor PROVE entry.actor \in Range(acc.exposures)
    <3>1. PICK e \in entries : e.uri = entry.uri /\ e.actor \in Range(acc.exposures)
      BY <1>1, <2>1 DEF SeenIsTaken
    <3>2. e.actor # NoActor
      BY <1>2, <1>3, <3>1
    <3> QED
      BY <2>1, <3>1, <3>2 DEF Named
  <2> QED
    BY <1>4, <1>6, <2>1 DEF Takes, SeenIsTaken
<1>5. CASE /\ Range(after.exposures) = Range(acc.exposures) \cup {entry.actor}
           /\ after.seen = acc.seen \cup {key} /\ after.complete = acc.complete
           /\ entry.actor # NoActor
  <2>1. SeenIsTaken(after, entries)
    BY <1>1, <1>5 DEF SeenIsTaken
  <2> QED
    BY <1>5, <1>6, <2>1 DEF Takes
<1> QED
  BY <1>1, <1>4, <1>5

\* A chain of authors.
TakesChain(entries, base, chain, n, after) ==
    /\ after.items = base.items /\ SeenIsTaken(after, entries)
    /\ Range(base.exposures) \subseteq Range(after.exposures)
    /\ after.complete =>
          base.complete /\ \A k \in 1..(n + 1) : chain[k].actor \in Range(after.exposures)

\* Every author of a chain is taken, or the sampling says it was cut short.
LEMMA ChainIsTaken ==
    ASSUME NEW n \in Nat, NEW entries \in SUBSET Entries, Named(entries),
           NEW chain, \A k \in 1..(n + 1) : chain[k] \in entries, NEW base \in Samplings,
           SeenIsTaken(base, entries)
    PROVE  TakesChain(entries, base, chain, n, AddChain(base, chain, n))
<1>1. \A k \in 1..(n + 1) : chain[k] \in Entries
  OBVIOUS
<1>a. PICK h : ChainRun(base, chain, n, h) /\ AddChain(base, chain, n) = h[n + 1]
  BY <1>1, ChainInTurn
<1>2. /\ h \in [0..(n + 1) -> Samplings] /\ h[0] = base
      /\ \A k \in 1..(n + 1) : h[k] = AddExposure(h[k - 1], chain[k], k - 1)
      /\ AddChain(base, chain, n) = h[n + 1]
  BY <1>a DEF ChainRun
<1> DEFINE Good(k) ==
             /\ h[k].items = base.items /\ SeenIsTaken(h[k], entries)
             /\ Range(base.exposures) \subseteq Range(h[k].exposures)
             /\ h[k].complete =>
                  base.complete /\ \A j \in 1..k : chain[j].actor \in Range(h[k].exposures)
<1>3. Good(0)
  BY <1>2
<1>4. ASSUME NEW k \in 1..(n + 1), Good(k - 1) PROVE Good(k)
  <2>1. /\ k - 1 \in 0..(n + 1) /\ k - 1 \in Nat /\ chain[k] \in entries
        /\ \A j \in 1..k : j = k \/ j \in 1..(k - 1)
    OBVIOUS
  <2>2. h[k] = AddExposure(h[k - 1], chain[k], k - 1) /\ h[k - 1] \in Samplings
    BY <1>2, <2>1
  <2>3. /\ h[k].items = h[k - 1].items /\ SeenIsTaken(h[k], entries)
        /\ Range(h[k - 1].exposures) \subseteq Range(h[k].exposures)
        /\ h[k].complete => h[k - 1].complete /\ chain[k].actor \in Range(h[k].exposures)
    <3>1. SeenIsTaken(h[k - 1], entries)
      BY <1>4
    <3> HIDE DEF Good
    <3>2. Adds(h[k - 1], chain[k], h[k])
      BY <2>1, <2>2, AddExposureAdds
    <3>3. Takes(entries, h[k - 1], chain[k], h[k])
      BY <2>1, <2>2, <3>1, <3>2, AddedIsTaken
    <3> QED
      BY <3>3 DEF Takes
  <2> QED
    BY <1>4, <2>1, <2>3
<1> HIDE DEF Good
<1>5. \A k \in 0..(n + 1) : k \in {i \in 0..(n + 1) : Good(i)}
  <2>1. n + 1 \in Nat
    OBVIOUS
  <2>2. 0 \in {i \in 0..(n + 1) : Good(i)}
    BY <1>3
  <2>3. \A k \in 1..(n + 1) : k - 1 \in {i \in 0..(n + 1) : Good(i)} => k \in {i \in 0..(n + 1) : Good(i)}
    BY <1>4
  <2> QED
    BY <2>1, <2>2, <2>3, PrefixInduction
<1>6. Good(n + 1) /\ h[n + 1] \in Samplings
  BY <1>2, <1>5
<1> QED
  BY <1>2, <1>6 DEF Good, TakesChain

\* The chain of a post: its author and those of its quotes.
LEMMA ChainOf ==
    ASSUME NEW post \in Posts
    PROVE  /\ Chain(post) \in Seq(Entries) /\ Len(Chain(post)) = Len(post.quotes) + 1
           /\ Len(post.quotes) \in Nat /\ DOMAIN Chain(post) = 1..(Len(post.quotes) + 1)
BY DEF Posts, Chain

\* A post: its lineage is an item, and when the sampling still calls itself complete,
\* its author and those of all its quotes are among the exposures.
TakesItem(entries, acc, post, after) ==
    /\ SeenIsTaken(after, entries) /\ Range(acc.exposures) \subseteq Range(after.exposures)
    /\ after.complete =>
          /\ acc.complete /\ after.items = Append(acc.items, Lineage(post.own, post.raw, post.view))
          /\ Len(post.quotes) <= MaxQuoteDepth
          /\ \A k \in DOMAIN Chain(post) : Chain(post)[k].actor \in Range(after.exposures)

\* A post is taken, with all its quotes unless the sampling says it was cut short.
LEMMA ItemIsTaken ==
    ASSUME NEW acc \in Samplings, NEW post \in Posts
    PROVE  /\ AddItem(acc, post) \in Samplings
           /\ \A entries \in SUBSET Entries :
                Named(entries) /\ Range(Chain(post)) \subseteq entries /\ SeenIsTaken(acc, entries)
                  => TakesItem(entries, acc, post, AddItem(acc, post))
<1> DEFINE items == Append(acc.items, Lineage(post.own, post.raw, post.view))
           within == acc.complete /\ Len(post.quotes) <= MaxQuoteDepth
           cut == [acc EXCEPT !.complete = FALSE]
           next == [acc EXCEPT !.here = 0, !.items = items, !.complete = within]
           depth == Least(Len(post.quotes), MaxQuoteDepth)
           after == AddChain(next, Chain(post), depth)
<1>1. AddItem(acc, post) = IF post.author.actor = NoActor THEN cut ELSE after
  BY DEF AddItem
<1>2. items \in Seq(Lineages) /\ within \in BOOLEAN
  <2>1. Lineage(post.own, post.raw, post.view) \in Lineages
    BY DEF Lineages, Posts
  <2> QED
    BY <2>1 DEF Samplings
<1> HIDE DEF items, within
<1>3. /\ cut \in Samplings /\ cut.exposures = acc.exposures /\ cut.seen = acc.seen
      /\ cut.complete = FALSE
      /\ next \in Samplings /\ next.exposures = acc.exposures /\ next.seen = acc.seen
      /\ next.items = items /\ next.complete = within
  BY <1>2, SamplingUpdates DEF Samplings
<1> HIDE DEF cut, next
<1>4. CASE post.author.actor = NoActor
  BY <1>1, <1>3, <1>4 DEF TakesItem, SeenIsTaken
<1>5. CASE post.author.actor # NoActor
  <2>1. /\ depth \in Nat /\ depth <= Len(post.quotes)
        /\ Len(post.quotes) <= MaxQuoteDepth => depth = Len(post.quotes)
    BY ChainOf, SamplingAssumption DEF Least
  <2>2. \A k \in 1..(depth + 1) : Chain(post)[k] \in Range(Chain(post)) /\ Chain(post)[k] \in Entries
    BY <2>1, ChainOf DEF Range
  <2> HIDE DEF depth
  <2>3. after \in Samplings
    <3>1. PICK h : ChainRun(next, Chain(post), depth, h) /\ after = h[depth + 1]
      BY <1>3, <2>1, <2>2, ChainInTurn
    <3>2. depth + 1 \in 0..(depth + 1)
      BY <2>1
    <3> QED
      BY <3>1, <3>2 DEF ChainRun
  <2>4. ASSUME NEW entries \in SUBSET Entries, Named(entries),
               Range(Chain(post)) \subseteq entries, SeenIsTaken(acc, entries)
        PROVE  TakesItem(entries, acc, post, after)
    <3>1. SeenIsTaken(next, entries)
      BY <1>3, <2>4 DEF SeenIsTaken
    <3>2. \A k \in 1..(depth + 1) : Chain(post)[k] \in entries
      BY <2>2, <2>4
    <3>3. TakesChain(entries, next, Chain(post), depth, after)
      BY <1>3, <2>1, <2>4, <3>1, <3>2, ChainIsTaken
    <3> HIDE DEF after
    <3> QED
      BY <1>3, <2>1, <3>3, ChainOf DEF TakesItem, TakesChain, items, within
  <2> QED
    BY <1>1, <1>5, <2>3, <2>4
<1> QED
  BY <1>4, <1>5

Blank == [exposures |-> <<>>, items |-> <<>>, seen |-> {}, here |-> 0, complete |-> TRUE]

\* The samplings along the posts of a feed.
ItemRun(posts, h) ==
    /\ h \in [0..Len(posts) -> Samplings] /\ h[0] = Blank
    /\ \A k \in 1..Len(posts) : h[k] = AddItem(h[k - 1], posts[k])

\* The fold along the posts of a feed is the last state of a run along them.
LEMMA ItemsInTurn ==
    ASSUME NEW posts \in Seq(Posts)
    PROVE  \E h : ItemRun(posts, h) /\ Extract(posts) = h[Len(posts)]
<1> DEFINE m == Len(posts)
           next == [p \in Samplings \X Posts |-> AddItem(p[1], p[2])]
<1>1. m \in Nat /\ DOMAIN posts = 1..m /\ posts \in [1..m -> Posts]
  OBVIOUS
<1>2. next \in [Samplings \X Posts -> Samplings]
  BY ItemIsTaken
<1>3. \A a \in Samplings, p \in Posts : next[<<a, p>>] = AddItem(a, p)
  OBVIOUS
<1> HIDE DEF next
<1>b. Blank \in Samplings
  BY DEF Blank, Samplings
<1> DEFINE step(g, T) == IF T = {} THEN Blank ELSE AddItem(g[T \ {Max(T)}], posts[Max(T)])
           iter == CHOOSE g : g = [T \in SUBSET (1..m) |-> step(g, T)]
<1>7. Extract(posts) = iter[1..m]
  BY <1>1 DEF Extract, FoldLeft, MapThenFoldSet, Blank
<1> HIDE DEF m
<1>4. PICK f \in [SUBSET (1..m) -> Samplings] : Solves(f, next, Blank, posts, m)
  BY <1>b, <1>1, <1>2, FoldExists
<1>5. f = [T \in SUBSET (1..m) |-> step(f, T)]
  <2>1. ASSUME NEW T \in SUBSET (1..m) PROVE f[T] = step(f, T)
    <3>1. CASE T = {}
      BY <1>4, <3>1 DEF Solves
    <3>2. CASE T # {}
      <4>1. Max(T) \in 1..m
        BY <1>1, <3>2, LastIsIn
      <4>2. f[T \ {Max(T)}] \in Samplings /\ posts[Max(T)] \in Posts
        BY <1>1, <4>1
      <4> QED
        BY <1>3, <1>4, <3>2, <4>2 DEF Solves
    <3> QED
      BY <3>1, <3>2
  <2> HIDE DEF step
  <2> QED
    BY <2>1
<1>6. iter = [T \in SUBSET (1..m) |-> step(iter, T)]
  <2> HIDE DEF step
  <2> QED
    BY <1>5
<1> HIDE DEF iter
<1> DEFINE h == [k \in 0..m |-> iter[1..k]]
<1>8. iter[1..0] = Blank
  BY <1>1, <1>6, UpTo
<1>9. ASSUME NEW k \in 1..m PROVE iter[1..k] = AddItem(iter[1..(k - 1)], posts[k])
  <2>1. 1..k # {} /\ Max(1..k) = k /\ (1..k) \ {k} = 1..(k - 1) /\ 1..k \in SUBSET (1..m)
    BY <1>1, UpTo
  <2>2. iter[1..k] = step(iter, 1..k)
    BY <1>6, <2>1
  <2> QED
    BY <2>1, <2>2
<1>10. /\ h[0] = Blank /\ h[m] = iter[1..m]
       /\ \A k \in 1..m : h[k] = AddItem(h[k - 1], posts[k])
  <2>1. \A k \in 0..m : h[k] = iter[1..k]
    OBVIOUS
  <2>2. m \in 0..m /\ 0 \in 0..m /\ \A k \in 1..m : k \in 0..m /\ k - 1 \in 0..m
    BY <1>1
  <2> HIDE DEF h
  <2> QED
    BY <1>8, <1>9, <2>1, <2>2
<1>11. h = [k \in 0..m |-> h[k]]
  OBVIOUS
<1> HIDE DEF h
<1>12. \A k \in 0..m : k \in {i \in 0..m : h[i] \in Samplings}
  <2>1. 0 \in {i \in 0..m : h[i] \in Samplings}
    BY <1>b, <1>1, <1>10
  <2>2. ASSUME NEW k \in 1..m, h[k - 1] \in Samplings PROVE k \in 0..m /\ h[k] \in Samplings
    BY <1>1, <1>10, <2>2, ItemIsTaken
  <2> QED
    BY <1>1, <2>1, <2>2, PrefixInduction
<1>13. h \in [0..m -> Samplings]
  BY <1>11, <1>12
<1> QED
  BY <1>7, <1>10, <1>13 DEF m, ItemRun

\* What is sample in the posts of a feed: unless the sampling says it was cut short,
\* the lineage of every post and the authors of it and of all its quotes.
Finds(sample, posts) ==
    sample.complete =>
        /\ Len(sample.items) = Len(posts)
        /\ \A k \in 1..Len(posts) :
             /\ sample.items[k] = Lineage(posts[k].own, posts[k].raw, posts[k].view)
             /\ Len(posts[k].quotes) <= MaxQuoteDepth
             /\ \A i \in DOMAIN Chain(posts[k]) : Chain(posts[k])[i].actor \in Range(sample.exposures)

\* What the walk returns finds what it should, for any posts in which a uri names
\* its author.
LEMMA ExtractFinds ==
    ASSUME NEW posts \in Seq(Posts), Named(EntriesOf(posts))
    PROVE  Extract(posts) \in Samplings /\ Finds(Extract(posts), posts)
<1> DEFINE entries == EntriesOf(posts)
           m == Len(posts)
<1>1. m \in Nat /\ DOMAIN posts = 1..m /\ \A k \in 1..m : posts[k] \in Posts
  OBVIOUS
<1>2. entries \in SUBSET Entries /\ \A k \in 1..m : Range(Chain(posts[k])) \subseteq entries
  <2>1. \A k \in 1..m : Range(Chain(posts[k])) \subseteq Entries
    BY <1>1, ChainOf, RangeOf
  <2> QED
    BY <1>1, <2>1 DEF EntriesOf
<1>3. PICK h : ItemRun(posts, h) /\ Extract(posts) = h[m]
  BY ItemsInTurn
<1>4. /\ \A k \in 0..m : h[k] \in Samplings
      /\ h[0] = Blank
      /\ \A k \in 1..m : h[k] = AddItem(h[k - 1], posts[k])
  BY <1>3 DEF ItemRun
<1> DEFINE Good(k) ==
             /\ SeenIsTaken(h[k], entries)
             /\ h[k].complete =>
                  /\ Len(h[k].items) = k
                  /\ \A j \in 1..k :
                       /\ h[k].items[j] = Lineage(posts[j].own, posts[j].raw, posts[j].view)
                       /\ Len(posts[j].quotes) <= MaxQuoteDepth
                       /\ \A i \in DOMAIN Chain(posts[j]) :
                             Chain(posts[j])[i].actor \in Range(h[k].exposures)
<1> HIDE DEF entries, m
<1>5. Good(0)
  BY <1>4 DEF Blank, SeenIsTaken
<1>6. ASSUME NEW k \in 1..m, Good(k - 1) PROVE Good(k)
  <2>1. /\ k - 1 \in 0..m /\ k - 1 \in Nat /\ k \in 0..m /\ (k - 1) + 1 = k /\ posts[k] \in Posts
        /\ \A j \in 1..k : j = k \/ j \in 1..(k - 1)
    BY <1>1
  <2>2. SeenIsTaken(h[k - 1], entries)
    BY <1>6
  <2>3. TakesItem(entries, h[k - 1], posts[k], h[k])
    BY <1>1, <1>2, <1>4, <2>1, <2>2, ItemIsTaken DEF entries
  <2>4. /\ SeenIsTaken(h[k], entries) /\ Range(h[k - 1].exposures) \subseteq Range(h[k].exposures)
        /\ h[k].complete =>
              /\ h[k - 1].complete
              /\ h[k].items = Append(h[k - 1].items, Lineage(posts[k].own, posts[k].raw, posts[k].view))
              /\ Len(posts[k].quotes) <= MaxQuoteDepth
              /\ \A i \in DOMAIN Chain(posts[k]) :
                    Chain(posts[k])[i].actor \in Range(h[k].exposures)
    BY <2>3 DEF TakesItem
  <2>5. SUFFICES ASSUME h[k].complete
                 PROVE  /\ Len(h[k].items) = k
                        /\ \A j \in 1..k :
                             /\ h[k].items[j] = Lineage(posts[j].own, posts[j].raw, posts[j].view)
                             /\ Len(posts[j].quotes) <= MaxQuoteDepth
                             /\ \A i \in DOMAIN Chain(posts[j]) :
                                   Chain(posts[j])[i].actor \in Range(h[k].exposures)
    BY <2>4
  <2>6. h[k - 1].items \in Seq(Lineages)
    BY <1>4, <2>1 DEF Samplings
  <2>7. /\ Len(h[k - 1].items) = k - 1
        /\ \A j \in 1..(k - 1) :
             /\ h[k - 1].items[j] = Lineage(posts[j].own, posts[j].raw, posts[j].view)
             /\ Len(posts[j].quotes) <= MaxQuoteDepth
             /\ \A i \in DOMAIN Chain(posts[j]) :
                   Chain(posts[j])[i].actor \in Range(h[k].exposures)
    BY <1>6, <2>4, <2>5
  <2>8. /\ Len(h[k].items) = k /\ h[k].items[k] = Lineage(posts[k].own, posts[k].raw, posts[k].view)
        /\ \A j \in 1..(k - 1) : h[k].items[j] = h[k - 1].items[j]
    <3> DEFINE before == h[k - 1].items
               item == Lineage(posts[k].own, posts[k].raw, posts[k].view)
    <3>1. before \in Seq(Lineages) /\ Len(before) = k - 1 /\ h[k].items = Append(before, item)
      BY <2>4, <2>5, <2>6, <2>7
    <3>2. item \in Lineages
      BY <2>1 DEF Lineages, Posts
    <3> HIDE DEF before, item
    <3>3. LET s == Append(before, item) IN
            Len(s) = k /\ s[k] = item /\ \A j \in 1..(k - 1) : s[j] = before[j]
      BY <2>1, <3>1, <3>2
    <3> QED
      BY <3>1, <3>3 DEF before, item
  <2> QED
    BY <2>1, <2>4, <2>5, <2>7, <2>8
<1> HIDE DEF Good
<1>7. \A k \in 0..m : k \in {i \in 0..m : Good(i)}
  <2>1. 0 \in {i \in 0..m : Good(i)}
    BY <1>1, <1>5
  <2>2. \A k \in 1..m : k - 1 \in {i \in 0..m : Good(i)} => k \in {i \in 0..m : Good(i)}
    BY <1>6
  <2> QED
    BY <1>1, <2>1, <2>2, PrefixInduction
<1>8. Good(m) /\ h[m] \in Samplings
  BY <1>1, <1>4, <1>7
<1>9. Finds(h[m], posts)
  BY <1>8 DEF Good, Finds, m
<1> QED
  BY <1>3, <1>8, <1>9

-----------------------------------------------------------------------------
(***************************************************************************)
(* What a row keeps of it: at most so many exposures, each counted and kept *)
(* once (the loop over the exposures of a feed).                           *)
(***************************************************************************)

\* The rows of a discovery.
Rows == [exposures : Seq(Subjects), items : Seq(Lineages), complete : BOOLEAN]

\* Finitely many finite sets make a finite one.
LEMMA FamilyIsFinite ==
    ASSUME NEW n \in Nat, NEW F, DOMAIN F = 1..n, \A i \in 1..n : IsFiniteSet(F[i])
    PROVE  IsFiniteSet(UNION {F[i] : i \in 1..n})
<1> DEFINE U(k) == UNION {F[i] : i \in 1..k}
           S == {k \in 0..n : IsFiniteSet(U(k))}
<1>1. U(0) = {} /\ \A k \in 1..n : U(k) = U(k - 1) \cup F[k]
  OBVIOUS
<1> HIDE DEF U
<1>2. 0 \in S
  <2>1. IsFiniteSet(U(0))
    BY <1>1, FS_EmptySet, Zenon
  <2> QED
    BY <2>1
<1>3. ASSUME NEW k \in 1..n, k - 1 \in S PROVE k \in S
  <2>1. IsFiniteSet(U(k - 1)) /\ IsFiniteSet(F[k]) /\ U(k) = U(k - 1) \cup F[k] /\ k \in 0..n
    BY <1>1, <1>3
  <2>2. IsFiniteSet(U(k - 1) \cup F[k])
    BY <2>1, FS_Union
  <2>3. IsFiniteSet(U(k))
    BY <2>1, <2>2, Zenon
  <2> QED
    BY <2>1, <2>3
<1> HIDE DEF S
<1>4. \A k \in 0..n : k \in S
  BY <1>2, <1>3, PrefixInduction
<1>5. n \in S
  BY <1>4
<1> QED
  BY <1>5 DEF S, U

\* The positions up to n under one tag, and their number.
LEMMA TaggedIsFinite ==
    ASSUME NEW tag, NEW n \in Nat
    PROVE  IsFiniteSet({tag} \X (1..n))
<1>1. IsFiniteSet({tag})
  BY FS_Singleton, Zenon
<1>2. IsFiniteSet(1..n)
  <2>1. 1 \in Int /\ n \in Int
    OBVIOUS
  <2> QED
    BY <2>1, FS_Interval, Zenon
<1> QED
  BY <1>1, <1>2, FS_Product, Zenon

LEMMA TaggedAreCounted ==
    ASSUME NEW tag, NEW n \in Nat
    PROVE  Cardinality({tag} \X (1..n)) = n
<1>1. IsFiniteSet({tag}) /\ Cardinality({tag}) = 1
  BY FS_Singleton, Zenon
<1>2. IsFiniteSet(1..n) /\ Cardinality(1..n) = n
  <2> DEFINE c == Cardinality(1..n)
  <2>1. 1 \in Int /\ n \in Int
    OBVIOUS
  <2>2. IsFiniteSet(1..n) /\ c = IF 1 > n THEN 0 ELSE n - 1 + 1
    BY <2>1, FS_Interval, Zenon
  <2> HIDE DEF c
  <2>3. c = n
    BY <2>2
  <2> QED
    BY <2>2, <2>3 DEF c
<1>3. Cardinality({tag} \X (1..n)) = Cardinality({tag}) * Cardinality(1..n)
  BY <1>1, <1>2, FS_Product, Zenon
<1>4. Cardinality({tag} \X (1..n)) = 1 * n
  BY <1>1, <1>2, <1>3, Zenon
<1> QED
  <2> DEFINE c == Cardinality({tag} \X (1..n))
  <2>1. c = 1 * n
    BY <1>4
  <2> HIDE DEF c
  <2>2. c = n
    BY <2>1
  <2> QED
    BY <2>2 DEF c

\* The exposures of the rows so far have a number, and their actors are subjects.
LEMMA CountIsCounted ==
    ASSUME NEW before \in Seq(Rows)
    PROVE  CountOf(before) \in Nat /\ SubjectsOf(before) \in SUBSET Subjects
<1>1. /\ Len(before) \in Nat /\ DOMAIN before = 1..Len(before)
      /\ \A i \in 1..Len(before) : before[i] \in Rows
  OBVIOUS
<1>2. \A i \in 1..Len(before) : before[i].exposures \in Seq(Subjects)
  BY <1>1 DEF Rows
<1> DEFINE F == [i \in 1..Len(before) |-> {i} \X DOMAIN before[i].exposures]
<1>3. ASSUME NEW i \in 1..Len(before) PROVE IsFiniteSet({i} \X DOMAIN before[i].exposures)
  <2>1. DOMAIN before[i].exposures = 1..Len(before[i].exposures) /\ Len(before[i].exposures) \in Nat
    BY <1>2
  <2> QED
    BY <2>1, TaggedIsFinite, Zenon
<1>4. IsFiniteSet(UNION {F[i] : i \in 1..Len(before)})
  BY <1>1, <1>3, FamilyIsFinite
<1>5. UNION {F[i] : i \in 1..Len(before)} =
      UNION {{i} \X DOMAIN before[i].exposures : i \in DOMAIN before}
  BY <1>1
<1>6. CountOf(before) \in Nat
  BY <1>4, <1>5, FS_CardinalityType DEF CountOf
<1>7. SubjectsOf(before) \in SUBSET Subjects
  BY <1>1, <1>2, RangeOf DEF SubjectsOf
<1> QED
  BY <1>6, <1>7

Keepings == [kept : Seq(Subjects), bounded : BOOLEAN, count : Nat, subjects : SUBSET Subjects]

\* What keeping one exposure changes, field by field.
LEMMA KeepingUpdates ==
    ASSUME NEW A, NEW C, NEW D,
           NEW r \in [kept : A, bounded : BOOLEAN, count : C, subjects : D],
           NEW a \in A, NEW b \in BOOLEAN, NEW c \in C, NEW d \in D
    PROVE  /\ [r EXCEPT !.bounded = b] \in [kept : A, bounded : BOOLEAN, count : C, subjects : D]
           /\ [r EXCEPT !.bounded = b].bounded = b
           /\ [r EXCEPT !.count = c, !.subjects = d, !.kept = a]
                \in [kept : A, bounded : BOOLEAN, count : C, subjects : D]
           /\ [r EXCEPT !.count = c, !.subjects = d, !.kept = a].kept = a
           /\ [r EXCEPT !.count = c, !.subjects = d, !.kept = a].bounded = r.bounded
OBVIOUS

\* An exposure is kept, or the row is bounded.
KeepsActor(acc, actor, after) ==
    /\ after \in Keepings
    /\ ~after.bounded => /\ ~acc.bounded /\ Range(acc.kept) \subseteq Range(after.kept)
                         /\ actor \in Range(after.kept)

\* One exposure is kept, or the row is bounded.
LEMMA KeepExposureKeeps ==
    ASSUME NEW acc \in Keepings, NEW actor \in Subjects
    PROVE  KeepsActor(acc, actor, KeepExposure(acc, actor))
<1> DEFINE kept == Append(acc.kept, actor)
           subjects == acc.subjects \cup {actor}
           count == acc.count + 1
           cut == [acc EXCEPT !.bounded = TRUE]
           next == [acc EXCEPT !.count = count, !.subjects = subjects, !.kept = kept]
<1>1. KeepExposure(acc, actor) = cut \/ KeepExposure(acc, actor) = next
  BY DEF KeepExposure
<1>2. /\ kept \in Seq(Subjects) /\ Range(kept) = Range(acc.kept) \cup {actor}
      /\ subjects \in SUBSET Subjects /\ count \in Nat
  <2>1. acc.kept \in Seq(Subjects) /\ acc.subjects \in SUBSET Subjects /\ acc.count \in Nat
    BY DEF Keepings
  <2> QED
    BY <2>1, RangeOf
<1> HIDE DEF kept, subjects, count
<1>3. /\ cut \in Keepings /\ cut.bounded = TRUE
      /\ next \in Keepings /\ next.kept = kept /\ next.bounded = acc.bounded
  BY <1>2, KeepingUpdates DEF Keepings
<1> HIDE DEF cut, next
<1> QED
  BY <1>1, <1>2, <1>3 DEF KeepsActor

\* What is kept along the exposures of a feed.
KeepRun(exposures, before, h) ==
    /\ h \in [0..Len(exposures) -> Keepings]
    /\ h[0] = [kept |-> <<>>, bounded |-> FALSE, count |-> CountOf(before),
               subjects |-> SubjectsOf(before)]
    /\ \A k \in 1..Len(exposures) : h[k] = KeepExposure(h[k - 1], exposures[k])

\* The fold along the exposures is the last state of a run along them.
LEMMA KeepsInTurn ==
    ASSUME NEW exposures \in Seq(Subjects), NEW before \in Seq(Rows)
    PROVE  \E h : KeepRun(exposures, before, h) /\ Keep(exposures, before) = h[Len(exposures)]
<1> DEFINE m == Len(exposures)
           start == [kept |-> <<>>, bounded |-> FALSE, count |-> CountOf(before),
                     subjects |-> SubjectsOf(before)]
           next == [p \in Keepings \X Subjects |-> KeepExposure(p[1], p[2])]
<1>1. m \in Nat /\ DOMAIN exposures = 1..m /\ exposures \in [1..m -> Subjects]
  OBVIOUS
<1>2. next \in [Keepings \X Subjects -> Keepings]
  BY KeepExposureKeeps DEF KeepsActor
<1>3. \A a \in Keepings, p \in Subjects : next[<<a, p>>] = KeepExposure(a, p)
  OBVIOUS
<1> HIDE DEF next
<1>b. start \in Keepings
  BY CountIsCounted DEF Keepings
<1> DEFINE step(g, T) == IF T = {} THEN start ELSE KeepExposure(g[T \ {Max(T)}], exposures[Max(T)])
           iter == CHOOSE g : g = [T \in SUBSET (1..m) |-> step(g, T)]
<1>7. Keep(exposures, before) = iter[1..m]
  BY <1>1 DEF Keep, FoldLeft, MapThenFoldSet
<1> HIDE DEF m, start
<1>4. PICK f \in [SUBSET (1..m) -> Keepings] : Solves(f, next, start, exposures, m)
  BY <1>b, <1>1, <1>2, FoldExists
<1>5. f = [T \in SUBSET (1..m) |-> step(f, T)]
  <2>1. ASSUME NEW T \in SUBSET (1..m) PROVE f[T] = step(f, T)
    <3>1. CASE T = {}
      BY <1>4, <3>1 DEF Solves
    <3>2. CASE T # {}
      <4>1. Max(T) \in 1..m
        BY <1>1, <3>2, LastIsIn
      <4>2. f[T \ {Max(T)}] \in Keepings /\ exposures[Max(T)] \in Subjects
        BY <1>1, <4>1
      <4> QED
        BY <1>3, <1>4, <3>2, <4>2 DEF Solves
    <3> QED
      BY <3>1, <3>2
  <2> HIDE DEF step
  <2> QED
    BY <2>1
<1>6. iter = [T \in SUBSET (1..m) |-> step(iter, T)]
  <2> HIDE DEF step
  <2> QED
    BY <1>5
<1> HIDE DEF iter
<1> DEFINE h == [k \in 0..m |-> iter[1..k]]
<1>8. iter[1..0] = start
  BY <1>1, <1>6, UpTo
<1>9. ASSUME NEW k \in 1..m PROVE iter[1..k] = KeepExposure(iter[1..(k - 1)], exposures[k])
  <2>1. 1..k # {} /\ Max(1..k) = k /\ (1..k) \ {k} = 1..(k - 1) /\ 1..k \in SUBSET (1..m)
    BY <1>1, UpTo
  <2>2. iter[1..k] = step(iter, 1..k)
    BY <1>6, <2>1
  <2> QED
    BY <2>1, <2>2
<1>10. /\ h[0] = start /\ h[m] = iter[1..m]
       /\ \A k \in 1..m : h[k] = KeepExposure(h[k - 1], exposures[k])
  <2>1. \A k \in 0..m : h[k] = iter[1..k]
    OBVIOUS
  <2>2. m \in 0..m /\ 0 \in 0..m /\ \A k \in 1..m : k \in 0..m /\ k - 1 \in 0..m
    BY <1>1
  <2> HIDE DEF h
  <2> QED
    BY <1>8, <1>9, <2>1, <2>2
<1>11. h = [k \in 0..m |-> h[k]]
  OBVIOUS
<1> HIDE DEF h
<1>12. \A k \in 0..m : k \in {i \in 0..m : h[i] \in Keepings}
  <2>1. 0 \in {i \in 0..m : h[i] \in Keepings}
    BY <1>b, <1>1, <1>10
  <2>2. ASSUME NEW k \in 1..m, h[k - 1] \in Keepings PROVE k \in 0..m /\ h[k] \in Keepings
    BY <1>1, <1>10, <2>2, KeepExposureKeeps DEF KeepsActor
  <2> QED
    BY <1>1, <2>1, <2>2, PrefixInduction
<1>13. h \in [0..m -> Keepings]
  BY <1>11, <1>12
<1> QED
  BY <1>7, <1>10, <1>13 DEF m, start, KeepRun

\* A row that is not bounded keeps every exposure.
LEMMA KeepKeeps ==
    ASSUME NEW exposures \in Seq(Subjects), NEW before \in Seq(Rows)
    PROVE  /\ Keep(exposures, before) \in Keepings
           /\ ~Keep(exposures, before).bounded =>
                Range(exposures) \subseteq Range(Keep(exposures, before).kept)
<1> DEFINE m == Len(exposures)
<1>1. m \in Nat /\ DOMAIN exposures = 1..m /\ \A k \in 1..m : exposures[k] \in Subjects
  OBVIOUS
<1>2. PICK h : KeepRun(exposures, before, h) /\ Keep(exposures, before) = h[m]
  BY KeepsInTurn
<1>3. /\ \A k \in 0..m : h[k] \in Keepings
      /\ \A k \in 1..m : h[k] = KeepExposure(h[k - 1], exposures[k])
  BY <1>2 DEF KeepRun
<1> HIDE DEF m
<1> DEFINE Good(k) == ~h[k].bounded => \A j \in 1..k : exposures[j] \in Range(h[k].kept)
<1>4. Good(0)
  OBVIOUS
<1>5. ASSUME NEW k \in 1..m, Good(k - 1) PROVE Good(k)
  <2>1. k - 1 \in 0..m /\ exposures[k] \in Subjects /\ \A j \in 1..k : j = k \/ j \in 1..(k - 1)
    BY <1>1
  <2>2. KeepsActor(h[k - 1], exposures[k], h[k])
    BY <1>3, <2>1, KeepExposureKeeps
  <2> QED
    BY <1>5, <2>1, <2>2 DEF KeepsActor
<1> HIDE DEF Good
<1>6. \A k \in 0..m : k \in {i \in 0..m : Good(i)}
  <2>1. 0 \in {i \in 0..m : Good(i)}
    BY <1>1, <1>4
  <2>2. \A k \in 1..m : k - 1 \in {i \in 0..m : Good(i)} => k \in {i \in 0..m : Good(i)}
    BY <1>5
  <2> QED
    BY <1>1, <2>1, <2>2, PrefixInduction
<1>7. Good(m) /\ h[m] \in Keepings
  BY <1>1, <1>3, <1>6
<1>8. ~h[m].bounded => Range(exposures) \subseteq Range(h[m].kept)
  BY <1>1, <1>7 DEF Good, Range
<1> QED
  BY <1>2, <1>7, <1>8

-----------------------------------------------------------------------------
(***************************************************************************)
(* The bound on what a discovery retains: rounds that cut every row by a   *)
(* quarter, which end because a quarter less is less.                      *)
(***************************************************************************)

\* Some numbers have a least one.
LEMMA LeastOf ==
    ASSUME NEW T \in SUBSET Nat, T # {}
    PROVE  \E m \in T : \A y \in 0..(m - 1) : y \notin T
<1>1. PICK m \in T : \A y \in T : ~ (<<y, m>> \in OpToRel(<, Nat))
  BY NatLessThanWellFounded, WFMin
<1>2. \A y \in Nat : y < m => <<y, m>> \in OpToRel(<, Nat)
  BY DEF OpToRel
<1>3. \A y \in 0..(m - 1) : y \in Nat /\ y < m
  OBVIOUS
<1> QED
  BY <1>1, <1>2, <1>3

\* A quarter less is less, until nothing is left.
LEMMA QuarterOff ==
    ASSUME NEW x \in Nat
    PROVE  /\ (x * 3) \div 4 \in Nat /\ (x * 3) \div 4 <= x
           /\ x > 0 => (x * 3) \div 4 <= x - 1
OBVIOUS

\* What n rounds leave of k: never more, all of it after none, nothing after k.
LEMMA RemainderShrinks ==
    ASSUME NEW k \in Nat, NEW n \in Nat
    PROVE  /\ Remainder(k, n) \in Nat /\ Remainder(k, n) <= k
           /\ n = 0 => Remainder(k, n) = k
           /\ n >= k => Remainder(k, n) = 0
<1> DEFINE Recurs(f, i) == f[0] = k /\ \A j \in 1..i : f[j] = (f[j - 1] * 3) \div 4
           S == {i \in 0..n : \E f \in [0..i -> Nat] : Recurs(f, i)}
           body(f) == [m \in 0..n |-> IF m = 0 THEN k ELSE (f[m - 1] * 3) \div 4]
           rest == CHOOSE f : f = body(f)
<1>1. Remainder(k, n) = rest[n]
  BY DEF Remainder
<1>2. 0 \in S
  <2>1. [j \in 0..0 |-> k] \in [0..0 -> Nat] /\ Recurs([j \in 0..0 |-> k], 0) /\ 0 \in 0..n
    OBVIOUS
  <2> HIDE DEF Recurs
  <2> QED
    BY <2>1
<1>3. ASSUME NEW i \in 1..n, i - 1 \in S PROVE i \in S
  <2>1. PICK f \in [0..(i - 1) -> Nat] : Recurs(f, i - 1)
    BY <1>3
  <2> DEFINE g == [j \in 0..i |-> IF j = i THEN (f[i - 1] * 3) \div 4 ELSE f[j]]
  <2>2. f[i - 1] \in Nat /\ i \in 0..n /\ i # 0
    OBVIOUS
  <2>3. \A j \in 0..i : j # i => j \in 0..(i - 1) /\ f[j] \in Nat
    OBVIOUS
  <2>4. g \in [0..i -> Nat]
    BY <2>2, <2>3, QuarterOff
  <2>5. /\ g[0] = f[0] /\ g[i] = (f[i - 1] * 3) \div 4 /\ g[i - 1] = f[i - 1]
        /\ \A j \in 1..(i - 1) : g[j] = f[j] /\ g[j - 1] = f[j - 1]
    BY <2>2
  <2> HIDE DEF g
  <2>6. Recurs(g, i)
    <3>1. g[0] = k
      BY <2>1, <2>5
    <3>2. ASSUME NEW j \in 1..i PROVE g[j] = (g[j - 1] * 3) \div 4
      <4>1. CASE j = i
        BY <2>5, <4>1
      <4>2. CASE j # i
        <5>1. j \in 1..(i - 1)
          BY <4>2
        <5>2. f[j] = (f[j - 1] * 3) \div 4
          BY <2>1, <5>1
        <5> QED
          BY <2>5, <5>1, <5>2
      <4> QED
        BY <4>1, <4>2
    <3> QED
      BY <3>1, <3>2
  <2> HIDE DEF Recurs
  <2> QED
    BY <2>2, <2>4, <2>6
<1> HIDE DEF S
<1>4. \A i \in 0..n : i \in S
  BY <1>2, <1>3, PrefixInduction
<1>5. n \in S
  BY <1>4
<1>6. PICK f \in [0..n -> Nat] : Recurs(f, n)
  BY <1>5 DEF S
<1>7. f = body(f)
  <2>1. ASSUME NEW m \in 0..n PROVE f[m] = IF m = 0 THEN k ELSE (f[m - 1] * 3) \div 4
    BY <1>6
  <2> QED
    BY <2>1
<1>8. rest = body(rest)
  <2> HIDE DEF body
  <2> QED
    BY <1>7
<1> HIDE DEF rest
<1>9. rest[0] = k /\ \A j \in 1..n : rest[j] = (rest[j - 1] * 3) \div 4
  <2>1. \A m \in 0..n : rest[m] = IF m = 0 THEN k ELSE (rest[m - 1] * 3) \div 4
    BY <1>8
  <2>2. 0 \in 0..n /\ \A j \in 1..n : j \in 0..n /\ j # 0
    OBVIOUS
  <2> QED
    BY <2>1, <2>2
<1> DEFINE Good(i) == rest[i] \in 0..k /\ (rest[i] <= k - i \/ rest[i] = 0)
<1>10. Good(0)
  BY <1>9
<1>11. ASSUME NEW i \in 1..n, Good(i - 1) PROVE Good(i)
  <2>1. rest[i - 1] \in 0..k /\ (rest[i - 1] <= k - (i - 1) \/ rest[i - 1] = 0)
    BY <1>11
  <2>2. rest[i] = (rest[i - 1] * 3) \div 4
    BY <1>9
  <2>3. /\ rest[i] \in Nat /\ rest[i] <= rest[i - 1]
        /\ rest[i - 1] > 0 => rest[i] <= rest[i - 1] - 1
    BY <2>1, <2>2, QuarterOff
  <2> QED
    BY <2>1, <2>3
<1> HIDE DEF Good
<1>12. \A i \in 0..n : i \in {j \in 0..n : Good(j)}
  <2>1. 0 \in {j \in 0..n : Good(j)}
    BY <1>10
  <2>2. \A i \in 1..n : i - 1 \in {j \in 0..n : Good(j)} => i \in {j \in 0..n : Good(j)}
    BY <1>11
  <2> QED
    BY <2>1, <2>2, PrefixInduction
<1>13. Good(n)
  BY <1>12
<1> QED
  BY <1>1, <1>9, <1>13 DEF Good

\* The size of rows after n rounds bounds each of them, and is nothing when each is.
LEMMA SizeIsCounted ==
    ASSUME NEW all \in Seq(Rows), NEW n \in Nat
    PROVE  /\ SizeOf(all, n) \in Nat
           /\ \A i \in DOMAIN all : /\ Remainder(Len(all[i].exposures), n) <= SizeOf(all, n)
                                      /\ Remainder(Len(all[i].items), n) <= SizeOf(all, n)
           /\ (\A i \in DOMAIN all : /\ Remainder(Len(all[i].exposures), n) = 0
                                       /\ Remainder(Len(all[i].items), n) = 0)
                => SizeOf(all, n) = 0
<1> DEFINE ex(i) == {<<i, "exposure">>} \X (1..Remainder(Len(all[i].exposures), n))
           it(i) == {<<i, "item">>} \X (1..Remainder(Len(all[i].items), n))
           F == [i \in 1..Len(all) |-> ex(i) \cup it(i)]
           left == UNION {ex(i) \cup it(i) : i \in 1..Len(all)}
<1>1. /\ Len(all) \in Nat /\ DOMAIN all = 1..Len(all)
      /\ \A i \in 1..Len(all) : all[i] \in Rows
  OBVIOUS
<1>2. ASSUME NEW i \in 1..Len(all)
      PROVE  /\ Len(all[i].exposures) \in Nat /\ Len(all[i].items) \in Nat
             /\ Remainder(Len(all[i].exposures), n) \in Nat
             /\ Remainder(Len(all[i].items), n) \in Nat
  <2>1. all[i].exposures \in Seq(Subjects) /\ all[i].items \in Seq(Lineages)
    BY <1>1 DEF Rows
  <2>2. Len(all[i].exposures) \in Nat /\ Len(all[i].items) \in Nat
    BY <2>1
  <2>3. \A k \in Nat : Remainder(k, n) \in Nat
    BY RemainderShrinks, Zenon
  <2> QED
    BY <2>2, <2>3, Zenon
<1>3. SizeOf(all, n) = Cardinality(left)
  BY <1>1 DEF SizeOf
<1>4. ASSUME NEW i \in 1..Len(all)
      PROVE  IsFiniteSet(ex(i)) /\ IsFiniteSet(it(i)) /\ IsFiniteSet(ex(i) \cup it(i))
  <2>1. IsFiniteSet(ex(i)) /\ IsFiniteSet(it(i))
    BY <1>2, TaggedIsFinite, Zenon
  <2> HIDE DEF ex, it
  <2> QED
    BY <2>1, FS_Union, Zenon
<1>5. IsFiniteSet(left)
  <2> HIDE DEF ex, it
  <2>1. DOMAIN F = 1..Len(all) /\ \A i \in 1..Len(all) : F[i] = ex(i) \cup it(i)
    OBVIOUS
  <2>2. \A i \in 1..Len(all) : IsFiniteSet(F[i])
    BY <1>4, <2>1, Zenon
  <2>3. IsFiniteSet(UNION {F[i] : i \in 1..Len(all)})
    BY <1>1, <2>1, <2>2, FamilyIsFinite
  <2>4. left = UNION {F[i] : i \in 1..Len(all)}
    BY <2>1
  <2> QED
    BY <2>3, <2>4, Zenon
<1>6. ASSUME NEW i \in 1..Len(all)
      PROVE  /\ Remainder(Len(all[i].exposures), n) <= Cardinality(left)
             /\ Remainder(Len(all[i].items), n) <= Cardinality(left)
  <2>1. /\ Cardinality(ex(i)) = Remainder(Len(all[i].exposures), n)
        /\ Cardinality(it(i)) = Remainder(Len(all[i].items), n)
    BY <1>2, TaggedAreCounted
  <2>2. ex(i) \in SUBSET left /\ it(i) \in SUBSET left
    <3> HIDE DEF ex, it
    <3> QED
      OBVIOUS
  <2> HIDE DEF ex, it, left
  <2>3. Cardinality(ex(i)) <= Cardinality(left) /\ Cardinality(it(i)) <= Cardinality(left)
    BY <1>5, <2>2, FS_Subset
  <2> QED
    BY <2>1, <2>3
<1>7. ASSUME \A i \in 1..Len(all) : /\ Remainder(Len(all[i].exposures), n) = 0
                                      /\ Remainder(Len(all[i].items), n) = 0
      PROVE  Cardinality(left) = 0
  <2>1. left = {}
    BY <1>7
  <2> HIDE DEF left
  <2> QED
    BY <2>1, FS_EmptySet
<1>8. Cardinality(left) \in Nat
  BY <1>5, FS_CardinalityType
<1> HIDE DEF left
<1> QED
  BY <1>1, <1>3, <1>6, <1>7, <1>8

\* A number of rounds suffices: the least one the code stops at exists.
LEMMA RoundsEnd ==
    ASSUME NEW all \in Seq(Rows)
    PROVE  Rounds(all) \in Nat
<1> DEFINE N == SizeOf(all, 0)
           Small(n) == SizeOf(all, n) <= MaxRetained
<1>1. /\ DOMAIN all = 1..Len(all)
      /\ \A i \in DOMAIN all : Len(all[i].exposures) \in Nat /\ Len(all[i].items) \in Nat
  <2>1. /\ DOMAIN all = 1..Len(all)
        /\ \A i \in DOMAIN all : all[i] \in Rows
    OBVIOUS
  <2>2. \A i \in DOMAIN all : all[i].exposures \in Seq(Subjects) /\ all[i].items \in Seq(Lineages)
    BY <2>1 DEF Rows
  <2> QED
    BY <2>1, <2>2
<1>2. N \in Nat /\ \A i \in DOMAIN all : Len(all[i].exposures) <= N /\ Len(all[i].items) <= N
  <2>1. /\ 0 \in Nat
        /\ \A i \in DOMAIN all : /\ Remainder(Len(all[i].exposures), 0) = Len(all[i].exposures)
                                   /\ Remainder(Len(all[i].items), 0) = Len(all[i].items)
    BY <1>1, RemainderShrinks
  <2>2. /\ N \in Nat
        /\ \A i \in DOMAIN all : /\ Remainder(Len(all[i].exposures), 0) <= N
                                   /\ Remainder(Len(all[i].items), 0) <= N
    BY <2>1, SizeIsCounted
  <2> QED
    BY <2>1, <2>2
<1> HIDE DEF N
<1>3. SizeOf(all, N) = 0
  <2>1. \A i \in DOMAIN all : /\ Remainder(Len(all[i].exposures), N) = 0
                                /\ Remainder(Len(all[i].items), N) = 0
    BY <1>1, <1>2, RemainderShrinks
  <2> QED
    BY <1>2, <2>1, SizeIsCounted
<1>4. N \in {n \in Nat : Small(n)}
  BY <1>2, <1>3, SamplingAssumption
<1>5. PICK m \in {n \in Nat : Small(n)} : \A y \in 0..(m - 1) : y \notin {n \in Nat : Small(n)}
  BY <1>4, LeastOf
<1>6. \A y \in 0..(m - 1) : ~Small(y)
  BY <1>5
<1>7. m \in 0..N
  BY <1>2, <1>4, <1>5
<1>8. \A y \in 0..(m - 1) : SizeOf(all, y) \in Nat
  BY <1>5, SizeIsCounted
<1>9. Small(m) /\ \A y \in 0..(m - 1) : SizeOf(all, y) > MaxRetained
  BY <1>5, <1>6, <1>8, SamplingAssumption
<1>10. Rounds(all) \in 0..N
  BY <1>7, <1>9 DEF Rounds, N
<1> QED
  BY <1>2, <1>10

\* What is cut off to fit leaves rows of fewer exposures and items; a row that still
\* calls itself complete lost nothing.
Shrinks(row, short) ==
    /\ short \in Rows
    /\ short.complete => short = row

\* One row is cut so.
LEMMA ShortenedShrinks ==
    ASSUME NEW row \in Rows, NEW n \in Nat
    PROVE  Shrinks(row, Shortened(row, n))
<1> DEFINE r == Remainder(Len(row.exposures), n)
           q == Remainder(Len(row.items), n)
           exposures == SubSeq(row.exposures, 1, r)
           items == SubSeq(row.items, 1, q)
           complete == row.complete /\ n = 0
<1>1. row.exposures \in Seq(Subjects) /\ row.items \in Seq(Lineages) /\ row.complete \in BOOLEAN
  BY DEF Rows
<1>2. /\ r \in Nat /\ r <= Len(row.exposures) /\ (n = 0 => r = Len(row.exposures))
      /\ q \in Nat /\ q <= Len(row.items) /\ (n = 0 => q = Len(row.items))
  <2>1. \A k \in Nat : /\ Remainder(k, n) \in Nat /\ Remainder(k, n) <= k
                       /\ n = 0 => Remainder(k, n) = k
    BY RemainderShrinks, Zenon
  <2>2. Len(row.exposures) \in Nat /\ Len(row.items) \in Nat
    BY <1>1
  <2> QED
    BY <2>1, <2>2, Zenon
<1> HIDE DEF r, q
<1>3. exposures \in Seq(Subjects) /\ items \in Seq(Lineages)
  BY <1>1, <1>2
<1>4. n = 0 => exposures = row.exposures /\ items = row.items
  BY <1>1, <1>2
<1>5. complete \in BOOLEAN
  BY <1>1
<1>6. Shortened(row, n) = [row EXCEPT !.exposures = exposures, !.items = items, !.complete = complete]
  BY DEF Shortened, r, q
<1> HIDE DEF exposures, items, complete
<1> QED
  BY <1>3, <1>4, <1>5, <1>6 DEF Shrinks, Rows, complete

\* All rows are cut so, and none is lost.
LEMMA RetainedShrinks ==
    ASSUME NEW all \in Seq(Rows)
    PROVE  /\ Retained(all) \in Seq(Rows) /\ Len(Retained(all)) = Len(all)
           /\ \A i \in 1..Len(all) : Shrinks(all[i], Retained(all)[i])
<1> DEFINE n == Rounds(all)
           short == [i \in DOMAIN all |-> Shortened(all[i], n)]
<1>1. Retained(all) = short
  BY DEF Retained
<1>2. n \in Nat
  BY RoundsEnd
<1>3. /\ DOMAIN all = 1..Len(all) /\ Len(all) \in Nat
      /\ \A i \in 1..Len(all) : all[i] \in Rows
  OBVIOUS
<1> HIDE DEF n
<1>4. \A i \in 1..Len(all) : short[i] = Shortened(all[i], n)
  BY <1>3
<1>5. \A i \in 1..Len(all) : Shrinks(all[i], short[i])
  BY <1>2, <1>3, <1>4, ShortenedShrinks
<1>6. \A i \in 1..Len(all) : Shortened(all[i], n) \in Rows
  BY <1>4, <1>5 DEF Shrinks
<1>7. short \in Seq(Rows) /\ Len(short) = Len(all)
  BY <1>3, <1>6
<1> QED
  BY <1>1, <1>5, <1>7

-----------------------------------------------------------------------------
(* A complete row covers the posts it was made of.                         *)

\* A row covers the first n posts of a feed: their lineages, within the depth limit,
\* and everybody they put before the reader.
Covers(row, posts, n) ==
    /\ Len(row.items) = n
    /\ \A k \in 1..n :
         /\ row.items[k] = Lineage(posts[k].own, posts[k].raw, posts[k].view)
         /\ Len(posts[k].quotes) <= MaxQuoteDepth
         /\ \A i \in DOMAIN Chain(posts[k]) : Chain(posts[k])[i].actor \in Range(row.exposures)

\* The first n posts of a feed are posts of it.
LEMMA FirstPosts ==
    ASSUME NEW posts \in Seq(Posts), NEW n \in 0..Len(posts)
    PROVE  /\ SubSeq(posts, 1, n) \in Seq(Posts) /\ Len(SubSeq(posts, 1, n)) = n
           /\ \A k \in 1..n : SubSeq(posts, 1, n)[k] = posts[k]
           /\ EntriesOf(SubSeq(posts, 1, n)) \subseteq EntriesOf(posts)
<1> DEFINE s == SubSeq(posts, 1, n)
<1>1. /\ s \in Seq(Posts) /\ Len(s) = n /\ DOMAIN s = 1..n /\ 1..n \subseteq DOMAIN posts
      /\ \A k \in 1..n : s[k] = posts[k]
  OBVIOUS
<1> HIDE DEF s
<1>2. EntriesOf(s) \subseteq EntriesOf(posts)
  BY <1>1 DEF EntriesOf
<1> QED
  BY <1>1, <1>2 DEF s

\* The row of the first n posts: one that calls itself complete read up to the limit
\* or to the end, and covers all n.
LEMMA FeedRowCovers ==
    ASSUME NEW posts \in Seq(Posts), Named(EntriesOf(posts)), NEW n \in 0..Len(posts),
           NEW limit, NEW exhausted \in BOOLEAN, NEW interrupted \in BOOLEAN,
           NEW before \in Seq(Rows),
           NEW row, row = FeedRow(Extract(SubSeq(posts, 1, n)), n, limit, exhausted, interrupted, before)
    PROVE  /\ row \in Rows
           /\ row.complete => (n = limit \/ exhausted) /\ Covers(row, posts, n)
<1> DEFINE first == SubSeq(posts, 1, n)
           sample == Extract(first)
           kept == Keep(sample.exposures, before)
           complete == /\ ~interrupted /\ (n = limit \/ exhausted)
                       /\ sample.complete /\ ~kept.bounded
<1>1. /\ first \in Seq(Posts) /\ Len(first) = n /\ \A k \in 1..n : first[k] = posts[k]
      /\ EntriesOf(first) \subseteq EntriesOf(posts)
  BY FirstPosts
<1>2. row = [exposures |-> kept.kept, items |-> sample.items, complete |-> complete]
  BY DEF FeedRow
<1> HIDE DEF first
<1>3. Named(EntriesOf(first))
  BY <1>1 DEF Named
<1>4. sample \in Samplings /\ Finds(sample, first)
  BY <1>1, <1>3, ExtractFinds
<1> HIDE DEF sample
<1>5. sample.exposures \in Seq(Subjects) /\ sample.items \in Seq(Lineages) /\ sample.complete \in BOOLEAN
  BY <1>4 DEF Samplings
<1>6. kept \in Keepings /\ (~kept.bounded => Range(sample.exposures) \subseteq Range(kept.kept))
  BY <1>5, KeepKeeps
<1> HIDE DEF kept
<1>7. complete \in BOOLEAN /\ kept.kept \in Seq(Subjects)
  BY <1>5, <1>6 DEF Keepings
<1>8. row \in Rows
  <2> HIDE DEF complete
  <2> QED
    BY <1>2, <1>5, <1>7 DEF Rows
<1>9. ASSUME complete PROVE (n = limit \/ exhausted) /\ Covers(row, posts, n)
  <2>1. row.exposures = kept.kept /\ row.items = sample.items
    BY <1>2
  <2> QED
    BY <1>1, <1>4, <1>6, <1>9, <2>1 DEF Finds, Covers
<1> QED
  BY <1>2, <1>8, <1>9

=============================================================================
