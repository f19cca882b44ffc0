-------------------------- MODULE CallHistoryProofs --------------------------
(***************************************************************************)
(* The list of calls and the section [Calls] of the ini file agree, and    *)
(* keys are not handed out too early, for any number of keys, any calls,   *)
(* any texts in the filter box and any end of the program in between two   *)
(* writes.                                                                 *)
(*                                                                         *)
(* Two views of the state carry the proofs.  After says what the file will *)
(* keep when the writes that are due are done: it is the same before and   *)
(* after a write, so what relates the list to it need only be kept by the  *)
(* handlers.  Marks are the keys, times and calls of all entries there are *)
(* anywhere, in the list, in the file or on the way to it: most steps take *)
(* some away, and only a new entry adds one.                               *)
(***************************************************************************)
EXTENDS CallHistory, TLAPS, WellFoundedInduction, SequenceTheorems

Writes == [key : Keys, value : Records \union {Null}] \union [key : {-1}, value : Keys]

\* The key k holds r when the writes d to the file f are done.
After(f, d, k, r) ==
  \/ f[k] = r /\ \A i \in DOMAIN d : d[i].key # k
  \/ \E i \in DOMAIN d : /\ d[i].key = k /\ d[i].value = r
                         /\ \A j \in DOMAIN d : j > i => d[j].key # k

Mark(k, r) == [key |-> k, time |-> r.time, call |-> r.call]

Marks(f, l, d) ==
  {Mark(x.key, x.rec) : x \in l}
  \union {Mark(k, f[k]) : k \in {j \in Keys : f[j] \in Records}}
  \union {Mark(d[i].key, d[i].value) :
            i \in {h \in DOMAIN d : d[h].key \in Keys /\ d[h].value \in Records}}

Common(l) == {x.key : x \in {y \in l : \E z \in l : z # y /\ z.key = y.key}}

-----------------------------------------------------------------------------
\* The invariant, part by part.

\* The SIP Call-ID of an entry is that of its call, and no two entries have one.
Ids(l) ==
  /\ \A x \in l : x.id \in Calls => x.rec.call = x.id
  /\ \A x, y \in l : x.id \in Calls /\ x.id = y.id => x = y

\* Entries made at the same turn are one, at one key.
Times(M, now) ==
  /\ \A m \in M : m.time \in 1 .. now
  /\ \A m, n \in M : m.time = n.time => m.key = n.key

\* What the list shows the file will keep, but at the keys in sh.
Listed(f, l, d, sh) == \A x \in l : x.key \notin sh => After(f, d, x.key, x.rec)

\* What the file will keep the list shows.
Filed(f, l, d) ==
  \A k \in Keys, r \in Records : After(f, d, k, r) => \E x \in l : x.key = k /\ x.rec = r

\* The keys in use come first: CallsLoad stops too early at none of them.
NoGap(f) == \A k, j \in Keys : f[k] # Absent /\ j < k => f[j] # Absent

\* A record goes to a key behind those in use, and its key after it.
Ordered(f, d) ==
  /\ \A i \in DOMAIN d : d[i].key \in Keys => \A j \in Keys : j < d[i].key => f[j] # Absent
  /\ \A i \in DOMAIN d : d[i].key = -1 =>
       f[d[i].value] # Absent \/ \E h \in DOMAIN d : h < i /\ d[h].key = d[i].value

Reached(f, d, k) == k = -1 \/ f[k] # Absent \/ \E i \in DOMAIN d : d[i].key = k

Prefix(f, fk, l, d, last) ==
  /\ NoGap(f) /\ Ordered(f, d)
  /\ Reached(f, d, last) /\ \A x \in l : Reached(f, d, x.key)
  /\ fk # -1 => f[fk] # Absent

\* A call that goes on finds its entry by its Call-ID, unless the list was
\* loaded meanwhile; all there is of a call is at one key.
OwnList(l, rl, ph) ==
  /\ \A x \in l : x.rec.call \in Calls =>
       x.id = x.rec.call \/ x.rec.call \in rl \/ ph[x.rec.call] = "over"
  /\ \A x, y \in l : x.rec.call = y.rec.call /\ x.rec.call \in Calls \ rl => x = y

OwnMarks(M, rl, ph) ==
  /\ \A m \in M : m.call \in Calls => ph[m.call] # "new"
  /\ \A m, n \in M : m.call = n.call /\ m.call \in Calls \ rl => m.key = n.key

\* How many keys are handed out from k to j, and to come from k to the last
\* one e, in the ring of keys.
Dist(k, j) == IF j > k THEN j - k ELSE j - k + KeyCount
Ahead(k, e) == IF e >= k THEN e - k ELSE e - k + KeyCount

\* Entries are as far apart in time as their keys are in the ring.
Apart(M, ct) ==
  \A m, n \in M : m.time < n.time /\ m.time \notin ct => n.time - m.time >= Dist(m.key, n.key)

\* With e the last key, as many entries were made since m as keys handed out.
Behind(M, ct, now, e) == \A m \in M : m.time \notin ct => now - m.time >= Ahead(m.key, e)

\* The same of callsLastKey in the file, but for an entry whose key is due.
BehindFile(M, ct, now, fk, d) ==
  fk # -1 =>
    \A m \in M : /\ m.time \notin ct
                 /\ m.time = now => \A i \in DOMAIN d : d[i].key # -1
                 => now - m.time >= Ahead(m.key, fk)

Ring(M, ct, now, fk, d, last) ==
  /\ Apart(M, ct)
  /\ BehindFile(M, ct, now, fk, d)
  /\ \A i \in DOMAIN d : d[i].key = -1 => Behind(M, ct, now, d[i].value)
  /\ fk = -1 => Behind(M, ct, now, last)

Hidden(M) == IsFiltered => \A m \in M : m.call \notin Going \ relisted

Types == TypeOK /\ writes \in Seq(Writes)
Present == Marks(file, list, writes)

Inv ==
  /\ Types
  /\ Ids(list)
  /\ Times(Present, turn)
  /\ Common(list) \subseteq shared
  /\ Listed(file, list, writes, shared)
  /\ ~IsFiltered => Filed(file, list, writes)
  /\ Prefix(file, fileKey, list, writes, lastKey)
  /\ OwnList(list, relisted, phase)
  /\ OwnMarks(Present, relisted, phase)
  /\ Hidden(Present)
  /\ Ring(Present, cut, turn, fileKey, writes, lastKey)
  /\ EndIsNoted

-----------------------------------------------------------------------------
(* Keys, writes and marks.                                                 *)

LEMMA KeysAre == /\ Keys \subseteq Nat /\ -1 \notin Keys /\ 0 \in Keys
                 /\ \A k \in Keys : k < KeyCount
                 /\ KeyCount \in Nat /\ KeyCount > 0
<1> QED BY KeyCountAssumption DEF Keys

Files == [Keys -> Records \union {Absent, Null}]

\* A write comes last of those to its key.
LEMMA AfterAppend ==
  ASSUME NEW f, NEW d \in Seq(Writes), NEW w \in Writes, NEW k \in Keys, NEW r
  PROVE  After(f, Append(d, w), k, r) <=> IF w.key = k THEN w.value = r ELSE After(f, d, k, r)
<1> DEFINE e == Append(d, w)
           n == Len(d)
<1>1. /\ n \in Nat /\ DOMAIN d = 1..n /\ DOMAIN e = 1..(n + 1)
      /\ e[n + 1] = w /\ \A i \in 1..n : e[i] = d[i]
  OBVIOUS
<1> HIDE DEF e, n
<1>2. CASE w.key = k
  <2>1. After(f, e, k, r) => w.value = r
    <3> SUFFICES ASSUME After(f, e, k, r) PROVE w.value = r
      OBVIOUS
    <3>1. n + 1 \in DOMAIN e /\ e[n + 1].key = k
      BY <1>1, <1>2
    <3>2. PICK i \in DOMAIN e : e[i].value = r /\ \A j \in DOMAIN e : j > i => e[j].key # k
      BY <3>1 DEF After
    <3>3. i = n + 1
      BY <1>1, <3>1, <3>2
    <3> QED BY <1>1, <3>2, <3>3
  <2>2. w.value = r => After(f, e, k, r)
    <3>1. n + 1 \in DOMAIN e /\ \A j \in DOMAIN e : ~(j > n + 1)
      BY <1>1
    <3> QED BY <1>1, <1>2, <3>1 DEF After
  <2> QED BY <1>2, <2>1, <2>2 DEF e
<1>3. CASE w.key # k
  <2>1. ASSUME After(f, e, k, r) PROVE After(f, d, k, r)
    <3>1. CASE f[k] = r /\ \A i \in DOMAIN e : e[i].key # k
      BY <1>1, <3>1 DEF After
    <3>2. CASE \E i \in DOMAIN e : /\ e[i].key = k /\ e[i].value = r
                                   /\ \A j \in DOMAIN e : j > i => e[j].key # k
      <4>1. PICK i \in DOMAIN e : /\ e[i].key = k /\ e[i].value = r
                                  /\ \A j \in DOMAIN e : j > i => e[j].key # k
        BY <3>2
      <4>2. i \in 1..n
        BY <1>1, <1>3, <4>1
      <4> QED BY <1>1, <4>1, <4>2 DEF After
    <3> QED BY <2>1, <3>1, <3>2 DEF After
  <2>2. ASSUME After(f, d, k, r) PROVE After(f, e, k, r)
    <3>1. CASE f[k] = r /\ \A i \in DOMAIN d : d[i].key # k
      <4>1. \A i \in DOMAIN e : e[i].key # k
        BY <1>1, <1>3, <3>1
      <4> QED BY <3>1, <4>1 DEF After
    <3>2. CASE \E i \in DOMAIN d : /\ d[i].key = k /\ d[i].value = r
                                   /\ \A j \in DOMAIN d : j > i => d[j].key # k
      <4>1. PICK i \in DOMAIN d : /\ d[i].key = k /\ d[i].value = r
                                  /\ \A j \in DOMAIN d : j > i => d[j].key # k
        BY <3>2
      <4>2. i \in DOMAIN e /\ e[i] = d[i]
        BY <1>1, <4>1
      <4>3. \A j \in DOMAIN e : j > i => e[j].key # k
        BY <1>1, <1>3, <4>1
      <4> QED BY <4>1, <4>2, <4>3 DEF After
    <3> QED BY <2>2, <3>1, <3>2 DEF After
  <2> QED BY <1>3, <2>1, <2>2 DEF e
<1> QED BY <1>2, <1>3

\* What the file will keep is not changed by a write.
LEMMA AfterWrite ==
  ASSUME NEW f, NEW g, NEW d \in Seq(Writes), d # <<>>, NEW k \in Keys, NEW r,
         g[k] = IF Head(d).key = k THEN Head(d).value ELSE f[k]
  PROVE  After(g, Tail(d), k, r) <=> After(f, d, k, r)
<1> DEFINE e == Tail(d)
           n == Len(d)
<1>1. /\ n \in Nat /\ n > 0 /\ DOMAIN d = 1..n /\ DOMAIN e = 1..(n - 1)
      /\ Head(d) = d[1] /\ \A i \in 1..(n - 1) : e[i] = d[i + 1] /\ i + 1 \in 1..n
      /\ \A j \in 2..n : j - 1 \in 1..(n - 1) /\ d[j] = e[j - 1] /\ j \in 1..n
      /\ 1 \in 1..n /\ \A j \in 1..n : j = 1 \/ j \in 2..n
  BY HeadTailProperties
<1> HIDE DEF e, n
<1>2. ASSUME After(g, e, k, r) PROVE After(f, d, k, r)
  <2>1. CASE g[k] = r /\ \A i \in DOMAIN e : e[i].key # k
    <3>1. \A j \in 2..n : d[j].key # k
      BY <1>1, <2>1
    <3>2. CASE d[1].key = k
      <4>1. d[1].value = r /\ \A j \in DOMAIN d : j > 1 => d[j].key # k
        BY <1>1, <2>1, <3>1, <3>2
      <4> QED BY <1>1, <3>2, <4>1 DEF After
    <3>3. CASE d[1].key # k
      BY <1>1, <2>1, <3>1, <3>3 DEF After
    <3> QED BY <3>2, <3>3
  <2>2. CASE \E i \in DOMAIN e : /\ e[i].key = k /\ e[i].value = r
                                 /\ \A j \in DOMAIN e : j > i => e[j].key # k
    <3>1. PICK i \in DOMAIN e : /\ e[i].key = k /\ e[i].value = r
                                /\ \A j \in DOMAIN e : j > i => e[j].key # k
      BY <2>2
    <3>2. i + 1 \in DOMAIN d /\ d[i + 1].key = k /\ d[i + 1].value = r
      BY <1>1, <3>1
    <3>3. ASSUME NEW j \in DOMAIN d, j > i + 1 PROVE d[j].key # k
      <4>1. j \in 2..n /\ j - 1 > i
        BY <1>1, <3>1, <3>3
      <4> QED BY <1>1, <3>1, <4>1
    <3> QED BY <3>2, <3>3 DEF After
  <2> QED BY <1>2, <2>1, <2>2 DEF After
<1>3. ASSUME After(f, d, k, r) PROVE After(g, e, k, r)
  <2>1. CASE f[k] = r /\ \A i \in DOMAIN d : d[i].key # k
    BY <1>1, <2>1 DEF After
  <2>2. CASE \E i \in DOMAIN d : /\ d[i].key = k /\ d[i].value = r
                                 /\ \A j \in DOMAIN d : j > i => d[j].key # k
    <3>1. PICK i \in DOMAIN d : /\ d[i].key = k /\ d[i].value = r
                                /\ \A j \in DOMAIN d : j > i => d[j].key # k
      BY <2>2
    <3>2. CASE i = 1
      <4>1. ASSUME NEW j \in DOMAIN e PROVE e[j].key # k
        <5>1. e[j] = d[j + 1] /\ j + 1 \in DOMAIN d /\ j + 1 > 1
          BY <1>1
        <5> QED BY <3>1, <3>2, <5>1
      <4> QED BY <1>1, <3>1, <3>2, <4>1 DEF After
    <3>3. CASE i # 1
      <4>1. i - 1 \in DOMAIN e /\ e[i - 1] = d[i]
        BY <1>1, <3>3
      <4>2. ASSUME NEW j \in DOMAIN e, j > i - 1 PROVE e[j].key # k
        <5>1. e[j] = d[j + 1] /\ j + 1 \in DOMAIN d /\ j + 1 > i
          BY <1>1, <4>2
        <5> QED BY <3>1, <5>1
      <4> QED BY <3>1, <4>1, <4>2 DEF After
    <3> QED BY <3>2, <3>3
  <2> QED BY <1>3, <2>1, <2>2 DEF After
<1> QED BY <1>2, <1>3 DEF e

\* Nothing is due.
LEMMA AfterNone == ASSUME NEW f, NEW k, NEW r PROVE After(f, <<>>, k, r) <=> f[k] = r
<1> QED BY DEF After

\* A mark is that of an entry, of a record in the file, or of one on its way.
LEMMA MarksAre ==
  ASSUME NEW f \in Files, NEW l \in SUBSET Items, NEW d \in Seq(Writes)
  PROVE  /\ Marks(f, l, d) \subseteq [key : Keys, time : Nat, call : Calls \union {NoId}]
         /\ \A x \in l : Mark(x.key, x.rec) \in Marks(f, l, d)
         /\ \A k \in Keys : f[k] \in Records => Mark(k, f[k]) \in Marks(f, l, d)
<1>1. \A k \in Keys, r \in Records : Mark(k, r) \in [key : Keys, time : Nat, call : Calls \union {NoId}]
  BY DEF Mark, Records
<1>2. \A x \in l : x.key \in Keys /\ x.rec \in Records
  BY DEF Items
<1> QED BY <1>1, <1>2 DEF Marks

LEMMA MarkFields == ASSUME NEW k, NEW r PROVE /\ Mark(k, r).key = k
                                              /\ Mark(k, r).time = r.time
                                              /\ Mark(k, r).call = r.call
<1> QED BY DEF Mark

-----------------------------------------------------------------------------
(* The ring of keys.                                                       *)

NextOf(e) == IF e + 1 >= KeyCount THEN 0 ELSE e + 1

LEMMA NextOfIs ==
  ASSUME NEW e \in Keys \union {-1}
  PROVE  /\ NextOf(e) \in Keys
         /\ \A k \in Keys : Dist(k, NextOf(e)) = Ahead(k, e) + 1
<1>1. \A k \in Keys : k \in Nat /\ k < KeyCount
  BY KeyCountAssumption DEF Keys
<1>2. e \in Int /\ e >= -1 /\ e < KeyCount
  BY KeyCountAssumption DEF Keys
<1>3. NextOf(e) \in Keys
  BY <1>2, KeyCountAssumption DEF NextOf, Keys
<1>4. \A k \in Keys : Dist(k, NextOf(e)) = Ahead(k, e) + 1
  BY <1>1, <1>2, KeyCountAssumption DEF NextOf, Dist, Ahead
<1> QED BY <1>3, <1>4

LEMMA AheadIs ==
  ASSUME NEW k \in Keys, NEW e \in Keys \union {-1}
  PROVE  /\ Ahead(k, e) \in Nat
         /\ k = e => Ahead(k, e) = 0
         /\ e \in Keys /\ Ahead(k, e) = 0 => k = e
         /\ Dist(k, e) \in Nat /\ Dist(k, e) >= Ahead(k, e)
<1>1. k \in Nat /\ k < KeyCount /\ e \in Int /\ e >= -1 /\ e < KeyCount /\ KeyCount \in Nat
  BY KeyCountAssumption DEF Keys
<1>2. CASE e >= k
  <2>1. Ahead(k, e) = e - k
    BY <1>2 DEF Ahead
  <2>2. CASE k = e
    <3>1. Dist(k, e) = KeyCount /\ Ahead(k, e) = 0
      BY <1>1, <2>1, <2>2 DEF Dist
    <3> QED BY <1>1, <2>2, <3>1
  <2>3. CASE k # e
    <3>1. e > k
      BY <1>1, <1>2, <2>3
    <3>2. Dist(k, e) = e - k
      BY <3>1 DEF Dist
    <3>3. Ahead(k, e) \in Nat /\ Ahead(k, e) > 0 /\ Dist(k, e) = Ahead(k, e)
      BY <1>1, <2>1, <3>1, <3>2
    <3> QED BY <2>3, <3>3
  <2> QED BY <2>2, <2>3
<1>3. CASE ~(e >= k)
  <2>1. Ahead(k, e) = e - k + KeyCount
    BY <1>3 DEF Ahead
  <2>2. Dist(k, e) = e - k + KeyCount
    BY <1>1, <1>3 DEF Dist
  <2>3. e < k
    BY <1>1, <1>3
  <2>4. Ahead(k, e) \in Nat /\ Dist(k, e) = Ahead(k, e)
    BY <1>1, <2>1, <2>2, <2>3
  <2>5. k # e
    BY <1>1, <2>3
  <2>6. e \in Keys => Ahead(k, e) > 0
    BY <1>1, <2>1, KeysAre
  <2> QED BY <2>4, <2>5, <2>6
<1> QED BY <1>2, <1>3

MarkSet == [key : Keys, time : Nat, call : Calls \union {NoId}]

\* A new entry takes the key that follows the last one: it is a whole ring away
\* from an older entry at its key.
LEMMA AddMark ==
  ASSUME NEW M \in SUBSET MarkSet, NEW ct, NEW now \in Nat, NEW e \in Keys \union {-1},
         NEW m \in MarkSet, m.time = now + 1, m.key = NextOf(e),
         Times(M, now), Apart(M, ct), Behind(M, ct, now, e)
  PROVE  /\ Times(M \union {m}, now + 1)
         /\ Apart(M \union {m}, ct)
         /\ Behind(M \union {m}, ct, now + 1, m.key)
<1>1. \A x \in M : x.key \in Keys /\ x.time \in Nat /\ x.time <= now /\ x.time >= 1
  BY DEF Times, MarkSet
<1>2. Times(M \union {m}, now + 1)
  <2>1. \A x \in M \union {m} : x.time \in 1 .. now + 1
    BY <1>1
  <2>2. ASSUME NEW x \in M \union {m}, NEW y \in M \union {m}, x.time = y.time PROVE x.key = y.key
    <3>1. \A z \in M : z.time # now + 1
      BY <1>1
    <3> QED BY <2>2, <3>1 DEF Times
  <2> QED BY <2>1, <2>2 DEF Times
<1>3. \A x \in M : x.time \notin ct => (now + 1) - x.time >= Dist(x.key, m.key)
  <2> SUFFICES ASSUME NEW x \in M, x.time \notin ct PROVE (now + 1) - x.time >= Dist(x.key, m.key)
    OBVIOUS
  <2>1. now - x.time >= Ahead(x.key, e)
    BY DEF Behind
  <2>2. Ahead(x.key, e) \in Nat /\ x.key \in Keys
    BY <1>1, AheadIs
  <2>3. Dist(x.key, m.key) = Ahead(x.key, e) + 1
    BY <2>2, NextOfIs
  <2>4. x.time \in Nat
    BY <1>1
  <2> QED BY <2>1, <2>2, <2>3, <2>4
<1>4. Apart(M \union {m}, ct)
  <2> SUFFICES ASSUME NEW x \in M \union {m}, NEW y \in M \union {m}, x.time < y.time, x.time \notin ct
               PROVE  y.time - x.time >= Dist(x.key, y.key)
    BY DEF Apart
  <2>1. CASE x \in M /\ y \in M
    BY <2>1 DEF Apart
  <2>2. CASE x \in M /\ y = m
    BY <1>3, <2>2
  <2>3. CASE x = m
    BY <1>1, <2>3
  <2> QED BY <2>1, <2>2, <2>3
<1>5. Behind(M \union {m}, ct, now + 1, m.key)
  <2> SUFFICES ASSUME NEW x \in M \union {m}, x.time \notin ct
               PROVE  (now + 1) - x.time >= Ahead(x.key, m.key)
    BY DEF Behind
  <2>1. m.key \in Keys
    BY DEF MarkSet
  <2>2. CASE x \in M
    <3>1. x.key \in Keys /\ (now + 1) - x.time >= Dist(x.key, m.key)
      BY <1>1, <1>3, <2>2
    <3>2. /\ Dist(x.key, m.key) >= Ahead(x.key, m.key)
          /\ Ahead(x.key, m.key) \in Nat /\ Dist(x.key, m.key) \in Nat
      BY <2>1, <3>1, AheadIs
    <3>3. x.time \in Nat
      BY <1>1, <2>2
    <3> QED BY <3>1, <3>2, <3>3
  <2>3. CASE x = m
    BY <2>1, <2>3, AheadIs
  <2> QED BY <2>2, <2>3
<1> QED BY <1>2, <1>4, <1>5

\* As time goes by everything falls behind.
LEMMA BehindLater ==
  ASSUME NEW M \in SUBSET MarkSet, NEW ct, NEW now \in Nat, NEW e \in Keys \union {-1},
         Behind(M, ct, now, e)
  PROVE  Behind(M, ct, now + 1, e)
<1> SUFFICES ASSUME NEW x \in M, x.time \notin ct PROVE (now + 1) - x.time >= Ahead(x.key, e)
  BY DEF Behind
<1>1. now - x.time >= Ahead(x.key, e)
  BY DEF Behind
<1>2. x.time \in Nat /\ x.key \in Keys
  BY DEF MarkSet
<1>3. Ahead(x.key, e) \in Nat
  BY <1>2, AheadIs
<1> QED BY <1>1, <1>2, <1>3

\* Some of the marks only.
LEMMA FewerMarks ==
  ASSUME NEW M, NEW N \in SUBSET M, NEW ct, NEW ct2, ct \subseteq ct2
  PROVE  /\ \A now : Times(M, now) => Times(N, now)
         /\ \A rl, ph : OwnMarks(M, rl, ph) => OwnMarks(N, rl, ph)
         /\ Apart(M, ct) => Apart(N, ct2)
         /\ \A now, e : Behind(M, ct, now, e) => Behind(N, ct2, now, e)
         /\ \A now, fk, d : BehindFile(M, ct, now, fk, d) => BehindFile(N, ct2, now, fk, d)
<1>1. \A now : Times(M, now) => Times(N, now)
  BY DEF Times
<1>2. \A rl, ph : OwnMarks(M, rl, ph) => OwnMarks(N, rl, ph)
  BY DEF OwnMarks
<1>3. Apart(M, ct) => Apart(N, ct2)
  BY DEF Apart
<1>4. \A now, e : Behind(M, ct, now, e) => Behind(N, ct2, now, e)
  BY DEF Behind
<1>5. \A now, fk, d : BehindFile(M, ct, now, fk, d) => BehindFile(N, ct2, now, fk, d)
  BY DEF BehindFile
<1> QED BY <1>1, <1>2, <1>3, <1>4, <1>5

-----------------------------------------------------------------------------
(* CallsLoad.                                                              *)

\* No record is out of the reach of CallsLoad.
LEMMA ReadIsAll ==
  ASSUME NEW f \in Files, NEW fk \in Keys \union {-1}, NoGap(f)
  PROVE  Read(f, fk) = {k \in Keys : f[k] \in Records}
<1>1. \A k \in Keys : f[k] \in Records <=> f[k] \notin {Absent, Null}
  BY FileAssumption DEF Files
<1>2. ASSUME NEW k \in Keys, f[k] \in Records, NEW j \in 0 .. k - 1 PROVE f[j] # Absent
  <2>1. j \in Keys /\ j < k
    BY KeysAre, KeyCountAssumption DEF Keys
  <2>2. f[k] # Absent
    BY <1>1, <1>2
  <2> QED BY <2>1, <2>2 DEF NoGap
<1> QED BY <1>1, <1>2 DEF Read

LEMMA LoadedIs ==
  ASSUME NEW f \in Files, NEW fk \in Keys \union {-1}, NoGap(f), NEW flt
  PROVE  /\ Loaded(f, fk, flt) \subseteq Items
         /\ \A x \in Loaded(f, fk, flt) : f[x.key] \in Records /\ x.rec = f[x.key] /\ x.id = NoId
         /\ \A x, y \in Loaded(f, fk, flt) : x.key = y.key => x = y
         /\ \A k \in Keys : f[k] \in Records =>
              \E x \in Loaded(f, fk, NoFilter) : x.key = k /\ x.rec = f[k]
<1> DEFINE it(i) == [key |-> i, id |-> NoId, rec |-> f[i]]
           R(g) == {j \in {k \in Keys : f[k] \in Records} : g = NoFilter \/ f[j].call \in g}
<1>1. \A g : Loaded(f, fk, g) = {it(i) : i \in R(g)}
  BY ReadIsAll DEF Loaded
<1>2. \A i \in Keys : f[i] \in Records => it(i) \in Items
  BY DEF Items
<1>3. Loaded(f, fk, flt) \subseteq Items
  BY <1>1, <1>2
<1>4. \A x \in Loaded(f, fk, flt) : x.key \in Keys /\ f[x.key] \in Records /\ x = it(x.key)
  BY <1>1
<1>5. \A k \in Keys : f[k] \in Records => it(k) \in Loaded(f, fk, NoFilter)
  BY <1>1
<1>6. \A k : it(k).key = k /\ it(k).rec = f[k] /\ it(k).id = NoId
  OBVIOUS
<1> HIDE DEF it
<1> QED BY <1>3, <1>4, <1>5, <1>6

\* The last key is that of the newest entry there is.
LEMMA KeyLoadedIs ==
  ASSUME NEW f \in Files, NEW fk \in Keys \union {-1}, NoGap(f), NEW now \in Nat,
         \A k \in Keys : f[k] \in Records => f[k].time \in 1 .. now
  PROVE  LET e == KeyLoaded(f, fk)
         IN  /\ e \in Keys \union {-1}
             /\ e = fk \/ (e \in Keys /\ f[e] \in Records)
             /\ \A k \in Keys : f[k] \in Records =>
                  e \in Keys /\ f[e] \in Records /\ f[k].time <= f[e].time
<1> DEFINE R == Read(f, fk)
<1>1. R = {k \in Keys : f[k] \in Records}
  BY ReadIsAll
<1>2. CASE R = {}
  BY <1>1, <1>2 DEF KeyLoaded
<1>3. CASE R # {}
  <2> DEFINE S == {now - f[k].time : k \in R}
             Rel == OpToRel(<, Nat)
  <2>1. \A k \in R : f[k].time \in Nat /\ now - f[k].time \in Nat
    BY <1>1
  <2>2. S \in SUBSET Nat /\ S # {}
    BY <1>3, <2>1
  <2>3. \A x, y \in Nat : y < x => <<y, x>> \in Rel
    <3> SUFFICES ASSUME NEW x \in Nat, NEW y \in Nat, y < x
                 PROVE  <<y, x>> \in {ss \in Nat \X Nat : ss[1] < ss[2]}
      BY Zenon DEF OpToRel
    <3> QED BY SMT
  <2>4. IsWellFoundedOn(Rel, Nat)
    BY NatLessThanWellFounded
  <2> HIDE DEF Rel
  <2>5. PICK x \in S : \A y \in S : ~(<<y, x>> \in Rel)
    <3> HIDE DEF S
    <3> QED BY <2>2, <2>4, WFMin
  <2>6. \A y \in S : x <= y
    <3> SUFFICES ASSUME NEW y \in S PROVE x <= y
      OBVIOUS
    <3>1. x \in Nat /\ y \in Nat
      BY <2>2
    <3>2. ~(y < x)
      BY <2>3, <2>5, <3>1
    <3> QED BY <3>1, <3>2
  <2>7. PICK k \in R : x = now - f[k].time
    OBVIOUS
  <2>8. \A j \in R : f[j].time <= f[k].time
    <3> SUFFICES ASSUME NEW j \in R PROVE f[j].time <= f[k].time
      OBVIOUS
    <3>1. now - f[k].time <= now - f[j].time
      BY <2>6, <2>7
    <3> QED BY <2>1, <3>1
  <2> HIDE DEF S
  <2>9. \E i \in R : \A j \in R : f[j].time <= f[i].time
    BY <2>8
  <2> DEFINE e == KeyLoaded(f, fk)
  <2>10. e = CHOOSE i \in R : \A j \in R : f[j].time <= f[i].time
    BY <1>3 DEF KeyLoaded
  <2>11. e \in R /\ \A j \in R : f[j].time <= f[e].time
    BY <2>9, <2>10
  <2> QED BY <1>1, <2>11
<1> QED BY <1>2, <1>3

-----------------------------------------------------------------------------
(* What a handler makes of the page.                                       *)

\* The list is loaded when the filter box is emptied, and with it the calls
\* that go on lose their entries.
Rl == IF IsFiltered THEN relisted \union Going ELSE relisted
Sh(v) == (IF IsFiltered THEN {} ELSE shared) \union Common(v.list)
Now(v) == IF \E x \in v.list : x.rec.time > turn THEN turn + 1 ELSE turn
VM(v) == Marks(file, v.list, v.due)

Views == [list : SUBSET Items, due : Seq(Writes), last : Keys \union {-1}]

\* The invariant of a view of the page, on the way through a handler for call
\* c: only the first Add makes an entry, and only if c has none.
ViewInv(v, c) ==
  /\ v \in Views
  /\ Ids(v.list)
  /\ Times(VM(v), Now(v))
  /\ Listed(file, v.list, v.due, Sh(v))
  /\ Filed(file, v.list, v.due)
  /\ Prefix(file, fileKey, v.list, v.due, v.last)
  /\ OwnList(v.list, Rl, phase)
  /\ OwnMarks(VM(v), Rl, phase)
  /\ Ring(VM(v), cut, Now(v), fileKey, v.due, v.last)
  /\ Has(v.list, c) \/ v = View
  /\ \A y \in v.list : y.id # c => y \in View.list

LEMMA TypesAre ==
  ASSUME Types
  PROVE  /\ file \in Files /\ fileKey \in Keys \union {-1} /\ list \in SUBSET Items
         /\ lastKey \in Keys \union {-1} /\ writes \in Seq(Writes) /\ turn \in Nat
         /\ phase \in [Calls -> {"new", "going", "hung", "over"}]
         /\ relisted \subseteq Calls /\ shared \subseteq Keys /\ cut \subseteq 1 .. turn
         /\ filter \in Filters \union {NoFilter}
<1> QED BY DEF Types, TypeOK, Files

LEMMA NoWrites == <<>> \in Seq(Writes) /\ DOMAIN <<>> = {} /\ \A i \in DOMAIN <<>> : FALSE
<1> QED OBVIOUS

\* What is loaded has the marks of the file and no others.
LEMMA LoadedMarks ==
  ASSUME NEW f \in Files, NEW fk \in Keys \union {-1}, NoGap(f), NEW flt,
         NEW l, NEW d
  PROVE  Marks(f, Loaded(f, fk, flt), <<>>) \subseteq Marks(f, l, d)
<1> DEFINE L == Loaded(f, fk, flt)
           F == {Mark(k, f[k]) : k \in {j \in Keys : f[j] \in Records}}
<1>1. \A x \in L : x.key \in Keys /\ f[x.key] \in Records /\ x.rec = f[x.key]
  BY LoadedIs DEF Items
<1> HIDE DEF L
<1>2. {Mark(x.key, x.rec) : x \in L} \subseteq F
  BY <1>1
<1>3. {Mark(<<>>[i].key, <<>>[i].value) :
         i \in {h \in DOMAIN <<>> : <<>>[h].key \in Keys /\ <<>>[h].value \in Records}} = {}
  BY NoWrites
<1>4. Marks(f, L, <<>>) \subseteq F
  BY <1>2, <1>3 DEF Marks
<1> QED BY <1>4 DEF Marks, L

\* The key that CallsLoad leaves behind is the last one handed out.
LEMMA LoadedBehind ==
  ASSUME NEW f \in Files, NEW fk \in Keys \union {-1}, NoGap(f), NEW flt, NEW ct,
         NEW now \in Nat, NEW M, M = Marks(f, Loaded(f, fk, flt), <<>>),
         Times(M, now), Apart(M, ct)
  PROVE  Behind(M, ct, now, KeyLoaded(f, fk))
<1> DEFINE F == {Mark(k, f[k]) : k \in {j \in Keys : f[j] \in Records}}
           e == KeyLoaded(f, fk)
<1>1. F \subseteq M
  BY DEF Marks
<1>2. M \subseteq F
  <2>1. M \subseteq Marks(f, {}, <<>>)
    BY LoadedMarks
  <2>2. Marks(f, {}, <<>>) \subseteq F
    BY NoWrites DEF Marks
  <2> QED BY <2>1, <2>2
<1>3. \A k \in Keys : f[k] \in Records => f[k].time \in 1 .. now
  BY <1>1, MarkFields DEF Times
<1>4. e \in Keys \union {-1} /\ \A k \in Keys : f[k] \in Records =>
        e \in Keys /\ f[e] \in Records /\ f[k].time <= f[e].time
  BY <1>3, KeyLoadedIs
<1> HIDE DEF e, F
<1> SUFFICES ASSUME NEW m \in M, m.time \notin ct PROVE now - m.time >= Ahead(m.key, e)
  BY DEF Behind, e
<1>5. PICK k \in Keys : f[k] \in Records /\ m = Mark(k, f[k])
  BY <1>2 DEF F
<1>6. m.key = k /\ m.time = f[k].time
  BY <1>5, MarkFields
<1>7. e \in Keys /\ f[e] \in Records /\ f[k].time <= f[e].time
  BY <1>4, <1>5
<1> DEFINE n == Mark(e, f[e])
<1>8. n \in M /\ n.key = e /\ n.time = f[e].time
  BY <1>1, <1>7, MarkFields DEF F
<1> HIDE DEF n
<1>9. m.time \in Nat /\ n.time \in Nat /\ n.time <= now /\ m.time <= n.time
  BY <1>3, <1>5, <1>6, <1>7, <1>8
<1>10. Ahead(k, e) \in Nat /\ Dist(k, e) \in Nat /\ Dist(k, e) >= Ahead(k, e)
       /\ (k = e => Ahead(k, e) = 0)
  BY <1>7, AheadIs
<1>11. CASE m.time = n.time
  <2>1. m.key = n.key
    BY <1>8, <1>11 DEF Times
  <2> QED BY <1>6, <1>8, <1>9, <1>10, <2>1
<1>12. CASE m.time < n.time
  <2>1. n.time - m.time >= Dist(k, e)
    BY <1>6, <1>8, <1>12 DEF Apart
  <2> QED BY <1>6, <1>9, <1>10, <2>1
<1> QED BY <1>9, <1>11, <1>12

\* The state before a handler is a view.
LEMMA ViewHolds ==
  ASSUME Inv, Idle, NEW c \in Going
  PROVE  ViewInv(View, c) /\ Now(View) = turn
<1> USE TypesAre DEF Inv
<1>1. /\ View.list = Shown /\ View.due = <<>> /\ View.last = KeyShown
      /\ writes = <<>>
  BY DEF View, Idle
<1>2. NoGap(file)
  BY DEF Prefix
<1> DEFINE L == Loaded(file, fileKey, NoFilter)
<1>3. VM(View) \subseteq Present
  <2>1. CASE IsFiltered
    BY <1>1, <1>2, <2>1, LoadedMarks DEF VM, Present, Shown
  <2>2. CASE ~IsFiltered
    BY <1>1, <2>2 DEF VM, Present, Shown
  <2> QED BY <2>1, <2>2
<1>4. View \in Views
  <2>1. Shown \in SUBSET Items
    BY <1>2, LoadedIs DEF Shown
  <2>2. \A k \in Keys : file[k] \in Records => file[k].time \in 1 .. turn
    BY MarksAre, MarkFields DEF Times, Present
  <2>3. KeyShown \in Keys \union {-1}
    BY <1>2, <2>2, KeyLoadedIs DEF KeyShown
  <2> QED BY <2>1, <2>3, NoWrites DEF View, Views
<1>5. Times(VM(View), turn) /\ OwnMarks(VM(View), relisted, phase) /\ Apart(VM(View), cut)
      /\ BehindFile(VM(View), cut, turn, fileKey, <<>>)
  BY <1>1, <1>3, FewerMarks DEF Ring
<1>6. Now(View) = turn
  <2>1. ASSUME NEW x \in View.list PROVE x.rec.time \in 1 .. turn
    <3>1. Mark(x.key, x.rec) \in VM(View)
      BY DEF VM, Marks
    <3> QED BY <1>5, <3>1, MarkFields DEF Times
  <2> QED BY <2>1 DEF Now
<1>7. OwnMarks(VM(View), Rl, phase)
  BY <1>5 DEF OwnMarks, Rl
<1>8. Reached(file, <<>>, KeyShown)
  <2>1. CASE IsFiltered
    <3>1. \A k \in Keys : file[k] \in Records => file[k].time \in 1 .. turn
      BY MarksAre, MarkFields DEF Times, Present
    <3>2. KeyShown = fileKey \/ (KeyShown \in Keys /\ file[KeyShown] \in Records)
      BY <1>2, <2>1, <3>1, KeyLoadedIs DEF KeyShown
    <3> QED BY <3>2, FileAssumption DEF Reached, Prefix
  <2>2. CASE ~IsFiltered
    BY <1>1, <2>2 DEF KeyShown, Prefix
  <2> QED BY <2>1, <2>2
<1>9. Has(View.list, c) \/ View = View
  OBVIOUS
<1>10. CASE ~IsFiltered
  <2>1. Shown = list /\ KeyShown = lastKey /\ Rl = relisted /\ Sh(View) = shared \union Common(list)
    BY <1>1, <1>10 DEF Shown, KeyShown, Rl, Sh
  <2>2. Listed(file, Shown, <<>>, Sh(View))
    BY <1>1, <2>1 DEF Listed
  <2>3. Ring(VM(View), cut, turn, fileKey, <<>>, KeyShown)
    <3>1. VM(View) = Present
      BY <1>1, <2>1 DEF VM, Present
    <3> QED BY <1>1, <2>1, <3>1
  <2>4. Filed(file, Shown, <<>>) /\ Ids(Shown) /\ OwnList(Shown, Rl, phase)
        /\ Prefix(file, fileKey, Shown, <<>>, KeyShown)
    BY <1>1, <1>10, <2>1
  <2> QED BY <1>1, <1>4, <1>5, <1>6, <1>7, <2>2, <2>3, <2>4 DEF ViewInv
<1>11. CASE IsFiltered
  <2>1. Shown = L /\ KeyShown = KeyLoaded(file, fileKey) /\ Rl = relisted \union Going
    BY <1>11 DEF Shown, KeyShown, Rl
  <2>2. /\ \A x \in L : x.key \in Keys /\ file[x.key] \in Records /\ x.rec = file[x.key] /\ x.id = NoId
        /\ \A x, y \in L : x.key = y.key => x = y
        /\ \A k \in Keys : file[k] \in Records => \E x \in L : x.key = k /\ x.rec = file[k]
    BY <1>2, LoadedIs DEF Items
  <2> HIDE DEF L
  <2>3. Listed(file, L, <<>>, Sh(View)) /\ Filed(file, L, <<>>)
    BY <2>2, AfterNone DEF Listed, Filed
  <2>4. Ids(L)
    BY <2>2, NoIdAssumption DEF Ids
  <2>5. Prefix(file, fileKey, L, <<>>, KeyShown)
    <3>1. \A x \in L : Reached(file, <<>>, x.key)
      BY <2>2, FileAssumption DEF Reached
    <3>2. Ordered(file, <<>>)
      BY DEF Ordered
    <3> QED BY <1>8, <3>1, <3>2 DEF Prefix
  <2>6. OwnList(L, Rl, phase)
    <3>1. \A x \in L : Mark(x.key, x.rec) \in VM(View)
      BY <1>1, <2>1 DEF VM, Marks
    <3>2. \A x \in L : x.rec.call \in Calls => x.rec.call \in Rl \/ phase[x.rec.call] = "over"
      <4> SUFFICES ASSUME NEW x \in L, x.rec.call \in Calls, x.rec.call \notin Going
                   PROVE  phase[x.rec.call] = "over"
        BY <2>1
      <4>1. phase[x.rec.call] # "new"
        BY <1>7, <3>1, MarkFields DEF OwnMarks
      <4> QED BY <4>1 DEF Going
    <3>3. \A x, y \in L : x.rec.call = y.rec.call /\ x.rec.call \in Calls \ Rl => x.key = y.key
      BY <1>7, <3>1, MarkFields DEF OwnMarks
    <3> QED BY <2>2, <3>2, <3>3 DEF OwnList
  <2>7. Ring(VM(View), cut, turn, fileKey, <<>>, KeyShown)
    <3>1. Behind(VM(View), cut, turn, KeyShown)
      BY <1>1, <1>2, <1>5, <2>1, LoadedBehind DEF VM, L
    <3> QED BY <1>5, <3>1 DEF Ring
  <2> QED BY <1>1, <1>4, <1>5, <1>6, <1>7, <2>1, <2>3, <2>4, <2>5, <2>6, <2>7 DEF ViewInv
<1> QED BY <1>10, <1>11

-----------------------------------------------------------------------------
(* One more write.                                                         *)

LEMMA AppendIs ==
  ASSUME NEW d \in Seq(Writes), NEW w \in Writes
  PROVE  /\ Append(d, w) \in Seq(Writes)
         /\ \A i \in DOMAIN d : i \in DOMAIN Append(d, w) /\ Append(d, w)[i] = d[i]
         /\ \A i \in DOMAIN Append(d, w) : i \in DOMAIN d \/ Append(d, w)[i] = w
         /\ \E i \in DOMAIN Append(d, w) : Append(d, w)[i] = w /\ \A h \in DOMAIN d : h < i
<1> DEFINE e == Append(d, w)
           n == Len(d)
<1>1. /\ n \in Nat /\ DOMAIN d = 1..n /\ DOMAIN e = 1..(n + 1)
      /\ e[n + 1] = w /\ \A i \in 1..n : e[i] = d[i]
      /\ e \in Seq(Writes)
  OBVIOUS
<1> HIDE DEF e, n
<1>2. \A i \in 1..n : i \in 1..(n + 1) /\ i < n + 1
  BY <1>1
<1>3. \A i \in 1..(n + 1) : i \in 1..n \/ i = n + 1
  BY <1>1
<1>4. n + 1 \in 1..(n + 1)
  BY <1>1
<1> QED BY <1>1, <1>2, <1>3, <1>4 DEF e

LEMMA MarksAppend ==
  ASSUME NEW f, NEW l, NEW d \in Seq(Writes), NEW w \in Writes, NEW M, Marks(f, l, d) \subseteq M,
         w.key \in Keys /\ w.value \in Records => Mark(w.key, w.value) \in M
  PROVE  Marks(f, l, Append(d, w)) \subseteq M
<1> DEFINE e == Append(d, w)
<1>1. \A i \in DOMAIN e : (i \in DOMAIN d /\ e[i] = d[i]) \/ e[i] = w
  BY AppendIs
<1> HIDE DEF e
<1>2. ASSUME NEW i \in DOMAIN e, e[i].key \in Keys, e[i].value \in Records
      PROVE  Mark(e[i].key, e[i].value) \in M
  <2>1. CASE i \in DOMAIN d /\ e[i] = d[i]
    <3>1. Mark(d[i].key, d[i].value) \in Marks(f, l, d)
      BY <1>2, <2>1 DEF Marks
    <3> QED BY <2>1, <3>1
  <2>2. CASE e[i] = w
    BY <1>2, <2>2
  <2> QED BY <1>1, <2>1, <2>2
<1>3. \A x \in l : Mark(x.key, x.rec) \in M
  BY DEF Marks
<1>4. \A k \in {j \in Keys : f[j] \in Records} : Mark(k, f[k]) \in M
  BY DEF Marks
<1> QED BY <1>2, <1>3, <1>4 DEF Marks, e

LEMMA OrderedAppend ==
  ASSUME NEW f, NEW d \in Seq(Writes), NEW w \in Writes, Ordered(f, d),
         w.key \in Keys => \A j \in Keys : j < w.key => f[j] # Absent,
         w.key = -1 => Reached(f, d, w.value) /\ w.value # -1
  PROVE  Ordered(f, Append(d, w))
<1> DEFINE e == Append(d, w)
<1>1. \A i \in DOMAIN e : (i \in DOMAIN d /\ e[i] = d[i]) \/ e[i] = w
  BY AppendIs
<1>2. \A i \in DOMAIN d : i \in DOMAIN e /\ e[i] = d[i]
  BY AppendIs
<1>3. \A i \in DOMAIN e : i \in DOMAIN d \/ \A h \in DOMAIN d : h < i
  <2>1. DOMAIN d = 1..Len(d) /\ DOMAIN e = 1..(Len(d) + 1) /\ Len(d) \in Nat
    OBVIOUS
  <2> QED BY <2>1
<1> HIDE DEF e
<1>4. ASSUME NEW i \in DOMAIN e, e[i].key \in Keys, NEW j \in Keys, j < e[i].key PROVE f[j] # Absent
  BY <1>1, <1>4 DEF Ordered
<1>5. ASSUME NEW i \in DOMAIN e, e[i].key = -1
      PROVE  f[e[i].value] # Absent \/ \E h \in DOMAIN e : h < i /\ e[h].key = e[i].value
  <2>1. CASE i \in DOMAIN d
    <3>1. e[i] = d[i]
      BY <1>2, <2>1
    <3>2. f[d[i].value] # Absent \/ \E h \in DOMAIN d : h < i /\ d[h].key = d[i].value
      BY <1>5, <2>1, <3>1 DEF Ordered
    <3> QED BY <1>2, <3>1, <3>2
  <2>2. CASE i \notin DOMAIN d
    <3>1. e[i] = w
      BY <1>1, <2>2
    <3>2. f[w.value] # Absent \/ \E h \in DOMAIN d : d[h].key = w.value
      BY <1>5, <3>1 DEF Reached
    <3> QED BY <1>2, <1>3, <2>2, <3>1, <3>2
  <2> QED BY <2>1, <2>2
<1> QED BY <1>4, <1>5 DEF Ordered, e

LEMMA ReachedAppend ==
  ASSUME NEW f, NEW d \in Seq(Writes), NEW w \in Writes
  PROVE  /\ \A k : Reached(f, d, k) => Reached(f, Append(d, w), k)
         /\ Reached(f, Append(d, w), w.key)
<1> QED BY AppendIs DEF Reached

\* There are no gaps before a key that was reached.
LEMMA ReachedIsNext ==
  ASSUME NEW f, NEW d, NEW k \in Keys, NoGap(f), Ordered(f, d), Reached(f, d, k)
  PROVE  \A j \in Keys : j < k => f[j] # Absent
<1> QED BY KeysAre DEF Reached, Ordered, NoGap

\* Writes of records leave the ring of keys as it was.
LEMMA RingAppend ==
  ASSUME NEW M, NEW N \in SUBSET M, NEW ct, NEW now, NEW fk, NEW d \in Seq(Writes), NEW last,
         NEW w \in Writes, w.key # -1, Ring(M, ct, now, fk, d, last)
  PROVE  Ring(N, ct, now, fk, Append(d, w), last)
<1> DEFINE e == Append(d, w)
<1>1. \A i \in DOMAIN e : (i \in DOMAIN d /\ e[i] = d[i]) \/ e[i] = w
  BY AppendIs
<1>2. \A i \in DOMAIN d : i \in DOMAIN e /\ e[i] = d[i]
  BY AppendIs
<1> HIDE DEF e
<1>3. Ring(N, ct, now, fk, d, last)
  BY FewerMarks DEF Ring
<1>4. BehindFile(N, ct, now, fk, e)
  BY <1>2, <1>3 DEF Ring, BehindFile
<1>5. \A i \in DOMAIN e : e[i].key = -1 => Behind(N, ct, now, e[i].value)
  BY <1>1, <1>3 DEF Ring
<1> QED BY <1>3, <1>4, <1>5 DEF Ring, e

-----------------------------------------------------------------------------
(* The handlers.                                                           *)

\* An entry is marked anew, in the list and in the file.
LEMMA PutKeeps ==
  ASSUME Types, NEW v, NEW c \in Calls, ViewInv(v, c), NEW x \in v.list, x.id = c,
         NEW new \in Items, new.key = x.key, new.id = c,
         new.rec.call = x.rec.call, new.rec.time = x.rec.time
  PROVE  ViewInv(Put(v, x, new), c)
<1> USE TypesAre
<1> DEFINE w == Put(v, x, new)
           s == Save(new)
<1>1. v \in Views /\ v.list \in SUBSET Items /\ v.due \in Seq(Writes) /\ v.last \in Keys \union {-1}
  BY DEF ViewInv, Views
<1>2. s \in Writes /\ s.key = x.key /\ s.value = new.rec /\ s.key \in Keys /\ s.key # -1
  BY KeysAre DEF Save, Writes, Items
<1>3. w.list = (v.list \ {x}) \union {new} /\ w.due = Append(v.due, s) /\ w.last = v.last /\ w \in Views
  <2>1. w.list = (v.list \ {x}) \union {new} /\ w.last = v.last
    BY <1>1 DEF Put, Views
  <2>2. w.due = Append(v.due, s)
    BY <1>1 DEF Put, Views
  <2>3. w.list \in SUBSET Items /\ w.due \in Seq(Writes)
    <3> HIDE DEF w, s
    <3> QED BY <1>1, <1>2, <2>1, <2>2, AppendIs
  <2>4. DOMAIN w = DOMAIN v /\ w = [i \in DOMAIN v |-> w[i]]
    BY DEF Put
  <2>5. w = [list |-> w.list, due |-> w.due, last |-> w.last]
    <3> HIDE DEF w, s
    <3> QED BY <1>1, <2>4 DEF Views
  <2>6. w \in Views
    <3> HIDE DEF w, s
    <3> QED BY <1>1, <2>1, <2>3, <2>5 DEF Views
  <2> QED BY <2>1, <2>2, <2>6
<1> HIDE DEF w, s
<1>4. VM(w) \subseteq VM(v)
  <2>1. Mark(new.key, new.rec) = Mark(x.key, x.rec)
    BY DEF Mark
  <2>2. \A y \in v.list : Mark(y.key, y.rec) \in VM(v)
    BY DEF VM, Marks
  <2>3. Marks(file, w.list, v.due) \subseteq VM(v)
    BY <1>3, <2>1, <2>2 DEF VM, Marks
  <2>4. Mark(s.key, s.value) \in VM(v)
    BY <1>2, <2>1, <2>2
  <2>5. Marks(file, w.list, Append(v.due, s)) \subseteq VM(v)
    BY <1>1, <1>2, <2>3, <2>4, MarksAppend
  <2> QED BY <1>3, <2>5 DEF VM
<1>5. Now(w) = Now(v)
  <2>1. (\E y \in w.list : y.rec.time > turn) <=> (\E y \in v.list : y.rec.time > turn)
    BY <1>3
  <2> QED BY <2>1 DEF Now
<1>6. x.rec.call = c /\ \A y, z \in v.list : y.id \in Calls /\ y.id = z.id => y = z
  BY DEF ViewInv, Ids
<1>7. Ids(w.list)
  <2>1. \A y \in w.list : y.id \in Calls => y.rec.call = y.id
    BY <1>3, <1>6 DEF ViewInv, Ids
  <2>2. \A y, z \in w.list : y.id \in Calls /\ y.id = z.id => y = z
    BY <1>3, <1>6
  <2> QED BY <2>1, <2>2 DEF Ids
<1>8. Times(VM(w), Now(w)) /\ OwnMarks(VM(w), Rl, phase)
  BY <1>4, <1>5, FewerMarks DEF ViewInv
<1>9. Listed(file, w.list, w.due, Sh(w))
  <2> SUFFICES ASSUME NEW y \in w.list, y.key \notin Sh(w) PROVE After(file, w.due, y.key, y.rec)
    BY DEF Listed
  <2>1. y.key \in Keys
    BY <1>1, <1>3 DEF Items
  <2>2. y.key \notin Common(w.list)
    BY DEF Sh
  <2>3. CASE y = new
    BY <1>1, <1>2, <1>3, <2>1, <2>3, AfterAppend
  <2>4. CASE y # new
    <3>1. y \in v.list /\ y.key # x.key
      BY <1>3, <2>2, <2>4 DEF Common
    <3>2. y.key \notin Common(v.list)
      <4> SUFFICES ASSUME NEW a \in v.list, NEW b \in v.list, a # b, a.key = b.key, a.key = y.key
                   PROVE  FALSE
        BY DEF Common
      <4>1. a \in w.list /\ b \in w.list
        BY <1>3, <3>1
      <4> QED BY <2>2, <4>1 DEF Common
    <3>3. y.key \notin Sh(v)
      BY <3>2 DEF Sh
    <3>4. After(file, v.due, y.key, y.rec)
      BY <3>1, <3>3 DEF ViewInv, Listed
    <3> QED BY <1>1, <1>2, <1>3, <2>1, <3>1, <3>4, AfterAppend
  <2> QED BY <2>3, <2>4
<1>10. Filed(file, w.list, w.due)
  <2> SUFFICES ASSUME NEW k \in Keys, NEW r \in Records, After(file, w.due, k, r)
               PROVE  \E y \in w.list : y.key = k /\ y.rec = r
    BY DEF Filed
  <2>1. CASE k = x.key
    <3>1. r = new.rec
      BY <1>1, <1>2, <1>3, <2>1, AfterAppend
    <3> QED BY <1>3, <2>1, <3>1
  <2>2. CASE k # x.key
    <3>1. After(file, v.due, k, r)
      BY <1>1, <1>2, <1>3, <2>2, AfterAppend
    <3>2. PICK y \in v.list : y.key = k /\ y.rec = r
      BY <3>1 DEF ViewInv, Filed
    <3> QED BY <1>3, <2>2, <3>2
  <2> QED BY <2>1, <2>2
<1>11. Prefix(file, fileKey, w.list, w.due, w.last)
  <2>1. Prefix(file, fileKey, v.list, v.due, v.last)
    BY DEF ViewInv
  <2>2. \A j \in Keys : j < s.key => file[j] # Absent
    BY <1>2, <2>1, ReachedIsNext DEF Prefix
  <2>3. Ordered(file, w.due)
    BY <1>1, <1>2, <1>3, <2>1, <2>2, OrderedAppend DEF Prefix
  <2>4. Reached(file, w.due, w.last) /\ \A y \in w.list : Reached(file, w.due, y.key)
    BY <1>1, <1>2, <1>3, <2>1, ReachedAppend DEF Prefix
  <2> QED BY <2>1, <2>3, <2>4 DEF Prefix
<1>12. OwnList(w.list, Rl, phase)
  <2>1. OwnList(v.list, Rl, phase)
    BY DEF ViewInv
  <2> QED BY <1>3, <1>6, <2>1 DEF OwnList
<1>13. Ring(VM(w), cut, Now(w), fileKey, w.due, w.last)
  BY <1>1, <1>2, <1>3, <1>4, <1>5, RingAppend DEF ViewInv
<1>14. Has(w.list, c)
  BY <1>3 DEF Has
<1>15. \A y \in w.list : y.id # c => y \in View.list
  BY <1>3 DEF ViewInv
<1> QED BY <1>3, <1>7, <1>8, <1>9, <1>10, <1>11, <1>12, <1>13, <1>14, <1>15 DEF ViewInv, w

\* No mark there is belongs to a call that goes on without an entry, unless its
\* entry was loaded.
LEMMA NoOtherMark ==
  ASSUME Types, NEW c \in Going, ViewInv(View, c), ~Has(View.list, c), c \notin Rl
  PROVE  /\ \A y \in View.list : y.rec.call # c
         /\ \A m \in VM(View) : m.call # c
<1> USE TypesAre
<1>1. c \in Calls /\ phase[c] # "over" /\ View.due = <<>>
  BY DEF Going, View
<1>2. \A y \in View.list : y.rec.call # c
  BY <1>1 DEF ViewInv, OwnList, Has
<1>3. ASSUME NEW k \in Keys, file[k] \in Records PROVE file[k].call # c
  <2>1. After(file, View.due, k, file[k])
    BY <1>1, AfterNone
  <2>2. PICK y \in View.list : y.rec = file[k]
    BY <1>3, <2>1 DEF ViewInv, Filed
  <2> QED BY <1>2, <2>2
<1>4. VM(View) \subseteq {Mark(y.key, y.rec) : y \in View.list}
                     \union {Mark(k, file[k]) : k \in {j \in Keys : file[j] \in Records}}
  BY <1>1, NoWrites DEF VM, Marks
<1>5. ASSUME NEW m \in VM(View) PROVE m.call # c
  BY <1>2, <1>3, <1>4, MarkFields
<1> QED BY <1>2, <1>5

\* A new entry, at the next key.
LEMMA EnterKeeps ==
  ASSUME Types, NEW c \in Going, NEW t \in {"out", "in", "miss"},
         ViewInv(View, c), Now(View) = turn, ~Has(View.list, c)
  PROVE  ViewInv(Add(View, c, t), c)
<1> USE TypesAre
<1> DEFINE v == View
           l == View.list
           e == IF fileKey # -1 THEN fileKey ELSE View.last
           k == NextKey(View.last)
           r == [call |-> c, type |-> t, said |-> "begun", time |-> turn + 1]
           x == [key |-> k, id |-> c, rec |-> r]
           d == <<>>
           d1 == Append(d, Save(x))
           d2 == Append(d1, SaveKey(k))
           w == Add(View, c, t)
           m == Mark(k, r)
           M == VM(View)
<1>1. /\ v \in Views /\ l \in SUBSET Items /\ v.due = d /\ d \in Seq(Writes)
      /\ v.last \in Keys \union {-1} /\ e \in Keys \union {-1}
  BY NoWrites DEF ViewInv, Views, View
<1>2. k = NextOf(e) /\ k \in Keys /\ k # -1
  <2>1. k = NextOf(e)
    BY DEF NextKey, NextOf
  <2> QED BY <1>1, <2>1, NextOfIs, KeysAre
<1>3. c \in Calls /\ phase[c] \in {"going", "hung"}
  BY DEF Going
<1>4. r \in Records /\ r.time = turn + 1 /\ r.call = c
  BY <1>3 DEF Records
<1>5. x \in Items /\ x.key = k /\ x.id = c /\ x.rec = r
  BY <1>2, <1>3, <1>4 DEF Items
<1>6. /\ Save(x) \in Writes /\ Save(x).key = k /\ Save(x).value = r
      /\ SaveKey(k) \in Writes /\ SaveKey(k).key = -1 /\ SaveKey(k).value = k
  BY <1>2, <1>4, <1>5 DEF Save, SaveKey, Writes
<1>7. w = [list |-> l \union {x}, due |-> d2, last |-> k]
  <2>1. d \o <<Save(x), SaveKey(k)>> = d2
    <3> DEFINE a == Save(x)
               b == SaveKey(k)
    <3>1. a \in Writes /\ b \in Writes
      BY <1>6
    <3> HIDE DEF a, b
    <3>2. <<>> \o <<a, b>> = Append(Append(<<>>, a), b)
      BY <3>1
    <3> QED BY <3>2 DEF a, b
  <2>2. w = [list |-> v.list \union {x}, due |-> v.due \o <<Save(x), SaveKey(k)>>, last |-> k]
    BY DEF Add
  <2> HIDE DEF w, x, k, r, d2
  <2> QED BY <1>1, <2>1, <2>2
<1>8. m.key = k /\ m.time = turn + 1 /\ m.call = c /\ m \in MarkSet /\ turn + 1 \in Nat
  BY <1>2, <1>3, <1>4, MarkFields DEF MarkSet, Mark
<1> HIDE DEF k, r, x, m, w, e, d
<1>9. d1 \in Seq(Writes) /\ d2 \in Seq(Writes)
  BY <1>1, <1>6, AppendIs
<1> HIDE DEF d2
<1>10. w.list = l \union {x} /\ w.due = d2 /\ w.last = k /\ w \in Views
  BY <1>1, <1>2, <1>5, <1>7, <1>9 DEF Views
<1>11. Now(w) = turn + 1
  <2>1. \E y \in w.list : y.rec.time > turn
    BY <1>4, <1>5, <1>10
  <2> QED BY <2>1 DEF Now
<1>12. M \in SUBSET MarkSet
  BY <1>1, MarksAre DEF VM, MarkSet
<1>13. VM(w) \subseteq M \union {m}
  <2>1. Marks(file, w.list, d) \subseteq M \union {m}
    <3>1. \A y \in w.list : Mark(y.key, y.rec) \in M \union {m}
      BY <1>5, <1>10 DEF VM, Marks, m
    <3> QED BY <1>1, <3>1 DEF VM, Marks
  <2>2. Marks(file, w.list, d1) \subseteq M \union {m}
    <3>1. Mark(Save(x).key, Save(x).value) = m
      BY <1>6 DEF m
    <3> HIDE DEF M, v
    <3> QED BY <1>1, <1>6, <2>1, <3>1, MarksAppend
  <2> HIDE DEF d1, M, v
  <2>3. Marks(file, w.list, d2) \subseteq M \union {m}
    BY <1>6, <1>9, <2>2, KeysAre, MarksAppend DEF d2
  <2> QED BY <1>10, <2>3 DEF VM
<1>14. Behind(M, cut, turn, e)
  BY <1>1 DEF ViewInv, Ring, BehindFile, Behind, e, d
<1>15. Apart(M, cut) /\ Times(M, turn)
  BY DEF ViewInv, Ring
<1>16. /\ Times(M \union {m}, turn + 1) /\ Apart(M \union {m}, cut)
       /\ Behind(M \union {m}, cut, turn + 1, k)
  <2> HIDE DEF M, v, l, d1
  <2>1. m \in MarkSet /\ m.time = turn + 1 /\ m.key = NextOf(e) /\ m.key = k
    BY <1>2, <1>8
  <2>2. turn \in Nat /\ e \in Keys \union {-1} /\ M \in SUBSET MarkSet
    BY <1>1, <1>12
  <2>3. /\ Times(M \union {m}, turn + 1) /\ Apart(M \union {m}, cut)
        /\ Behind(M \union {m}, cut, turn + 1, m.key)
    BY <1>14, <1>15, <2>1, <2>2, AddMark
  <2> QED BY <2>1, <2>3
<1>17. Times(VM(w), Now(w)) /\ Apart(VM(w), cut) /\ Behind(VM(w), cut, Now(w), k)
  <2> DEFINE N == VM(w)
             P == M \union {m}
  <2>1. N \in SUBSET P /\ Now(w) = turn + 1 /\ Times(P, turn + 1) /\ Apart(P, cut)
        /\ Behind(P, cut, turn + 1, k)
    BY <1>11, <1>13, <1>16
  <2> HIDE DEF N, P
  <2>2. Times(N, turn + 1) /\ Apart(N, cut) /\ Behind(N, cut, turn + 1, k)
    BY <2>1, FewerMarks
  <2> QED BY <2>1, <2>2 DEF N
<1>18. \A i \in DOMAIN d2 : d2[i] = Save(x) \/ d2[i] = SaveKey(k)
  <2> HIDE DEF v, l, M
  <2>1. \A i \in DOMAIN d1 : d1[i] = Save(x)
    BY <1>1, <1>6, AppendIs, NoWrites DEF d
  <2> HIDE DEF d1
  <2>2. \A i \in DOMAIN d2 : \/ i \in DOMAIN d1 /\ d2[i] = d1[i]
                            \/ d2[i] = SaveKey(k)
    BY <1>6, <1>9, AppendIs DEF d2
  <2> QED BY <2>1, <2>2
<1>19. \E i \in DOMAIN d2 : d2[i] = SaveKey(k)
  <2> HIDE DEF d1, v, l, M
  <2> DEFINE b == SaveKey(k)
             e2 == Append(d1, b)
  <2>1. d1 \in Seq(Writes) /\ b \in Writes /\ d2 = e2
    BY <1>6, <1>9 DEF d2
  <2> HIDE DEF b
  <2>2. \E i \in DOMAIN e2 : e2[i] = b
    BY <2>1, AppendIs, Zenon
  <2> QED BY <2>1, <2>2 DEF b
<1>20. Ring(VM(w), cut, Now(w), fileKey, w.due, w.last)
  <2>1. BehindFile(VM(w), cut, Now(w), fileKey, w.due)
    <3> SUFFICES ASSUME fileKey # -1, NEW n \in VM(w), n.time \notin cut,
                        n.time = Now(w) => \A i \in DOMAIN w.due : w.due[i].key # -1
                 PROVE  Now(w) - n.time >= Ahead(n.key, fileKey)
      BY DEF BehindFile
    <3>1. n.time # turn + 1
      BY <1>6, <1>10, <1>11, <1>19
    <3>2. n \in M
      BY <1>8, <1>13, <3>1
    <3>3. Behind(M, cut, turn + 1, e)
      BY <1>1, <1>12, <1>14, BehindLater
    <3> QED BY <1>11, <3>2, <3>3 DEF Behind, e
  <2>2. \A i \in DOMAIN w.due : w.due[i].key = -1 => w.due[i].value = k
    BY <1>2, <1>6, <1>10, <1>18
  <2> QED BY <1>10, <1>17, <2>1, <2>2 DEF Ring
<1>21. Prefix(file, fileKey, w.list, w.due, w.last)
  <2>1. Prefix(file, fileKey, l, d, v.last)
    BY <1>1 DEF ViewInv
  <2>2. Reached(file, d, e)
    BY <2>1, NoWrites DEF Prefix, Reached, e
  <2>3. e = -1 \/ file[e] # Absent
    BY <2>2, NoWrites DEF Reached, d
  <2>4. ASSUME NEW j \in Keys, j < k PROVE file[j] # Absent
    <3>1. e # -1 /\ j <= e /\ e \in Keys
      BY <1>1, <1>2, <2>4, KeysAre DEF NextOf
    <3>2. j = e \/ j < e
      BY <3>1, KeysAre
    <3> QED BY <2>1, <2>3, <3>1, <3>2 DEF Prefix, NoGap
  <2>5. Ordered(file, d1)
    BY <1>1, <1>2, <1>6, <2>1, <2>4, OrderedAppend DEF Prefix
  <2>6. Reached(file, d1, k) /\ \A y \in l : Reached(file, d1, y.key)
    BY <1>1, <1>6, <2>1, ReachedAppend DEF Prefix
  <2> HIDE DEF d1
  <2>7. Ordered(file, d2)
    BY <1>2, <1>6, <1>9, <2>5, <2>6, KeysAre, OrderedAppend DEF d2
  <2>8. Reached(file, d2, k) /\ \A y \in w.list : Reached(file, d2, y.key)
    BY <1>5, <1>6, <1>9, <1>10, <2>6, ReachedAppend DEF d2
  <2> QED BY <1>10, <2>1, <2>7, <2>8 DEF Prefix
<1>22. \A y \in l : y.id # c
  BY DEF Has
<1>23. Ids(w.list)
  BY <1>4, <1>5, <1>10, <1>22 DEF ViewInv, Ids
<1>24. \A j \in Keys : \A q : After(file, d2, j, q) <=> IF j = k THEN q = r ELSE After(file, d, j, q)
  <2>1. \A j \in Keys : \A q : After(file, d1, j, q) <=> IF k = j THEN r = q ELSE After(file, d, j, q)
    BY <1>1, <1>6, AfterAppend
  <2> HIDE DEF d1
  <2>2. \A j \in Keys : \A q : After(file, d2, j, q) <=> After(file, d1, j, q)
    BY <1>6, <1>9, AfterAppend, KeysAre DEF d2
  <2> QED BY <2>1, <2>2
<1>25. Listed(file, w.list, w.due, Sh(w))
  <2> SUFFICES ASSUME NEW y \in w.list, y.key \notin Sh(w) PROVE After(file, w.due, y.key, y.rec)
    BY DEF Listed
  <2>1. y.key \in Keys /\ y.key \notin Common(w.list)
    BY <1>10 DEF Sh, Views, Items
  <2>2. CASE y = x
    BY <1>5, <1>10, <1>24, <2>1, <2>2
  <2>3. CASE y # x
    <3>1. y \in l /\ y.key # k
      BY <1>5, <1>10, <2>1, <2>3 DEF Common
    <3>2. y.key \notin Sh(v)
      BY <1>10, <2>1 DEF Sh, Common
    <3>3. After(file, d, y.key, y.rec)
      BY <1>1, <3>1, <3>2 DEF ViewInv, Listed
    <3> QED BY <1>10, <1>24, <2>1, <3>1, <3>3
  <2> QED BY <2>2, <2>3
<1>26. Filed(file, w.list, w.due)
  <2> SUFFICES ASSUME NEW j \in Keys, NEW q \in Records, After(file, w.due, j, q)
               PROVE  \E y \in w.list : y.key = j /\ y.rec = q
    BY DEF Filed
  <2>1. CASE j = k
    BY <1>5, <1>10, <1>24, <2>1
  <2>2. CASE j # k
    <3>1. After(file, d, j, q)
      BY <1>10, <1>24, <2>2
    <3> QED BY <1>1, <1>10, <3>1 DEF ViewInv, Filed
  <2> QED BY <2>1, <2>2
<1>27. OwnList(w.list, Rl, phase)
  <2>1. \A y \in w.list : y = x \/ y \in l
    BY <1>10
  <2>2. c \notin Rl => \A y \in l : y.rec.call # c
    BY NoOtherMark
  <2>3. OwnList(l, Rl, phase)
    BY DEF ViewInv
  <2> QED BY <1>4, <1>5, <2>1, <2>2, <2>3 DEF OwnList
<1>28. OwnMarks(VM(w), Rl, phase)
  <2>1. c \notin Rl => \A n \in M : n.call # c
    BY NoOtherMark
  <2>2. OwnMarks(M, Rl, phase)
    BY DEF ViewInv
  <2>3. OwnMarks(M \union {m}, Rl, phase)
    <3>1. \A n \in M \union {m} : n.call \in Calls => phase[n.call] # "new"
      BY <1>3, <1>8, <2>2 DEF OwnMarks
    <3>2. ASSUME NEW a \in M \union {m}, NEW b \in M \union {m}, a.call = b.call, a.call \in Calls \ Rl
          PROVE  a.key = b.key
      <4>1. CASE a \in M /\ b \in M
        BY <2>2, <3>2, <4>1 DEF OwnMarks
      <4>2. CASE a = m \/ b = m
        BY <1>8, <2>1, <3>2, <4>2
      <4> QED BY <4>1, <4>2
    <3> QED BY <3>1, <3>2 DEF OwnMarks
  <2> QED BY <1>13, <2>3, FewerMarks
<1>29. Has(w.list, c) /\ \A y \in w.list : y.id # c => y \in View.list
  BY <1>5, <1>10 DEF Has
<1> QED BY <1>10, <1>17, <1>20, <1>21, <1>23, <1>25, <1>26, <1>27, <1>28, <1>29 DEF ViewInv, w

LEMMA EntryIs ==
  ASSUME NEW v, NEW c \in Calls, ViewInv(v, c), Has(v.list, c)
  PROVE  /\ EntryOf(v.list, c) \in v.list /\ EntryOf(v.list, c).id = c
         /\ EntryOf(v.list, c) \in Items
         /\ \A y \in v.list : y.id = c => y = EntryOf(v.list, c)
<1>1. EntryOf(v.list, c) \in v.list /\ EntryOf(v.list, c).id = c
  BY DEF Has, EntryOf
<1>2. v.list \in SUBSET Items
  BY DEF ViewInv, Views
<1>3. \A y \in v.list : y.id = c => y = EntryOf(v.list, c)
  BY <1>1 DEF ViewInv, Ids
<1> QED BY <1>1, <1>2, <1>3

LEMMA PutIs ==
  ASSUME NEW v, NEW c \in Calls, ViewInv(v, c), NEW x, NEW new
  PROVE  Put(v, x, new).list = (v.list \ {x}) \union {new}
<1> QED BY DEF ViewInv, Views, Put

\* Marking an entry keeps its key and whose it is.
LEMMA MarkedIs ==
  ASSUME NEW x \in Items
  PROVE  /\ \A t \in {"out", "in", "miss"} : LET n == [x EXCEPT !.rec.type = t]
            IN  n \in Items /\ n.key = x.key /\ n.id = x.id /\ n.rec.call = x.rec.call
                /\ n.rec.time = x.rec.time /\ n.rec.type = t
         /\ \A w \in {"timed", "ended"} : LET n == [x EXCEPT !.rec.said = w]
            IN  n \in Items /\ n.key = x.key /\ n.id = x.id /\ n.rec.call = x.rec.call
                /\ n.rec.time = x.rec.time /\ n.rec.said = w
<1>1. x.rec \in Records
  BY DEF Items
<1>2. \A t \in {"out", "in", "miss"} :
         LET q == [x.rec EXCEPT !.type = t]
         IN  q \in Records /\ q.call = x.rec.call /\ q.time = x.rec.time /\ q.type = t
  BY <1>1 DEF Records
<1>3. \A w \in {"timed", "ended"} :
         LET q == [x.rec EXCEPT !.said = w]
         IN  q \in Records /\ q.call = x.rec.call /\ q.time = x.rec.time /\ q.said = w
  BY <1>1 DEF Records
<1>4. \A q \in Records : LET n == [x EXCEPT !.rec = q]
         IN  n \in Items /\ n.key = x.key /\ n.id = x.id /\ n.rec = q
  BY DEF Items
<1>5. \A t : [x EXCEPT !.rec.type = t] = [x EXCEPT !.rec = [x.rec EXCEPT !.type = t]]
  OBVIOUS
<1>6. \A w : [x EXCEPT !.rec.said = w] = [x EXCEPT !.rec = [x.rec EXCEPT !.said = w]]
  OBVIOUS
<1>7. ASSUME NEW t \in {"out", "in", "miss"}
      PROVE  LET n == [x EXCEPT !.rec.type = t]
             IN  n \in Items /\ n.key = x.key /\ n.id = x.id /\ n.rec.call = x.rec.call
                 /\ n.rec.time = x.rec.time /\ n.rec.type = t
  <2> DEFINE q == [x.rec EXCEPT !.type = t]
             n == [x EXCEPT !.rec = q]
  <2>1. q \in Records /\ q.call = x.rec.call /\ q.time = x.rec.time /\ q.type = t
    BY <1>2
  <2> HIDE DEF q
  <2>2. n \in Items /\ n.key = x.key /\ n.id = x.id /\ n.rec = q
    BY <1>4, <2>1
  <2>3. [x EXCEPT !.rec.type = t] = n
    BY <1>5 DEF q
  <2> HIDE DEF n
  <2> QED BY <2>1, <2>2, <2>3
<1>8. ASSUME NEW t \in {"timed", "ended"}
      PROVE  LET n == [x EXCEPT !.rec.said = t]
             IN  n \in Items /\ n.key = x.key /\ n.id = x.id /\ n.rec.call = x.rec.call
                 /\ n.rec.time = x.rec.time /\ n.rec.said = t
  <2> DEFINE q == [x.rec EXCEPT !.said = t]
             n == [x EXCEPT !.rec = q]
  <2>1. q \in Records /\ q.call = x.rec.call /\ q.time = x.rec.time /\ q.said = t
    BY <1>3
  <2> HIDE DEF q
  <2>2. n \in Items /\ n.key = x.key /\ n.id = x.id /\ n.rec = q
    BY <1>4, <2>1
  <2>3. [x EXCEPT !.rec.said = t] = n
    BY <1>6 DEF q
  <2> HIDE DEF n
  <2> QED BY <2>1, <2>2, <2>3
<1> QED BY <1>7, <1>8

\* Calls::Add keeps the invariant.
LEMMA AddKeeps ==
  ASSUME Types, NEW c \in Going, NEW t \in {"out", "in", "miss"},
         NEW v, ViewInv(v, c), Now(View) = turn
  PROVE  ViewInv(Add(v, c, t), c)
<1>1. c \in Calls
  BY DEF Going
<1>2. CASE Has(v.list, c)
  <2> DEFINE x == EntryOf(v.list, c)
             n == [x EXCEPT !.rec.type = t]
  <2>1. x \in v.list /\ x.id = c /\ x \in Items
    BY <1>1, <1>2, EntryIs
  <2>2. Add(v, c, t) = IF x.rec.type = t THEN v ELSE Put(v, x, n)
    BY <1>2 DEF Add
  <2> HIDE DEF x
  <2>3. n \in Items /\ n.key = x.key /\ n.id = x.id /\ n.rec.call = x.rec.call
        /\ n.rec.time = x.rec.time
    BY <2>1, MarkedIs
  <2> HIDE DEF n
  <2>4. ViewInv(Put(v, x, n), c)
    BY <1>1, <2>1, <2>3, PutKeeps
  <2> QED BY <2>2, <2>4
<1>3. CASE ~Has(v.list, c)
  <2>1. v = View
    BY <1>3 DEF ViewInv
  <2> QED BY <1>3, <2>1, EnterKeeps
<1> QED BY <1>2, <1>3

\* ... and so do Calls::SetDuration and Calls::SetInfo, which mark all that the
\* list has of the call.
LEMMA NoteKeeps ==
  ASSUME Types, NEW c \in Calls, NEW what \in {"timed", "ended"}, NEW v, ViewInv(v, c)
  PROVE  /\ ViewInv(Note(v, c, what), c)
         /\ \A y \in Note(v, c, what).list : y.id = c => y.rec.said = what
<1>1. CASE Has(v.list, c)
  <2> DEFINE x == EntryOf(v.list, c)
             n == [x EXCEPT !.rec.said = what]
  <2>1. x \in v.list /\ x.id = c /\ x \in Items /\ \A y \in v.list : y.id = c => y = x
    BY <1>1, EntryIs
  <2>2. Note(v, c, what) = Put(v, x, n)
    BY <1>1 DEF Note
  <2> HIDE DEF x
  <2>3. n \in Items /\ n.key = x.key /\ n.id = x.id /\ n.rec.call = x.rec.call
        /\ n.rec.time = x.rec.time /\ n.rec.said = what
    BY <2>1, MarkedIs
  <2> HIDE DEF n
  <2>4. ViewInv(Put(v, x, n), c)
    BY <2>1, <2>3, PutKeeps
  <2>5. Put(v, x, n).list = (v.list \ {x}) \union {n}
    BY PutIs
  <2> QED BY <2>1, <2>2, <2>3, <2>4, <2>5
<1>2. CASE ~Has(v.list, c)
  BY <1>2 DEF Note, Has
<1> QED BY <1>1, <1>2

\* OnEndCall.
LEMMA EndKeeps ==
  ASSUME Types, NEW c \in Going, NEW missed \in BOOLEAN, NEW u, ViewInv(u, c), Now(View) = turn
  PROVE  /\ ViewInv(EndOfCall(u, c, missed), c)
         /\ \A y \in EndOfCall(u, c, missed).list : y.id = c => y.rec.said = "ended"
<1> DEFINE v == IF missed THEN Add(u, c, "miss") ELSE u
<1>1. c \in Calls
  BY DEF Going
<1>2. ViewInv(v, c)
  BY AddKeeps
<1>3. EndOfCall(u, c, missed) = Note(Note(v, c, "timed"), c, "ended")
  BY DEF EndOfCall
<1> HIDE DEF v
<1>4. ViewInv(Note(v, c, "timed"), c)
  BY <1>1, <1>2, NoteKeeps
<1> QED BY <1>1, <1>3, <1>4, NoteKeeps

-----------------------------------------------------------------------------
(* The steps.                                                              *)

LEMMA WritesAre ==
  ASSUME NEW d \in Seq(Writes)
  PROVE  \A i \in DOMAIN d : \/ d[i].key \in Keys /\ d[i].value \in Records \union {Null}
                             \/ d[i].key = -1 /\ d[i].value \in Keys
<1>1. \A i \in DOMAIN d : d[i] \in Writes
  OBVIOUS
<1> QED BY <1>1 DEF Writes

\* The state after a handler is what the handler makes of the page.
LEMMA BecomeKeeps ==
  ASSUME Inv, NEW c \in Going, NEW w, ViewInv(w, c), Become(w),
         NEW p \in {"going", "hung", "over"}, phase' = [phase EXCEPT ![c] = p],
         p = "over" => \A y \in w.list : y.id = c => y.rec.said = "ended"
  PROVE  Inv'
<1> USE TypesAre DEF Inv
<1>1. c \in Calls /\ phase[c] \in {"going", "hung"}
  BY DEF Going
<1>2. /\ file' = file /\ fileKey' = fileKey /\ list' = w.list /\ writes' = w.due
      /\ lastKey' = w.last /\ filter' = NoFilter /\ cut' = cut /\ turn' = Now(w)
      /\ relisted' = Rl
  BY DEF Become, Now, Rl
<1>3. shared' = Sh(w)
  BY DEF Become, Sh, Common
<1>4. w \in Views /\ w.list \in SUBSET Items /\ w.due \in Seq(Writes) /\ w.last \in Keys \union {-1}
  BY DEF ViewInv, Views
<1>5. /\ \A b \in Calls : phase[b] = "over" => phase'[b] = "over"
      /\ \A b \in Calls : phase[b] # "new" => phase'[b] # "new"
      /\ phase' \in [Calls -> {"new", "going", "hung", "over"}]
      /\ phase'[c] = p /\ \A b \in Calls : b # c => phase'[b] = phase[b]
  BY <1>1
<1>6. Types'
  <2>1. turn' \in Nat /\ turn' >= turn
    BY <1>2 DEF Now
  <2>2. relisted' \subseteq Calls
    BY <1>2 DEF Rl, Going
  <2>3. shared' \subseteq Keys
    BY <1>3, <1>4 DEF Sh, Common, Items
  <2>4. cut' \subseteq 1 .. turn'
    BY <1>2, <2>1
  <2>5. file' \in [Keys -> Records \union {Absent, Null}] /\ fileKey' \in Keys \union {-1}
        /\ list' \subseteq Items /\ lastKey' \in Keys \union {-1} /\ filter' \in Filters \union {NoFilter}
    BY <1>2, <1>4 DEF Files
  <2>6. \A i \in DOMAIN writes' :
           \/ writes'[i].key \in Keys /\ writes'[i].value \in Records \union {Null}
           \/ writes'[i].key = -1 /\ writes'[i].value \in Keys
    BY <1>2, <1>4, WritesAre
  <2> QED BY <1>2, <1>4, <1>5, <2>1, <2>2, <2>3, <2>4, <2>5, <2>6 DEF Types, TypeOK
<1>7. Present' = VM(w)
  BY <1>2 DEF Present, VM
<1>8. Ids(list)' /\ (~IsFiltered => Filed(file, list, writes))'
      /\ Prefix(file, fileKey, list, writes, lastKey)'
  <2>1. Ids(list')
    BY <1>2 DEF ViewInv
  <2>2. Filed(file', list', writes')
    BY <1>2 DEF ViewInv
  <2>3. Prefix(file', fileKey', list', writes', lastKey')
    BY <1>2 DEF ViewInv
  <2> QED BY <2>1, <2>2, <2>3
<1>9. Times(Present', turn')
  BY <1>2, <1>7 DEF ViewInv
<1>10. Common(list') \subseteq shared'
  BY <1>2, <1>3 DEF Sh
<1>11. Listed(file', list', writes', shared')
  BY <1>2, <1>3 DEF ViewInv
<1>12. OwnList(list', relisted', phase')
  BY <1>2, <1>5 DEF ViewInv, OwnList
<1>13. OwnMarks(Present', relisted', phase')
  BY <1>2, <1>5, <1>7 DEF ViewInv, OwnMarks
<1>14. ~IsFiltered'
  BY <1>2 DEF IsFiltered
<1>15. Ring(Present', cut', turn', fileKey', writes', lastKey')
  BY <1>2, <1>7 DEF ViewInv
<1>16. EndIsNoted'
  <2> SUFFICES ASSUME NEW y \in w.list, y.id \in Calls, phase'[y.id] = "over"
               PROVE  y.rec.said = "ended"
    BY <1>2 DEF EndIsNoted
  <2>1. CASE y.id = c
    BY <1>5, <2>1
  <2>2. CASE y.id # c
    <3>1. phase[y.id] = "over"
      BY <1>5, <2>2
    <3>2. y \in Shown
      BY <2>2 DEF ViewInv, View
    <3>3. ~IsFiltered
      <4>1. ASSUME IsFiltered PROVE FALSE
        <5>1. y \in Loaded(file, fileKey, NoFilter)
          BY <3>2, <4>1 DEF Shown
        <5>2. y.id = NoId
          BY <5>1, LoadedIs DEF Prefix
        <5> QED BY <5>2, NoIdAssumption
      <4> QED BY <4>1
    <3>4. y \in list
      BY <3>2, <3>3 DEF Shown
    <3> QED BY <3>1, <3>4 DEF EndIsNoted
  <2> QED BY <2>1, <2>2
<1> QED BY <1>6, <1>8, <1>9, <1>10, <1>11, <1>12, <1>13, <1>14, <1>15, <1>16 DEF Hidden

\* What begins has no entry and no record.
LEMMA BeginKeeps == ASSUME Inv, NEW c \in Calls, Begin(c) PROVE Inv'
<1> USE TypesAre DEF Inv
<1>1. /\ phase[c] = "new" /\ phase' = [phase EXCEPT ![c] = "going"]
      /\ file' = file /\ fileKey' = fileKey /\ list' = list /\ lastKey' = lastKey
      /\ filter' = filter /\ writes' = writes /\ turn' = turn /\ cut' = cut
      /\ relisted' = relisted /\ shared' = shared
  BY DEF Begin, memory, history
<1>2. /\ phase' \in [Calls -> {"new", "going", "hung", "over"}]
      /\ \A b \in Calls : phase[b] = "over" <=> phase'[b] = "over"
      /\ \A b \in Calls : phase[b] # "new" => phase'[b] # "new"
      /\ \A b \in Calls : b # c => phase'[b] = phase[b]
  BY <1>1
<1>3. Types'
  BY <1>1, <1>2 DEF Types, TypeOK
<1>4. Present' = Present
  BY <1>1 DEF Present
<1>5. OwnList(list, relisted, phase')
  BY <1>2 DEF OwnList
<1>6. OwnMarks(Present, relisted, phase')
  BY <1>2 DEF OwnMarks
<1>7. IsFiltered' <=> IsFiltered
  BY <1>1 DEF IsFiltered
<1>8. Hidden(Present)'
  <2>1. ASSUME IsFiltered, NEW m \in Present PROVE m.call \notin Going' \ relisted
    <3>1. m.call \notin Going \ relisted
      BY <2>1 DEF Hidden
    <3>2. m.call # c
      BY <1>1 DEF OwnMarks
    <3> QED BY <1>2, <3>1, <3>2 DEF Going
  <2> QED BY <1>1, <1>4, <1>7, <2>1 DEF Hidden
<1>9. EndIsNoted'
  BY <1>1, <1>2 DEF EndIsNoted
<1> QED BY <1>1, <1>3, <1>4, <1>5, <1>6, <1>7, <1>8, <1>9

\* The list was loaded: CallsLoad finds everything the file keeps.
JustLoaded ==
  /\ file \in Files /\ fileKey \in Keys \union {-1} /\ NoGap(file)
  /\ fileKey # -1 => file[fileKey] # Absent
  /\ list = Loaded(file, fileKey, filter) /\ lastKey = KeyLoaded(file, fileKey)
  /\ writes = <<>> /\ filter \in Filters \union {NoFilter} /\ shared = {}
  /\ turn \in Nat /\ cut \subseteq 1 .. turn
  /\ phase \in [Calls -> {"new", "going", "hung", "over"}]
  /\ Going \subseteq relisted /\ relisted \subseteq Calls
  /\ Times(Present, turn) /\ OwnMarks(Present, relisted, phase)
  /\ Apart(Present, cut) /\ BehindFile(Present, cut, turn, fileKey, <<>>)

LEMMA LoadedKeeps == JustLoaded => Inv
<1> SUFFICES ASSUME JustLoaded PROVE Inv
  OBVIOUS
<1> DEFINE L == Loaded(file, fileKey, filter)
<1>1. /\ list = L /\ L \subseteq Items
      /\ \A x \in L : x.key \in Keys /\ file[x.key] \in Records /\ x.rec = file[x.key] /\ x.id = NoId
      /\ \A x, y \in L : x.key = y.key => x = y
      /\ filter = NoFilter => \A k \in Keys : file[k] \in Records => \E x \in L : x.key = k /\ x.rec = file[k]
  BY LoadedIs DEF JustLoaded, Items
<1> HIDE DEF L
<1>2. \A k \in Keys : file[k] \in Records => file[k].time \in 1 .. turn
  <2>1. \A k \in Keys : file[k] \in Records => Mark(k, file[k]) \in Present
    BY DEF Present, Marks
  <2> QED BY <2>1, MarkFields DEF JustLoaded, Times
<1>3. /\ lastKey \in Keys \union {-1}
      /\ lastKey = fileKey \/ (lastKey \in Keys /\ file[lastKey] \in Records)
  BY <1>2, KeyLoadedIs DEF JustLoaded
<1>4. Types
  BY <1>1, <1>3, NoWrites DEF JustLoaded, Types, TypeOK, Files
<1>5. Ids(list)
  BY <1>1, NoIdAssumption DEF Ids
<1>6. Common(list) = {}
  <2>1. \A x, y \in list : y.key = x.key => y = x
    BY <1>1
  <2>2. {y \in list : \E z \in list : z # y /\ z.key = y.key} = {}
    BY <2>1
  <2> QED BY <2>2 DEF Common
<1>7. Listed(file, list, writes, shared) /\ (~IsFiltered => Filed(file, list, writes))
  <2>1. writes = <<>> /\ (~IsFiltered => filter = NoFilter)
    BY DEF JustLoaded, IsFiltered
  <2>2. Listed(file, list, writes, shared)
    BY <1>1, <2>1, AfterNone DEF Listed
  <2>3. ~IsFiltered => Filed(file, list, writes)
    BY <1>1, <2>1, AfterNone DEF Filed
  <2> QED BY <2>2, <2>3
<1>8. Prefix(file, fileKey, list, writes, lastKey)
  <2>1. \A x \in list : Reached(file, <<>>, x.key)
    BY <1>1, FileAssumption DEF Reached
  <2>2. Reached(file, <<>>, lastKey)
    BY <1>3, FileAssumption DEF Reached, JustLoaded
  <2>3. Ordered(file, <<>>)
    BY DEF Ordered
  <2> QED BY <2>1, <2>2, <2>3 DEF Prefix, JustLoaded
<1>9. OwnList(list, relisted, phase)
  <2>1. \A x \in list : Mark(x.key, x.rec) \in Present
    BY DEF Present, Marks
  <2>2. ASSUME NEW x \in list, x.rec.call \in Calls
        PROVE  x.rec.call \in relisted \/ phase[x.rec.call] = "over"
    <3>1. phase[x.rec.call] # "new"
      BY <2>1, <2>2, MarkFields DEF OwnMarks, JustLoaded
    <3>2. phase[x.rec.call] \in {"new", "going", "hung", "over"} /\ Going \subseteq relisted
      BY <2>2 DEF JustLoaded
    <3> QED BY <2>2, <3>1, <3>2 DEF Going
  <2>3. \A x, y \in list : x.rec.call = y.rec.call /\ x.rec.call \in Calls \ relisted => x = y
    BY <1>1, <2>1, MarkFields DEF OwnMarks, JustLoaded
  <2> QED BY <2>2, <2>3 DEF OwnList
<1>10. Hidden(Present)
  BY DEF Hidden, JustLoaded
<1>11. Ring(Present, cut, turn, fileKey, writes, lastKey)
  <2>1. Behind(Present, cut, turn, lastKey)
    <3>1. Present = Marks(file, Loaded(file, fileKey, filter), <<>>)
      BY DEF Present, JustLoaded
    <3> QED BY <3>1, LoadedBehind DEF JustLoaded
  <2> QED BY <2>1, NoWrites DEF JustLoaded, Ring
<1>12. EndIsNoted
  BY <1>1, NoIdAssumption DEF EndIsNoted
<1> QED BY <1>4, <1>5, <1>6, <1>7, <1>8, <1>9, <1>10, <1>11, <1>12 DEF Inv, JustLoaded

LEMMA LoadedNext == JustLoaded' => Inv'
<1> QED BY LoadedKeeps, PTL

LEMMA InitHolds == Init => Inv
<1> SUFFICES ASSUME Init PROVE JustLoaded
  BY LoadedKeeps
<1>1. PICK n \in 0 .. KeyCount, known \in BOOLEAN :
         /\ file = [i \in Keys |-> IF i < n THEN Earlier(i) ELSE Absent]
         /\ fileKey = IF known THEN n - 1 ELSE -1
         /\ filter = NoFilter
         /\ list = Loaded(file, fileKey, NoFilter)
         /\ lastKey = KeyLoaded(file, fileKey)
         /\ writes = <<>>
         /\ phase = [c \in Calls |-> "new"]
         /\ turn = n
         /\ cut = {} /\ relisted = {} /\ shared = {}
  BY DEF Init
<1>2. n \in Nat /\ n <= KeyCount /\ Keys = 0 .. KeyCount - 1 /\ KeyCount \in Nat
  BY KeyCountAssumption DEF Keys
<1>3. \A i \in Keys : i \in Nat /\ Earlier(i) \in Records /\ Earlier(i).time = i + 1 /\ Earlier(i).call = NoId
  BY <1>2 DEF Earlier, Records
<1> HIDE DEF Earlier
<1>4. \A i \in Keys : /\ i < n => file[i] = Earlier(i) /\ file[i] \in Records /\ file[i] # Absent
                      /\ ~(i < n) => file[i] = Absent /\ file[i] \notin Records
  BY <1>1, <1>3, FileAssumption
<1>5. file \in Files
  BY <1>1, <1>3 DEF Files
<1>6. NoGap(file)
  BY <1>2, <1>3, <1>4 DEF NoGap
<1>7. fileKey \in Keys \union {-1} /\ (fileKey # -1 => file[fileKey] # Absent /\ fileKey = n - 1)
  <2>1. n - 1 \in Keys \union {-1}
    BY <1>2
  <2>2. n - 1 \in Keys => file[n - 1] # Absent
    BY <1>2, <1>4
  <2> QED BY <1>1, <2>1, <2>2
<1>8. \A m \in Present : m.key \in Keys /\ m.key < n /\ m.time = m.key + 1 /\ m.call = NoId
  <2>1. Present \subseteq Marks(file, {}, <<>>)
    BY <1>1, <1>5, <1>6, <1>7, LoadedMarks DEF Present
  <2>2. \A m \in Present : \E k \in Keys : file[k] \in Records /\ m = Mark(k, file[k])
    BY <2>1, NoWrites DEF Marks
  <2> QED BY <1>3, <1>4, <2>2, MarkFields
<1>9. \A m \in Present : m.key \in Nat /\ m.time \in Nat /\ m.time <= n /\ m.time >= 1
  BY <1>2, <1>3, <1>8
<1>10. Times(Present, turn)
  <2>1. \A m \in Present : m.time \in 1 .. n
    BY <1>2, <1>9
  <2>2. \A m, o \in Present : m.time = o.time => m.key = o.key
    BY <1>8, <1>9
  <2> QED BY <1>1, <2>1, <2>2 DEF Times
<1>11. OwnMarks(Present, relisted, phase)
  BY <1>8, NoIdAssumption DEF OwnMarks
<1>12. Apart(Present, cut)
  <2> SUFFICES ASSUME NEW m \in Present, NEW o \in Present, m.time < o.time
               PROVE  o.time - m.time >= Dist(m.key, o.key)
    BY DEF Apart
  <2>1. m.key < o.key /\ o.time - m.time = o.key - m.key /\ o.key - m.key \in Nat
    BY <1>8, <1>9
  <2> QED BY <2>1 DEF Dist
<1>13. BehindFile(Present, cut, turn, fileKey, <<>>)
  <2> SUFFICES ASSUME fileKey # -1, NEW m \in Present
               PROVE  turn - m.time >= Ahead(m.key, fileKey)
    BY DEF BehindFile
  <2>1. fileKey = n - 1 /\ turn = n
    BY <1>1, <1>7
  <2>2. n - 1 >= m.key /\ n - m.time = (n - 1) - m.key /\ (n - 1) - m.key \in Nat
    BY <1>2, <1>8, <1>9
  <2> QED BY <2>1, <2>2 DEF Ahead
<1>14. Going = {} /\ phase \in [Calls -> {"new", "going", "hung", "over"}]
  BY <1>1 DEF Going
<1> QED BY <1>1, <1>2, <1>5, <1>6, <1>7, <1>10, <1>11, <1>12, <1>13, <1>14 DEF JustLoaded

LEMMA FilterKeeps == ASSUME Inv, NEW flt \in Filters \union {NoFilter}, TypeFilter(flt) PROVE Inv'
<1> USE TypesAre DEF Inv
<1>1. /\ writes = <<>> /\ writes' = <<>> /\ file' = file /\ fileKey' = fileKey /\ phase' = phase
      /\ filter' = flt /\ turn' = turn /\ cut' = cut /\ shared' = {}
      /\ relisted' = relisted \union Going
      /\ list' = Loaded(file, fileKey, flt) /\ lastKey' = KeyLoaded(file, fileKey)
  BY DEF TypeFilter, Idle
<1>2. Present' \in SUBSET Present
  BY <1>1, LoadedMarks DEF Present, Prefix
<1>3. /\ Times(Present', turn) /\ OwnMarks(Present', relisted, phase) /\ Apart(Present', cut)
      /\ BehindFile(Present', cut, turn, fileKey, writes)
  BY <1>2, FewerMarks DEF Ring
<1>4. OwnMarks(Present', relisted', phase')
  BY <1>1, <1>3 DEF OwnMarks
<1>5. Going' = Going /\ Going \subseteq Calls
  BY <1>1 DEF Going
<1>6. JustLoaded'
  BY <1>1, <1>3, <1>4, <1>5 DEF JustLoaded, Prefix
<1> QED BY <1>6, LoadedNext

\* The entry whose key was not saved in time is the one that was made last.
LEMMA RestartKeeps == ASSUME Inv, Restart PROVE Inv'
<1> USE TypesAre DEF Inv
<1> DEFINE C == {file[k] : k \in {k \in Keys : /\ file[k] \notin {Absent, Null}
                                               /\ file[k].time = turn
                                               /\ \E i \in DOMAIN writes : writes[i].key = -1 /\ writes[i].value = k}}
<1>1. /\ writes' = <<>> /\ file' = file /\ fileKey' = fileKey
      /\ phase' = [c \in Calls |-> IF c \in Going THEN "over" ELSE phase[c]]
      /\ filter' = NoFilter /\ turn' = turn /\ shared' = {} /\ relisted' = relisted
      /\ list' = Loaded(file, fileKey, NoFilter) /\ lastKey' = KeyLoaded(file, fileKey)
  BY DEF Restart
<1>2. cut' = cut \union {f.time : f \in C}
  BY DEF Restart
<1>3. Present' \in SUBSET Present
  BY <1>1, LoadedMarks DEF Present, Prefix
<1>4. /\ Times(Present', turn) /\ OwnMarks(Present', relisted, phase) /\ Apart(Present', cut')
  BY <1>2, <1>3, FewerMarks DEF Ring
<1>5. /\ phase' \in [Calls -> {"new", "going", "hung", "over"}]
      /\ \A c \in Calls : phase[c] # "new" => phase'[c] # "new"
      /\ Going' = {}
  BY <1>1 DEF Going
<1>6. OwnMarks(Present', relisted', phase')
  BY <1>1, <1>4, <1>5 DEF OwnMarks
<1>7. cut' \subseteq 1 .. turn
  <2>1. \A k \in Keys : file[k] \notin {Absent, Null} => file[k].time \in 1 .. turn
    <3>1. \A k \in Keys : file[k] \notin {Absent, Null} => file[k] \in Records
      BY DEF Files
    <3>2. \A k \in Keys : file[k] \in Records => Mark(k, file[k]) \in Present
      BY DEF Present, Marks
    <3> QED BY <3>1, <3>2, MarkFields DEF Times
  <2> QED BY <1>2, <2>1
<1>8. BehindFile(Present', cut', turn, fileKey, <<>>)
  <2> SUFFICES ASSUME fileKey # -1, NEW m \in Present', m.time \notin cut'
               PROVE  turn - m.time >= Ahead(m.key, fileKey)
    BY DEF BehindFile
  <2>1. m \in Present /\ m.time \notin cut
    BY <1>2, <1>3
  <2>2. PICK k \in Keys : file[k] \in Records /\ m = Mark(k, file[k])
    <3>1. Present' \subseteq Marks(file, {}, <<>>)
      BY <1>1, LoadedMarks DEF Present, Prefix
    <3>2. \A o \in Marks(file, {}, <<>>) : \E k \in Keys : file[k] \in Records /\ o = Mark(k, file[k])
      BY NoWrites DEF Marks
    <3> QED BY <3>1, <3>2
  <2>3. m.key = k /\ m.time = file[k].time /\ m.time \in Nat
    BY <2>2, MarkFields DEF Records
  <2>4. CASE m.time = turn => \A i \in DOMAIN writes : writes[i].key # -1
    BY <2>1, <2>4 DEF Ring, BehindFile
  <2>5. ASSUME m.time = turn, NEW i \in DOMAIN writes, writes[i].key = -1 PROVE FALSE
    <3> DEFINE e == writes[i].value
    <3>1. e \in Keys
      BY <2>5, WritesAre, KeysAre
    <3>2. turn - m.time >= Ahead(k, e)
      BY <2>1, <2>3, <2>5 DEF Ring, Behind
    <3> HIDE DEF e
    <3>3. Ahead(k, e) \in Nat
      BY <3>1, AheadIs
    <3>4. Ahead(k, e) = 0
      BY <2>3, <2>5, <3>2, <3>3
    <3>5. k = e
      BY <3>1, <3>4, AheadIs
    <3>6. file[k] \in C
      BY <2>2, <2>3, <2>5, <3>5, FileAssumption DEF e
    <3>7. m.time \in cut'
      BY <1>2, <2>3, <3>6
    <3> QED BY <3>7
  <2> QED BY <2>4, <2>5
<1>9. JustLoaded'
  BY <1>1, <1>4, <1>5, <1>6, <1>7, <1>8 DEF JustLoaded, Prefix
<1> QED BY <1>9, LoadedNext

LEMMA DeleteKeeps == ASSUME Inv, NEW x \in list, Delete(x) PROVE Inv'
<1> USE TypesAre DEF Inv
<1> DEFINE w == [key |-> x.key, value |-> Null]
           d == Append(<<>>, w)
           l == list \ {x}
<1>1. /\ writes = <<>> /\ list' = l /\ writes' = d
      /\ file' = file /\ fileKey' = fileKey /\ lastKey' = lastKey /\ filter' = filter
      /\ phase' = phase /\ turn' = turn /\ cut' = cut /\ relisted' = relisted /\ shared' = shared
  <2>1. <<w>> = Append(<<>>, w)
    OBVIOUS
  <2> QED BY <2>1 DEF Delete, Idle, history
<1>2. x.key \in Keys /\ x.key # -1 /\ \A y \in list : y.key \in Keys
  BY KeysAre DEF Items
<1>3. w \in Writes /\ w.key = x.key /\ w.value = Null /\ w.value \notin Records
  BY <1>2, FileAssumption DEF Writes
<1> HIDE DEF w
<1>4. <<>> \in Seq(Writes) /\ d \in Seq(Writes)
  BY <1>3, NoWrites, AppendIs
<1> HIDE DEF d
<1>5. Types'
  BY <1>1, <1>4, WritesAre DEF Types, TypeOK
<1>6. Present' \in SUBSET Present
  <2>1. Marks(file, l, <<>>) \subseteq Present
    BY <1>1 DEF Present, Marks
  <2>2. Marks(file, l, d) \subseteq Present
    BY <1>3, <1>4, <2>1, MarksAppend DEF d
  <2> QED BY <1>1, <2>2 DEF Present
<1>7. /\ Times(Present', turn) /\ OwnMarks(Present', relisted, phase)
  BY <1>6, FewerMarks
<1>8. Ids(l) /\ OwnList(l, relisted, phase)
  BY DEF Ids, OwnList
<1>9. Common(l) \subseteq shared
  BY DEF Common
<1>10. Listed(file, l, d, shared)
  <2> SUFFICES ASSUME NEW y \in l, y.key \notin shared PROVE After(file, d, y.key, y.rec)
    BY DEF Listed
  <2>1. y.key # x.key
    BY DEF Common
  <2>2. After(file, <<>>, y.key, y.rec)
    BY <1>1 DEF Listed
  <2> QED BY <1>2, <1>3, <1>4, <2>1, <2>2, AfterAppend DEF d
<1>11. ~IsFiltered => Filed(file, l, d)
  <2> SUFFICES ASSUME ~IsFiltered, NEW k \in Keys, NEW r \in Records, After(file, d, k, r)
               PROVE  \E y \in l : y.key = k /\ y.rec = r
    BY DEF Filed
  <2>1. k # x.key /\ After(file, <<>>, k, r)
    <3>1. IF w.key = k THEN w.value = r ELSE After(file, <<>>, k, r)
      BY <1>3, <1>4, AfterAppend DEF d
    <3> QED BY <1>3, <3>1
  <2> QED BY <1>1, <2>1 DEF Filed
<1>12. Prefix(file, fileKey, l, d, lastKey)
  <2>1. Reached(file, <<>>, x.key)
    BY <1>1 DEF Prefix
  <2>2. \A j \in Keys : j < w.key => file[j] # Absent
    BY <1>1, <1>2, <1>3, <2>1, ReachedIsNext DEF Prefix
  <2>3. Ordered(file, d)
    BY <1>1, <1>2, <1>3, <1>4, <2>2, OrderedAppend DEF Prefix, d
  <2>4. Reached(file, d, lastKey) /\ \A y \in l : Reached(file, d, y.key)
    BY <1>1, <1>3, <1>4, ReachedAppend DEF Prefix, d
  <2> QED BY <2>3, <2>4 DEF Prefix
<1>13. Ring(Present', cut, turn, fileKey, d, lastKey)
  BY <1>1, <1>2, <1>3, <1>4, <1>6, RingAppend DEF d
<1>14. Hidden(Present)'
  <2>1. Going' = Going /\ IsFiltered' = IsFiltered
    BY <1>1 DEF Going, IsFiltered
  <2> QED BY <1>1, <1>6, <2>1 DEF Hidden
<1>15. EndIsNoted'
  BY <1>1 DEF EndIsNoted
<1>16. IsFiltered' = IsFiltered
  BY <1>1 DEF IsFiltered
<1> QED BY <1>1, <1>5, <1>7, <1>8, <1>9, <1>10, <1>11, <1>12, <1>13, <1>14, <1>15, <1>16

\* What a write leaves to be done.
LEMMA TailIs ==
  ASSUME NEW d \in Seq(Writes), d # <<>>
  PROVE  /\ Head(d) \in Writes /\ Tail(d) \in Seq(Writes)
         /\ 1 \in DOMAIN d /\ d[1] = Head(d) /\ \A h \in DOMAIN d : ~(h < 1)
         /\ \A i \in DOMAIN Tail(d) : i + 1 \in DOMAIN d /\ Tail(d)[i] = d[i + 1] /\ i \in Nat
         /\ \A i \in DOMAIN d : i # 1 => i - 1 \in DOMAIN Tail(d) /\ Tail(d)[i - 1] = d[i]
         /\ \A i \in DOMAIN d : i \in Nat
<1> DEFINE e == Tail(d)
           n == Len(d)
<1>1. /\ n \in Nat /\ n > 0 /\ DOMAIN d = 1..n /\ DOMAIN e = 1..(n - 1)
      /\ Head(d) = d[1] /\ Head(d) \in Writes /\ e \in Seq(Writes)
      /\ \A i \in 1..(n - 1) : e[i] = d[i + 1]
  BY HeadTailProperties
<1> HIDE DEF e, n
<1>2. \A i \in 1..(n - 1) : i + 1 \in 1..n /\ i \in Nat
  BY <1>1
<1>3. ASSUME NEW i \in 1..n, i # 1 PROVE i - 1 \in 1..(n - 1) /\ e[i - 1] = d[i]
  <2>1. i - 1 \in 1..(n - 1) /\ (i - 1) + 1 = i
    BY <1>1, <1>3
  <2> QED BY <1>1, <2>1
<1>4. 1 \in 1..n /\ \A i \in 1..n : ~(i < 1) /\ i \in Nat
  BY <1>1
<1> QED BY <1>1, <1>2, <1>3, <1>4 DEF e

\* One write: what the file will keep stays the same.
LEMMA WriteKeeps == ASSUME Inv, Write PROVE Inv'
<1> USE TypesAre DEF Inv
<1> DEFINE d == writes
           e == Tail(writes)
           w == Head(writes)
           g == file'
<1>1. /\ d # <<>> /\ d \in Seq(Writes) /\ writes' = e /\ list' = list /\ lastKey' = lastKey
      /\ filter' = filter /\ phase' = phase /\ turn' = turn /\ cut' = cut
      /\ relisted' = relisted /\ shared' = shared
  BY DEF Write, Idle, memory, history
<1>2. /\ w.key = -1 => fileKey' = w.value /\ g = file
      /\ w.key # -1 => fileKey' = fileKey /\ g = [file EXCEPT ![w.key] = w.value]
  BY DEF Write
<1>3. /\ w \in Writes /\ e \in Seq(Writes) /\ 1 \in DOMAIN d /\ d[1] = w
      /\ \A i \in DOMAIN e : i + 1 \in DOMAIN d /\ e[i] = d[i + 1] /\ i \in Nat
      /\ \A i \in DOMAIN d : i # 1 => i - 1 \in DOMAIN e /\ e[i - 1] = d[i]
      /\ \A i \in DOMAIN d : i \in Nat /\ ~(i < 1)
  BY <1>1, TailIs
<1> HIDE DEF d, e, w, g
<1>4. \/ w.key \in Keys /\ w.key # -1 /\ w.value \in Records \union {Null}
      \/ w.key = -1 /\ w.value \in Keys
  BY <1>3, KeysAre DEF Writes
<1>5. \A k \in Keys : g[k] = IF w.key = k THEN w.value ELSE file[k]
  <2>1. CASE w.key = -1
    BY <1>2, <2>1, KeysAre
  <2>2. CASE w.key # -1
    BY <1>2, <2>2 DEF Files
  <2> QED BY <2>1, <2>2
<1>6. g \in Files /\ fileKey' \in Keys \union {-1}
  <2>1. CASE w.key = -1
    BY <1>2, <1>4, <2>1, KeysAre
  <2>2. CASE w.key # -1
    BY <1>2, <1>4, <2>2 DEF Files
  <2> QED BY <2>1, <2>2
<1>7. \A k \in Keys : \A r : After(g, e, k, r) <=> After(file, d, k, r)
  BY <1>1, <1>5, AfterWrite DEF e, w, d
<1>8. /\ \A k \in Keys : file[k] # Absent => g[k] # Absent
      /\ \A k \in Keys : g[k] # Absent => file[k] # Absent \/ k = w.key
      /\ w.key \in Keys => g[w.key] # Absent
  <2>1. w.key \in Keys => w.value # Absent
    BY <1>4, KeysAre, FileAssumption
  <2> QED BY <1>5, <2>1
<1>9. Types'
  <2>1. \A i \in DOMAIN e : \/ e[i].key \in Keys /\ e[i].value \in Records \union {Null}
                            \/ e[i].key = -1 /\ e[i].value \in Keys
    BY <1>3, WritesAre
  <2> QED BY <1>1, <1>3, <1>6, <2>1 DEF Types, TypeOK, Files, g
<1>10. Present' \in SUBSET Present
  <2>1. Present' = Marks(g, list, e) /\ Present = Marks(file, list, d)
    BY <1>1 DEF Present, g, d
  <2>2. \A i \in DOMAIN d : d[i].key \in Keys /\ d[i].value \in Records => Mark(d[i].key, d[i].value) \in Present
    BY <2>1 DEF Marks
  <2>3. \A y \in list : Mark(y.key, y.rec) \in Present
    BY <2>1 DEF Marks
  <2>4. ASSUME NEW k \in Keys, g[k] \in Records PROVE Mark(k, g[k]) \in Present
    <3>1. CASE w.key = k
      BY <1>3, <1>5, <2>2, <2>4, <3>1
    <3>2. CASE w.key # k
      <4>1. file[k] \in Records /\ g[k] = file[k]
        BY <1>5, <2>4, <3>2
      <4>2. Mark(k, file[k]) \in Present
        BY <2>1, <4>1 DEF Marks
      <4> QED BY <4>1, <4>2
    <3> QED BY <3>1, <3>2
  <2>5. \A i \in DOMAIN e : e[i].key \in Keys /\ e[i].value \in Records => Mark(e[i].key, e[i].value) \in Present
    BY <1>3, <2>2
  <2>6. Marks(g, list, e) \subseteq Present
    BY <2>3, <2>4, <2>5 DEF Marks
  <2> QED BY <2>1, <2>6
<1>11. Times(Present', turn) /\ OwnMarks(Present', relisted, phase)
  BY <1>10, FewerMarks
<1>12. Listed(g, list, e, shared)
  <2>1. \A y \in list : y.key \in Keys
    BY DEF Items
  <2> QED BY <1>7, <2>1 DEF Listed, d
<1>13. ~IsFiltered => Filed(g, list, e)
  BY <1>7 DEF Filed, d
<1>14. Prefix(g, fileKey', list, e, lastKey)
  <2>1. NoGap(file) /\ Ordered(file, d) /\ Reached(file, d, lastKey)
        /\ (\A y \in list : Reached(file, d, y.key)) /\ (fileKey # -1 => file[fileKey] # Absent)
    BY DEF Prefix, d
  <2>2. NoGap(g)
    <3> SUFFICES ASSUME NEW k \in Keys, NEW j \in Keys, g[k] # Absent, j < k PROVE file[j] # Absent
      BY <1>8 DEF NoGap
    <3>1. CASE file[k] # Absent
      BY <2>1, <3>1 DEF NoGap
    <3>2. CASE k = w.key
      BY <1>3, <2>1, <3>2 DEF Ordered
    <3> QED BY <1>8, <3>1, <3>2
  <2>3. Ordered(g, e)
    <3>1. ASSUME NEW i \in DOMAIN e, e[i].key \in Keys, NEW j \in Keys, j < e[i].key PROVE g[j] # Absent
      <4>1. file[j] # Absent
        BY <1>3, <2>1, <3>1 DEF Ordered
      <4> QED BY <1>8, <4>1
    <3>2. ASSUME NEW i \in DOMAIN e, e[i].key = -1
          PROVE  g[e[i].value] # Absent \/ \E h \in DOMAIN e : h < i /\ e[h].key = e[i].value
      <4> DEFINE v == e[i].value
      <4>1. e[i] = d[i + 1] /\ i + 1 \in DOMAIN d /\ i \in Nat
        BY <1>3
      <4>2. v \in Keys
        BY <1>1, <3>2, <4>1, WritesAre, KeysAre
      <4>3. file[v] # Absent \/ \E h \in DOMAIN d : h < i + 1 /\ d[h].key = v
        BY <2>1, <3>2, <4>1 DEF Ordered
      <4> HIDE DEF v
      <4>4. ASSUME NEW h \in DOMAIN d, h < i + 1, d[h].key = v
            PROVE  g[v] # Absent \/ \E q \in DOMAIN e : q < i /\ e[q].key = v
        <5>1. CASE h = 1
          BY <1>3, <1>8, <4>2, <4>4, <5>1
        <5>2. CASE h # 1
          <6>1. h - 1 \in DOMAIN e /\ e[h - 1] = d[h] /\ h - 1 < i
            BY <1>3, <4>1, <4>4, <5>2
          <6> QED BY <4>4, <6>1
        <5> QED BY <5>1, <5>2
      <4> QED BY <1>8, <4>2, <4>3, <4>4 DEF v
    <3> QED BY <3>1, <3>2 DEF Ordered
  <2>4. ASSUME NEW k \in Keys \union {-1}, Reached(file, d, k) PROVE Reached(g, e, k)
    <3>1. CASE k = -1
      BY <3>1 DEF Reached
    <3>2. CASE k \in Keys /\ file[k] # Absent
      BY <1>8, <3>2 DEF Reached
    <3>3. ASSUME k \in Keys, NEW i \in DOMAIN d, d[i].key = k PROVE Reached(g, e, k)
      <4>1. CASE i = 1
        BY <1>3, <1>8, <3>3, <4>1 DEF Reached
      <4>2. CASE i # 1
        BY <1>3, <3>3, <4>2 DEF Reached
      <4> QED BY <4>1, <4>2
    <3> QED BY <2>4, <3>1, <3>2, <3>3 DEF Reached
  <2>5. Reached(g, e, lastKey) /\ \A y \in list : Reached(g, e, y.key)
    BY <2>1, <2>4 DEF Items
  <2>6. fileKey' # -1 => g[fileKey'] # Absent
    <3>1. CASE w.key = -1
      <4>1. file[w.value] # Absent
        BY <1>3, <2>1, <3>1 DEF Ordered
      <4> QED BY <1>2, <1>4, <1>8, <3>1, <4>1, KeysAre
    <3>2. CASE w.key # -1
      BY <1>2, <1>8, <2>1, <3>2
    <3> QED BY <3>1, <3>2
  <2> QED BY <2>2, <2>3, <2>5, <2>6 DEF Prefix
<1>15. Ring(Present', cut, turn, fileKey', e, lastKey)
  <2>1. Ring(Present', cut, turn, fileKey, d, lastKey)
    BY <1>10, FewerMarks DEF Ring, d
  <2>2. \A i \in DOMAIN e : e[i].key = -1 => Behind(Present', cut, turn, e[i].value)
    BY <1>3, <2>1 DEF Ring
  <2>3. CASE w.key = -1
    <3>1. Behind(Present', cut, turn, w.value)
      BY <1>3, <2>1, <2>3 DEF Ring
    <3>2. fileKey' = w.value /\ w.value # -1
      BY <1>2, <1>4, <2>3, KeysAre
    <3>3. BehindFile(Present', cut, turn, fileKey', e)
      BY <3>1, <3>2 DEF Behind, BehindFile
    <3> QED BY <2>1, <2>2, <3>2, <3>3 DEF Ring
  <2>4. CASE w.key # -1
    <3>1. (\A i \in DOMAIN e : e[i].key # -1) => \A i \in DOMAIN d : d[i].key # -1
      <4> SUFFICES ASSUME \A i \in DOMAIN e : e[i].key # -1, NEW i \in DOMAIN d PROVE d[i].key # -1
        OBVIOUS
      <4> QED BY <1>3, <2>4
    <3>2. BehindFile(Present', cut, turn, fileKey, e)
      BY <2>1, <3>1 DEF Ring, BehindFile
    <3> QED BY <1>2, <2>1, <2>2, <2>4, <3>2 DEF Ring
  <2> QED BY <2>3, <2>4
<1>16. IsFiltered' = IsFiltered /\ Going' = Going
  BY <1>1 DEF IsFiltered, Going
<1>17. Hidden(Present)'
  BY <1>1, <1>10, <1>16 DEF Hidden
<1>18. EndIsNoted'
  BY <1>1 DEF EndIsNoted
<1> QED BY <1>1, <1>9, <1>11, <1>12, <1>13, <1>14, <1>15, <1>16, <1>17, <1>18 DEF g

LEMMA StepKeeps == Inv /\ [Next]_vars => Inv'
<1> SUFFICES ASSUME Inv, [Next]_vars PROVE Inv'
  OBVIOUS
<1> USE TypesAre DEF Inv
<1>1. ASSUME NEW c \in Calls, Tell(c) PROVE Inv'
  <2> DEFINE t == IF c \in Incoming THEN "in" ELSE "out"
  <2>1. Idle /\ c \in Going /\ Become(Add(View, c, t)) /\ phase' = [phase EXCEPT ![c] = phase[c]]
        /\ phase[c] \in {"going", "hung"}
    BY <1>1 DEF Tell, Going
  <2>2. ViewInv(View, c) /\ Now(View) = turn
    BY <2>1, ViewHolds
  <2> DEFINE w == Add(View, c, t)
  <2>3. ViewInv(w, c)
    BY <2>1, <2>2, AddKeeps
  <2> HIDE DEF w
  <2> QED BY <2>1, <2>3, BecomeKeeps DEF w
<1>2. ASSUME NEW c \in Calls, NEW missed \in BOOLEAN, HangUp(c, missed) PROVE Inv'
  <2> DEFINE w == EndOfCall(View, c, missed)
  <2>1. Idle /\ c \in Going /\ Become(w) /\ phase' = [phase EXCEPT ![c] = "hung"]
    BY <1>2 DEF HangUp, Going
  <2>2. ViewInv(View, c) /\ Now(View) = turn
    BY <2>1, ViewHolds
  <2>3. ViewInv(w, c)
    BY <2>1, <2>2, EndKeeps
  <2> HIDE DEF w
  <2> QED BY <2>1, <2>3, BecomeKeeps
<1>3. ASSUME NEW c \in Calls, NEW missed \in BOOLEAN, NEW busy \in BOOLEAN,
             LastMessage(c, missed, busy)
      PROVE  Inv'
  <2> DEFINE v == IF busy THEN Add(View, c, "miss") ELSE View
             w == EndOfCall(v, c, missed)
  <2>1. Idle /\ c \in Going /\ Become(w) /\ phase' = [phase EXCEPT ![c] = "over"]
    BY <1>3 DEF LastMessage
  <2>2. ViewInv(View, c) /\ Now(View) = turn
    BY <2>1, ViewHolds
  <2>3. ViewInv(v, c)
    BY <2>1, <2>2, AddKeeps
  <2> HIDE DEF v
  <2>4. ViewInv(w, c) /\ \A y \in w.list : y.id = c => y.rec.said = "ended"
    BY <2>1, <2>2, <2>3, EndKeeps
  <2> HIDE DEF w
  <2> QED BY <2>1, <2>4, BecomeKeeps
<1>4. CASE UNCHANGED vars
  <2>1. /\ file' = file /\ fileKey' = fileKey /\ list' = list /\ lastKey' = lastKey
        /\ filter' = filter /\ writes' = writes /\ phase' = phase /\ turn' = turn
        /\ cut' = cut /\ relisted' = relisted /\ shared' = shared
    BY <1>4 DEF vars, memory, history
  <2>2. Present' = Present /\ IsFiltered' = IsFiltered /\ Going' = Going
    BY <2>1 DEF Present, IsFiltered, Going
  <2>3. Types' /\ EndIsNoted' /\ Hidden(Present)'
    BY <2>1, <2>2 DEF Types, TypeOK, EndIsNoted, Hidden
  <2> QED BY <2>1, <2>2, <2>3
<1> QED BY <1>1, <1>2, <1>3, <1>4, BeginKeeps, FilterKeeps, DeleteKeeps, WriteKeeps, RestartKeeps
        DEF Next

LEMMA Invariant == Spec => []Inv
<1> QED BY InitHolds, StepKeeps, PTL DEF Spec

-----------------------------------------------------------------------------
(* The properties.                                                         *)

\* The list, the section of the ini file and the writes on their way to it have
\* the shape that the handlers of the calls page rely on.
THEOREM HistoryTypes == Spec => []TypeOK
<1>1. Inv => TypeOK
  BY DEF Inv, Types
<1> QED BY <1>1, Invariant, PTL

\* No record is out of the user's reach: when no text is typed the list shows
\* whatever CallsLoad or the handlers left in the file.
THEOREM RecordsAreListed == Spec => []FileIsListed
<1>1. Inv => FileIsListed
  <2> SUFFICES ASSUME Inv, Idle, ~IsFiltered, NEW k \in Keys, file[k] \notin {Absent, Null}
               PROVE  \E x \in list : x.key = k /\ x.rec = file[k]
    BY DEF FileIsListed
  <2>1. file[k] \in Records
    BY TypesAre DEF Inv, Files
  <2>2. After(file, writes, k, file[k])
    BY AfterNone DEF Idle
  <2> QED BY <2>1, <2>2 DEF Inv, Filed
<1> QED BY <1>1, Invariant, PTL

\* What the list shows will still be there after a restart, unless two entries
\* have had to share a key: every handler saves what it changes.
THEOREM ListIsSaved == Spec => []ListIsFile
<1>1. Inv => ListIsFile
  <2> SUFFICES ASSUME Inv, Idle, NEW x \in list, x.key \notin shared PROVE file[x.key] = x.rec
    BY DEF ListIsFile
  <2>1. After(file, writes, x.key, x.rec)
    BY DEF Inv, Listed
  <2> QED BY <2>1, AfterNone DEF Idle
<1> QED BY <1>1, Invariant, PTL

LEMMA RingIsWhole == \A k \in Keys : Dist(k, k) = KeyCount
<1> QED BY KeysAre DEF Dist

\* Calls::GetNextKey hands no key out again before all the others, wherever the
\* ring of keys stood when the program was started, however often the list was
\* loaded and whatever was deleted, but for a key that was not saved in time.
THEOREM KeysGoRound == Spec => []KeysApart
<1>1. Inv => KeysApart
  <2> SUFFICES ASSUME Inv, NEW x \in list, NEW y \in list, x.key = y.key, x.rec.time < y.rec.time,
                      x.rec.time \notin cut
               PROVE  y.rec.time - x.rec.time >= KeyCount
    BY DEF KeysApart
  <2> DEFINE m == Mark(x.key, x.rec)
             n == Mark(y.key, y.rec)
  <2>1. m \in Present /\ n \in Present
    BY DEF Present, Marks
  <2>2. /\ m.key = x.key /\ m.time = x.rec.time /\ n.key = y.key /\ n.time = y.rec.time
    BY MarkFields
  <2> HIDE DEF m, n
  <2>3. n.time - m.time >= Dist(m.key, n.key)
    BY <2>1, <2>2 DEF Inv, Ring, Apart
  <2>4. Dist(m.key, n.key) = KeyCount
    BY <2>2, RingIsWhole, TypesAre DEF Inv, Items
  <2> QED BY <2>2, <2>3, <2>4
<1> QED BY <1>1, Invariant, PTL

\* Calls::Add makes one entry of a call, whatever the page hears of it and in
\* whatever order, unless the list was loaded while the call went on.
THEOREM OneEntryEach == Spec => []OneEntry
<1>1. Inv => OneEntry
  BY DEF Inv, OwnList, OneEntry
<1> QED BY <1>1, Invariant, PTL

\* OnEndCall notes the end of every call that has an entry when its last message
\* is handled, though the user hung up before, messages of the call came after
\* that, or the entry was only made by the last message (486).
THEOREM EndsAreNoted == Spec => []EndIsNoted
<1>1. Inv => EndIsNoted
  BY DEF Inv
<1> QED BY <1>1, Invariant, PTL

\* No write takes a record's place while an older one could have given way,
\* unless the record's key was not saved in time.
THEOREM OldestGoesFirst == Spec => OldestGivesWay
<1> DEFINE A == \A k \in Keys :
                  /\ {file[k], file'[k]} \intersect {Absent, Null} = {}
                  /\ file[k].time < file'[k].time
                  => \/ file'[k].time - file[k].time >= KeyCount
                     \/ file[k].time \in cut
<1>1. Inv /\ [Next]_vars => [A]_file
  <2> SUFFICES ASSUME Inv, [Next]_vars, file' # file PROVE A
    OBVIOUS
  <2> USE TypesAre DEF Inv
  <2>1. Write
    <3>1. \A v : Become(v) => file' = file
      BY DEF Become
    <3>2. ASSUME NEW c \in Calls PROVE ~Begin(c) /\ ~Tell(c)
      BY <3>1 DEF Begin, Tell
    <3>3. ASSUME NEW c \in Calls, NEW missed \in BOOLEAN
          PROVE  ~HangUp(c, missed) /\ \A busy \in BOOLEAN : ~LastMessage(c, missed, busy)
      BY <3>1 DEF HangUp, LastMessage
    <3>4. (\A flt : ~TypeFilter(flt)) /\ (\A x : ~Delete(x)) /\ ~Restart
      BY DEF TypeFilter, Delete, Restart
    <3>5. ~UNCHANGED vars
      BY DEF vars
    <3> QED BY <3>2, <3>3, <3>4, <3>5 DEF Next
  <2> DEFINE w == Head(writes)
  <2>2. writes # <<>> /\ w.key # -1 /\ file' = [file EXCEPT ![w.key] = w.value]
    BY <2>1 DEF Write, Idle
  <2>3. 1 \in DOMAIN writes /\ writes[1] = w /\ w \in Writes
    BY <2>2, TailIs
  <2> HIDE DEF w
  <2>4. w.key \in Keys /\ w.value \in Records \union {Null}
    BY <2>2, <2>3 DEF Writes
  <2> SUFFICES ASSUME NEW k \in Keys, {file[k], file'[k]} \intersect {Absent, Null} = {},
                      file[k].time < file'[k].time, file[k].time \notin cut
               PROVE  file'[k].time - file[k].time >= KeyCount
    OBVIOUS
  <2>5. k = w.key /\ file'[k] = w.value /\ file[k] \in Records
    <3>1. file[k] \in Records
      BY DEF Files
    <3>2. ASSUME k # w.key PROVE FALSE
      <4>1. file'[k] = file[k]
        BY <2>2, <3>2 DEF Files
      <4>2. file[k].time \in Int
        BY <3>1 DEF Records
      <4> QED BY <4>1, <4>2
    <3> QED BY <2>2, <2>4, <3>1, <3>2 DEF Files
  <2>6. w.value \in Records
    BY <2>4, <2>5
  <2> DEFINE m == Mark(k, file[k])
             n == Mark(w.key, w.value)
  <2>7. m \in Present /\ n \in Present
    <3>1. m \in Present
      BY <2>5 DEF Present, Marks
    <3>2. Mark(writes[1].key, writes[1].value) \in Present
      BY <2>3, <2>4, <2>6 DEF Present, Marks
    <3> QED BY <2>3, <3>1, <3>2
  <2>8. /\ m.key = k /\ m.time = file[k].time /\ n.key = k /\ n.time = file'[k].time
    BY <2>5, MarkFields
  <2> HIDE DEF m, n
  <2>9. n.time - m.time >= Dist(m.key, n.key)
    BY <2>7, <2>8 DEF Ring, Apart
  <2>10. Dist(m.key, n.key) = KeyCount
    BY <2>8, RingIsWhole
  <2> QED BY <2>8, <2>9, <2>10
<1> QED BY <1>1, Invariant, PTL DEF Spec, OldestGivesWay
=============================================================================
