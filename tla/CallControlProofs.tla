--------------------------- MODULE CallControlProofs ---------------------------
(***************************************************************************)
(* Who owns the user data of a call, for any number of calls, slots and    *)
(* far ends and any settings: no message outlives the user data it points  *)
(* to, and CallControl implements CallOwnership.                           *)
(***************************************************************************)
EXTENDS CallControl, TLAPS, FiniteSetTheorems, WellFoundedInduction, SequenceTheorems

Message == [type : Types, slot : Slots, call : Calls \union {NoCall}]

LEMMA CallsFinite == IsFiniteSet(Calls) /\ Calls \subseteq Nat /\ NoCall \notin Calls
<1>1. IsFiniteSet(1..NCalls)
  BY NCallsAssumption, FS_Interval
<1> QED BY <1>1, NoCallAssumption, NCallsAssumption DEF Calls

\* The least of a set of numbers is one of them.
LEMMA MinIsIn == ASSUME NEW S \in SUBSET Nat, S # {} PROVE Min(S) \in S
<1> DEFINE R == OpToRel(<, Nat)
<1>0. \A x, y \in Nat : y < x => <<y, x>> \in R
  <2> SUFFICES ASSUME NEW x \in Nat, NEW y \in Nat, y < x
               PROVE  <<y, x>> \in {ss \in Nat \X Nat : ss[1] < ss[2]}
    BY Zenon DEF OpToRel
  <2> QED BY SMT
<1>1. IsWellFoundedOn(R, Nat)
  BY NatLessThanWellFounded
<1> HIDE DEF R
<1>2. PICK x \in S : \A y \in S : ~(<<y, x>> \in R)
  BY <1>1, WFMin
<1>3. ASSUME NEW y \in S PROVE x <= y
  <2>1. x \in Nat /\ y \in Nat
    OBVIOUS
  <2>2. ~(y < x)
    BY <1>0, <1>2, <2>1, Zenon
  <2> QED BY <2>1, <2>2, SMT
<1> QED BY <1>3 DEF Min

-----------------------------------------------------------------------------
\* Calls in slots of their own have an order.
LEMMA OrderOfSlots ==
  ASSUME NEW S \in SUBSET Calls,
         \A a \in S : slot[a] \in Nat,
         \A a, b \in S : slot[a] = slot[b] => a = b
  PROVE  LET f == InOrder(S)
             n == Cardinality(S)
         IN  /\ n \in Nat
             /\ f \in [1..n -> S]
             /\ \A i, j \in 1..n : f[i] = f[j] => i = j
             /\ \A k \in S : \E i \in 1..n : f[i] = k
<1> DEFINE n == Cardinality(S)
           upTo(k) == {x \in S : slot[x] <= slot[k]}
           r == [k \in S |-> Cardinality(upTo(k))]
<1>1. IsFiniteSet(S) /\ n \in Nat
  BY CallsFinite, FS_Subset, FS_CardinalityType
<1>2. IsFiniteSet(1..n) /\ Cardinality(1..n) = n
  BY <1>1, FS_Interval
<1>3. ASSUME NEW k \in S PROVE upTo(k) \in SUBSET S /\ r[k] \in 1..n /\ IsFiniteSet(upTo(k))
  <2>1. upTo(k) \in SUBSET S /\ k \in upTo(k)
    OBVIOUS
  <2>2. IsFiniteSet(upTo(k)) /\ Cardinality(upTo(k)) <= n
    BY <1>1, <2>1, FS_Subset
  <2>3. Cardinality(upTo(k)) \in Nat /\ Cardinality(upTo(k)) # 0
    BY <2>1, <2>2, FS_CardinalityType, FS_EmptySet
  <2> QED BY <1>1, <2>1, <2>2, <2>3
<1>4. ASSUME NEW a \in S, NEW b \in S, slot[a] <= slot[b] PROVE r[a] <= r[b]
  <2>1. upTo(a) \in SUBSET upTo(b)
    BY <1>4
  <2> QED BY <1>3, <2>1, FS_Subset
<1>5. ASSUME NEW a \in S, NEW b \in S, slot[a] < slot[b] PROVE r[a] < r[b]
  <2>1. upTo(a) \in SUBSET upTo(b) /\ upTo(a) # upTo(b)
    BY <1>5
  <2>2. r[a] <= r[b] /\ r[a] # r[b]
    BY <1>3, <2>1, FS_Subset
  <2> QED BY <1>3, <2>2
<1> HIDE DEF r, upTo
<1>6. r \in Injection(S, 1..n)
  <2>1. \A a, b \in S : r[a] = r[b] => a = b
    <3> SUFFICES ASSUME NEW a \in S, NEW b \in S, r[a] = r[b] PROVE a = b
      OBVIOUS
    <3>1. r[a] \in Nat /\ r[b] \in Nat
      BY <1>1, <1>3
    <3>2. ~(slot[a] < slot[b]) /\ ~(slot[b] < slot[a])
      BY <1>5, <3>1
    <3> QED BY <3>2
  <2>2. r \in [S -> 1..n]
    BY <1>3 DEF r
  <2> QED BY <2>1, <2>2 DEF Injection, IsInjective
<1>7. \A i \in 1..n : \E k \in S : r[k] = i
  <2>1. Cardinality(S) = Cardinality(1..n)
    BY <1>2
  <2>2. r \in Surjection(S, 1..n)
    BY <1>2, <1>6, <2>1, FS_Injection, Zenon
  <2> QED BY <2>2 DEF Surjection
<1> DEFINE g == [i \in 1..n |-> CHOOSE k \in S : r[k] = i]
<1>8. g \in [1..n -> S] /\ \A i \in 1..n : r[g[i]] = i
  BY <1>7
<1> HIDE DEF g
<1>9. \A i, j \in 1..n : i < j => slot[g[i]] < slot[g[j]]
  <2> SUFFICES ASSUME NEW i \in 1..n, NEW j \in 1..n, i < j PROVE slot[g[i]] < slot[g[j]]
    OBVIOUS
  <2>1. g[i] \in S /\ g[j] \in S /\ r[g[i]] = i /\ r[g[j]] = j /\ i \in Nat /\ j \in Nat
    BY <1>1, <1>8
  <2>2. ~(slot[g[j]] <= slot[g[i]])
    BY <1>4, <2>1
  <2> QED BY <2>1, <2>2
<1> DEFINE f == InOrder(S)
<1>10. f \in [1..n -> S] /\ \A i, j \in 1..n : i < j => slot[f[i]] < slot[f[j]]
  BY <1>8, <1>9 DEF InOrder
<1> HIDE DEF f, n
<1>11. \A i, j \in 1..n : f[i] = f[j] => i = j
  <2> SUFFICES ASSUME NEW i \in 1..n, NEW j \in 1..n, f[i] = f[j], i # j PROVE FALSE
    OBVIOUS
  <2>1. i \in Nat /\ j \in Nat /\ f[i] \in S
    BY <1>1, <1>10
  <2>2. i < j \/ j < i
    BY <2>1
  <2>3. slot[f[i]] < slot[f[i]]
    BY <1>10, <2>2
  <2> QED BY <2>1, <2>3
<1>12. \A k \in S : \E i \in 1..n : f[i] = k
  <2>1. f \in Injection(1..n, S)
    BY <1>10, <1>11 DEF Injection, IsInjective
  <2> QED BY <1>1, <1>2, <2>1, FS_Injection DEF Surjection, n
<1> QED BY <1>1, <1>10, <1>11, <1>12 DEF f, n

-----------------------------------------------------------------------------
\* Calls that pjsua has are in slots of their own.
SlotsApart ==
  /\ \A k \in Enum : slot[k] \in Slots
  /\ \A a, b \in Enum : slot[a] = slot[b] => a = b

\* The messages q tell each of the calls T once, with its type and its slot.
IsTold(q, T, type) ==
  /\ q \in Seq(Message)
  /\ \A i \in 1..Len(q) : q[i].call \in T /\ q[i].type = type[q[i].call]
  /\ \A i \in 1..Len(q) : q[i].slot = slot[q[i].call]
  /\ \A i, j \in 1..Len(q) : q[i].call = q[j].call => i = j
  /\ \A k \in T : \E i \in 1..Len(q) : q[i].call = k

LEMMA ToldIsTold ==
  ASSUME NEW S \in SUBSET Enum, NEW type \in [Calls -> Types], SlotsApart
  PROVE  IsTold(Told(S, type), {k \in S : ~hidden[k]}, type)
<1> DEFINE T == {k \in S : ~hidden[k]}
           n == Cardinality(T)
           f == InOrder(T)
           q == [i \in 1..n |-> Msg(type[f[i]], slot[f[i]], f[i])]
<1>1. Told(S, type) = q
  BY DEF Told
<1>2. T \in SUBSET Calls /\ \A k \in T : slot[k] \in Slots
  BY DEF Enum, Active, SlotsApart
<1>3. /\ n \in Nat
      /\ f \in [1..n -> T]
      /\ \A i, j \in 1..n : f[i] = f[j] => i = j
      /\ \A k \in T : \E i \in 1..n : f[i] = k
  <2>1. \A a \in T : slot[a] \in Nat
    BY <1>2, NSlotsAssumption DEF Slots
  <2>2. \A a, b \in T : slot[a] = slot[b] => a = b
    BY DEF SlotsApart
  <2> QED BY <1>2, <2>1, <2>2, OrderOfSlots
<1> HIDE DEF f, n, T
<1>4. \A i \in 1..n : /\ q[i] \in Message
                      /\ q[i].call = f[i]
                      /\ q[i].type = type[f[i]]
                      /\ q[i].slot = slot[f[i]]
  BY <1>2, <1>3 DEF Msg, Message
<1>5. q \in [1..n -> Message]
  BY <1>4
<1> HIDE DEF q
<1>6. q \in Seq(Message)
  BY <1>3, <1>5, SeqDef
<1>7. Len(q) = n
  BY <1>3, <1>5, <1>6, LenProperties
<1>8. IsTold(q, T, type)
  BY <1>3, <1>4, <1>6, <1>7 DEF IsTold
<1> QED BY <1>1, <1>8 DEF T

-----------------------------------------------------------------------------
(* The invariant of the queue q, for the user data d and the hidden calls h. *)

IsFinal(m) == m.type \in {"ended", "unanswered"}

\* What a message points to is there.
Carried(q, d) ==
  \A i \in 1..Len(q) : q[i].call # NoCall => d[q[i].call] \in {"attached", "detached", "leaked"}

\* A last message has the user data, and no message of its call is behind it.
FinalIsLast(q, d) ==
  /\ \A i \in 1..Len(q) : IsFinal(q[i]) => q[i].call # NoCall /\ d[q[i].call] = "detached"
  /\ \A i, j \in 1..Len(q) : IsFinal(q[i]) /\ q[j].call = q[i].call => j <= i

\* User data that have left the slot wait for a last message.
FinalComes(q, d) ==
  \A k \in Calls : d[k] = "detached" =>
    \E i \in 1..Len(q) : q[i].call = k /\ IsFinal(q[i])

\* Of a hidden call that goes on nothing was told: its user data can be deleted
\* as soon as it ends.
HiddenUntold(q, d, h) ==
  \A k \in Calls : h[k] /\ d[k] = "attached" => \A i \in 1..Len(q) : q[i].call # k

QueueInv(q, d, h) ==
  /\ q \in Seq(Message)
  /\ Carried(q, d) /\ FinalIsLast(q, d) /\ FinalComes(q, d) /\ HiddenUntold(q, d, h)

\* A queued message is about a call or none.
LEMMA CallOfMessage ==
  ASSUME NEW q \in Seq(Message), NEW i \in 1..Len(q)
  PROVE  q[i] \in Message /\ q[i].call \in Calls \union {NoCall}
<1>1. q[i] \in Message
  BY ElementOfSeq
<1> QED BY <1>1 DEF Message

\* A message of a queue that got the messages m is old, or one of m.
LEMMA ConcatIs ==
  ASSUME NEW q \in Seq(Message), NEW m \in Seq(Message)
  PROVE  /\ q \o m \in Seq(Message)
         /\ Len(q) \in Nat /\ Len(m) \in Nat
         /\ \A i \in 1..Len(q) : i \in 1..Len(q \o m) /\ (q \o m)[i] = q[i]
         /\ \A i \in 1..Len(m) : Len(q) + i \in 1..Len(q \o m) /\ (q \o m)[Len(q) + i] = m[i]
         /\ \A i \in 1..Len(q \o m) :
              \/ i \in 1..Len(q) /\ (q \o m)[i] = q[i]
              \/ i > Len(q) /\ i - Len(q) \in 1..Len(m) /\ (q \o m)[i] = m[i - Len(q)]
<1>1. /\ q \o m \in Seq(Message)
      /\ Len(q) \in Nat /\ Len(m) \in Nat
      /\ Len(q \o m) = Len(q) + Len(m)
      /\ \A i \in 1..(Len(q) + Len(m)) :
           (q \o m)[i] = IF i <= Len(q) THEN q[i] ELSE m[i - Len(q)]
  BY ConcatProperties, LenProperties
<1> QED BY <1>1

\* The calls S end: their user data are told with a last message or, when they
\* are hidden, deleted.
LEMMA EndsKeep ==
  ASSUME NEW q, NEW d, NEW h, NEW S \in SUBSET Calls, NEW m, NEW type,
         QueueInv(q, d, h),
         \A k \in S : d[k] = "attached",
         IsTold(m, {k \in S : ~h[k]}, type),
         \A k \in S : type[k] \in {"ended", "unanswered"},
         NEW d2,
         \A k \in Calls : d2[k] = IF k \notin S THEN d[k]
                                  ELSE IF h[k] THEN "deleted" ELSE "detached"
  PROVE  QueueInv(q \o m, d2, h)
<1> DEFINE qm == q \o m
           LastOne(x) == /\ x.call \in S /\ ~h[x.call] /\ x.call # NoCall
                      /\ IsFinal(x) /\ d2[x.call] = "detached"
<1>1. /\ q \in Seq(Message) /\ m \in Seq(Message)
      /\ \A i \in 1..Len(m) : LastOne(m[i])
  <2> SUFFICES ASSUME NEW i \in 1..Len(m) PROVE LastOne(m[i])
    BY DEF QueueInv, IsTold
  <2>1. m[i].call \in S /\ ~h[m[i].call] /\ m[i].type = type[m[i].call]
    BY DEF IsTold
  <2>2. m[i].call \in Calls /\ m[i].call # NoCall
    BY <2>1, CallsFinite
  <2>3. IsFinal(m[i])
    BY <2>1 DEF IsFinal
  <2>4. d2[m[i].call] = "detached"
    BY <2>1, <2>2
  <2> QED BY <2>1, <2>2, <2>3, <2>4
<1> HIDE DEF LastOne
<1>2. /\ qm \in Seq(Message) /\ Len(q) \in Nat /\ Len(m) \in Nat
      /\ \A i \in 1..Len(q) : i \in 1..Len(qm) /\ qm[i] = q[i]
      /\ \A i \in 1..Len(m) : Len(q) + i \in 1..Len(qm) /\ qm[Len(q) + i] = m[i]
      /\ \A i \in 1..Len(qm) :
           \/ i \in 1..Len(q) /\ qm[i] = q[i]
           \/ i > Len(q) /\ i - Len(q) \in 1..Len(m) /\ qm[i] = m[i - Len(q)]
  BY <1>1, ConcatIs
<1> HIDE DEF qm
<1>3. ASSUME NEW i \in 1..Len(q), q[i].call # NoCall
      PROVE  /\ q[i].call \in Calls
             /\ d2[q[i].call] \in {"attached", "detached", "leaked"}
             /\ IsFinal(q[i]) => q[i].call \notin S /\ d2[q[i].call] = "detached"
  <2>1. q[i].call \in Calls
    BY <1>1, <1>3, CallOfMessage
  <2> QED BY <1>3, <2>1 DEF QueueInv, Carried, HiddenUntold, FinalIsLast
<1>4. Carried(qm, d2)
  <2> SUFFICES ASSUME NEW i \in 1..Len(qm), qm[i].call # NoCall
               PROVE  d2[qm[i].call] \in {"attached", "detached", "leaked"}
    BY DEF Carried
  <2>1. CASE i \in 1..Len(q) /\ qm[i] = q[i]
    BY <1>3, <2>1
  <2>2. CASE i - Len(q) \in 1..Len(m) /\ qm[i] = m[i - Len(q)]
    BY <1>1, <2>2 DEF LastOne
  <2> QED BY <1>2, <2>1, <2>2
<1>5. \A i \in 1..Len(qm) : IsFinal(qm[i]) => qm[i].call # NoCall /\ d2[qm[i].call] = "detached"
  <2> SUFFICES ASSUME NEW i \in 1..Len(qm), IsFinal(qm[i])
               PROVE  qm[i].call # NoCall /\ d2[qm[i].call] = "detached"
    OBVIOUS
  <2>1. CASE i \in 1..Len(q) /\ qm[i] = q[i]
    BY <1>3, <2>1 DEF QueueInv, FinalIsLast
  <2>2. CASE i - Len(q) \in 1..Len(m) /\ qm[i] = m[i - Len(q)]
    BY <1>1, <2>2 DEF LastOne
  <2> QED BY <1>2, <2>1, <2>2
<1>6. ASSUME NEW i \in 1..Len(qm), NEW j \in 1..Len(qm), IsFinal(qm[i]), qm[j].call = qm[i].call
      PROVE  j <= i
  <2>1. CASE i \in 1..Len(q) /\ qm[i] = q[i] /\ j \in 1..Len(q) /\ qm[j] = q[j]
    BY <1>6, <2>1 DEF QueueInv, FinalIsLast
  <2>2. CASE i \in 1..Len(q) /\ qm[i] = q[i] /\ j - Len(q) \in 1..Len(m) /\ qm[j] = m[j - Len(q)]
    <3>1. qm[i].call \notin S
      BY <1>3, <1>5, <1>6, <2>2
    <3> QED BY <1>1, <1>6, <2>2, <3>1 DEF LastOne
  <2>3. CASE i > Len(q) /\ j \in 1..Len(q)
    BY <1>2, <2>3
  <2>4. CASE /\ i - Len(q) \in 1..Len(m) /\ qm[i] = m[i - Len(q)]
             /\ j - Len(q) \in 1..Len(m) /\ qm[j] = m[j - Len(q)]
    <3>1. i - Len(q) = j - Len(q)
      BY <1>6, <2>4 DEF IsTold
    <3> QED BY <1>2, <3>1
  <2> QED BY <1>2, <2>1, <2>2, <2>3, <2>4
<1>7. FinalComes(qm, d2)
  <2> SUFFICES ASSUME NEW k \in Calls, d2[k] = "detached"
               PROVE  \E i \in 1..Len(qm) : qm[i].call = k /\ IsFinal(qm[i])
    BY DEF FinalComes
  <2>1. CASE k \notin S
    <3>1. PICK i \in 1..Len(q) : q[i].call = k /\ IsFinal(q[i])
      BY <2>1 DEF QueueInv, FinalComes
    <3> QED BY <1>2, <3>1
  <2>2. CASE k \in S
    <3>1. PICK i \in 1..Len(m) : m[i].call = k
      BY <2>2 DEF IsTold
    <3> QED BY <1>1, <1>2, <3>1 DEF LastOne
  <2> QED BY <2>1, <2>2
<1>8. HiddenUntold(qm, d2, h)
  <2> SUFFICES ASSUME NEW k \in Calls, h[k], d2[k] = "attached", NEW i \in 1..Len(qm)
               PROVE  qm[i].call # k
    BY DEF HiddenUntold
  <2>1. k \notin S /\ d[k] = "attached"
    OBVIOUS
  <2>2. CASE i \in 1..Len(q) /\ qm[i] = q[i]
    BY <2>1, <2>2 DEF QueueInv, HiddenUntold
  <2>3. CASE i - Len(q) \in 1..Len(m) /\ qm[i] = m[i - Len(q)]
    BY <1>1, <2>1, <2>3 DEF LastOne
  <2> QED BY <1>2, <2>2, <2>3
<1>9. qm \in Seq(Message) /\ FinalIsLast(qm, d2)
  BY <1>2, <1>5, <1>6 DEF FinalIsLast
<1> QED BY <1>4, <1>7, <1>8, <1>9 DEF QueueInv, qm

\* A queue that only got messages about calls that go on, or about none, and
\* that are not last.
LEMMA AddedKeep ==
  ASSUME NEW q, NEW qm, NEW d, NEW h, QueueInv(q, d, h),
         qm \in Seq(Message), Len(q) \in Nat,
         \A i \in 1..Len(q) : i \in 1..Len(qm) /\ qm[i] = q[i],
         \A i \in 1..Len(qm) :
           \/ i \in 1..Len(q) /\ qm[i] = q[i]
           \/ /\ ~IsFinal(qm[i])
              /\ qm[i].call # NoCall => d[qm[i].call] = "attached" /\ ~h[qm[i].call]
  PROVE  QueueInv(qm, d, h)
<1>1. Carried(qm, d)
  <2> SUFFICES ASSUME NEW i \in 1..Len(qm), qm[i].call # NoCall
               PROVE  d[qm[i].call] \in {"attached", "detached", "leaked"}
    BY DEF Carried
  <2> QED BY DEF QueueInv, Carried
<1>2. \A i \in 1..Len(qm) : IsFinal(qm[i]) => /\ i \in 1..Len(q) /\ qm[i] = q[i]
                                            /\ qm[i].call # NoCall /\ d[qm[i].call] = "detached"
  BY DEF QueueInv, FinalIsLast
<1>3. ASSUME NEW i \in 1..Len(qm), NEW j \in 1..Len(qm), IsFinal(qm[i]), qm[j].call = qm[i].call
      PROVE  j <= i
  <2>1. j \in 1..Len(q) /\ qm[j] = q[j]
    BY <1>2, <1>3
  <2> QED BY <1>2, <1>3, <2>1 DEF QueueInv, FinalIsLast
<1>4. FinalComes(qm, d)
  <2> SUFFICES ASSUME NEW k \in Calls, d[k] = "detached"
               PROVE  \E i \in 1..Len(qm) : qm[i].call = k /\ IsFinal(qm[i])
    BY DEF FinalComes
  <2>1. PICK i \in 1..Len(q) : q[i].call = k /\ IsFinal(q[i])
    BY DEF QueueInv, FinalComes
  <2> QED BY <2>1
<1>5. HiddenUntold(qm, d, h)
  <2> SUFFICES ASSUME NEW k \in Calls, h[k], d[k] = "attached", NEW i \in 1..Len(qm)
               PROVE  qm[i].call # k
    BY DEF HiddenUntold
  <2>1. k # NoCall
    BY CallsFinite
  <2> QED BY <2>1 DEF QueueInv, HiddenUntold
<1> QED BY <1>1, <1>2, <1>3, <1>4, <1>5 DEF QueueInv, FinalIsLast

\* Calls that go on and are not hidden are told something.
LEMMA TellsKeep ==
  ASSUME NEW q, NEW d, NEW h, NEW T \in SUBSET Calls, NEW m, NEW type,
         QueueInv(q, d, h),
         \A k \in T : d[k] = "attached" /\ ~h[k],
         IsTold(m, T, type),
         \A k \in T : type[k] \notin {"ended", "unanswered"}
  PROVE  QueueInv(q \o m, d, h)
<1> DEFINE qm == q \o m
<1>1. q \in Seq(Message) /\ m \in Seq(Message)
  BY DEF QueueInv, IsTold
<1>2. \A i \in 1..Len(m) : ~IsFinal(m[i]) /\ d[m[i].call] = "attached" /\ ~h[m[i].call]
  BY DEF IsTold, IsFinal
<1>3. /\ qm \in Seq(Message) /\ Len(q) \in Nat
      /\ \A i \in 1..Len(q) : i \in 1..Len(qm) /\ qm[i] = q[i]
      /\ \A i \in 1..Len(qm) :
           \/ i \in 1..Len(q) /\ qm[i] = q[i]
           \/ i - Len(q) \in 1..Len(m) /\ qm[i] = m[i - Len(q)]
  BY <1>1, ConcatIs
<1> HIDE DEF qm
<1>4. ASSUME NEW i \in 1..Len(qm)
      PROVE  \/ i \in 1..Len(q) /\ qm[i] = q[i]
             \/ ~IsFinal(qm[i]) /\ d[qm[i].call] = "attached" /\ ~h[qm[i].call]
  <2>1. ASSUME NEW j \in 1..Len(m), qm[i] = m[j]
        PROVE  ~IsFinal(qm[i]) /\ d[qm[i].call] = "attached" /\ ~h[qm[i].call]
    BY <1>2, <2>1
  <2>2. \/ i \in 1..Len(q) /\ qm[i] = q[i]
        \/ i - Len(q) \in 1..Len(m) /\ qm[i] = m[i - Len(q)]
    BY <1>3
  <2> QED BY <2>1, <2>2
<1>5. QueueInv(qm, d, h)
  BY <1>3, <1>4, AddedKeep
<1> QED BY <1>5 DEF qm

\* One message is posted, about a call that goes on or about none.
LEMMA PostKeeps ==
  ASSUME NEW q, NEW d, NEW h, NEW m \in Message, QueueInv(q, d, h), ~IsFinal(m),
         m.call # NoCall => d[m.call] = "attached" /\ ~h[m.call]
  PROVE  QueueInv(Append(q, m), d, h)
<1> DEFINE qm == Append(q, m)
<1>1. q \in Seq(Message)
  BY DEF QueueInv
<1>2. /\ qm \in Seq(Message) /\ Len(q) \in Nat
      /\ Len(qm) = Len(q) + 1
      /\ \A i \in 1..Len(q) : qm[i] = q[i]
      /\ qm[Len(q) + 1] = m
  BY <1>1, AppendProperties, LenProperties
<1> HIDE DEF qm
<1>3. /\ \A i \in 1..Len(q) : i \in 1..Len(qm) /\ qm[i] = q[i]
      /\ \A i \in 1..Len(qm) : (i \in 1..Len(q) /\ qm[i] = q[i]) \/ qm[i] = m
  BY <1>2
<1>4. QueueInv(qm, d, h)
  BY <1>2, <1>3, AddedKeep
<1> QED BY <1>4 DEF qm

\* What is behind the first message of a queue
LEMMA TailIs ==
  ASSUME NEW q \in Seq(Message), q # <<>>
  PROVE  /\ Tail(q) \in Seq(Message)
         /\ 1 \in 1..Len(q)
         /\ \A i \in 1..Len(Tail(q)) : i + 1 \in 1..Len(q) /\ Tail(q)[i] = q[i + 1]
         /\ \A i \in 1..Len(q) : i # 1 => i - 1 \in 1..Len(Tail(q)) /\ Tail(q)[i - 1] = q[i]
<1>1. /\ Tail(q) \in Seq(Message)
      /\ Len(Tail(q)) = Len(q) - 1
      /\ \A i \in 1..Len(Tail(q)) : Tail(q)[i] = q[i + 1]
  BY HeadTailProperties
<1>2. Len(q) \in Nat /\ Len(q) # 0
  BY EmptySeq, LenProperties
<1> QED BY <1>1, <1>2

\* A message that is not the last of its call is handled.
LEMMA HandledKeeps ==
  ASSUME NEW q, NEW d, NEW h, QueueInv(q, d, h), q # <<>>, ~IsFinal(q[1])
  PROVE  QueueInv(Tail(q), d, h)
<1> DEFINE t == Tail(q)
<1>1. /\ t \in Seq(Message)
      /\ 1 \in 1..Len(q)
      /\ \A i \in 1..Len(t) : i + 1 \in 1..Len(q) /\ t[i] = q[i + 1]
      /\ \A i \in 1..Len(q) : i # 1 => i - 1 \in 1..Len(t) /\ t[i - 1] = q[i]
  BY TailIs DEF QueueInv
<1> HIDE DEF t
<1>2. Carried(t, d)
  BY <1>1 DEF QueueInv, Carried
<1>3. \A i \in 1..Len(t) : IsFinal(t[i]) => t[i].call # NoCall /\ d[t[i].call] = "detached"
  BY <1>1 DEF QueueInv, FinalIsLast
<1>4. ASSUME NEW i \in 1..Len(t), NEW j \in 1..Len(t), IsFinal(t[i]), t[j].call = t[i].call
      PROVE  j <= i
  <2>1. i + 1 \in 1..Len(q) /\ j + 1 \in 1..Len(q) /\ t[i] = q[i + 1] /\ t[j] = q[j + 1]
    BY <1>1
  <2>2. j + 1 <= i + 1
    BY <1>4, <2>1 DEF QueueInv, FinalIsLast
  <2> QED BY <2>2
<1>5. FinalComes(t, d)
  <2> SUFFICES ASSUME NEW k \in Calls, d[k] = "detached"
               PROVE  \E i \in 1..Len(t) : t[i].call = k /\ IsFinal(t[i])
    BY DEF FinalComes
  <2>1. PICK i \in 1..Len(q) : q[i].call = k /\ IsFinal(q[i])
    BY DEF QueueInv, FinalComes
  <2> QED BY <1>1, <2>1
<1>6. HiddenUntold(t, d, h)
  BY <1>1 DEF QueueInv, HiddenUntold
<1>7. FinalIsLast(t, d)
  BY <1>3, <1>4 DEF FinalIsLast
<1> QED BY <1>1, <1>2, <1>5, <1>6, <1>7 DEF QueueInv, t

\* The last message of a call is handled and its user data are deleted.
LEMMA ReleaseKeeps ==
  ASSUME NEW q, NEW d, NEW h, QueueInv(q, d, h), q # <<>>, IsFinal(q[1]),
         NEW d2, d2[q[1].call] = "deleted",
         \A k \in Calls : k # q[1].call => d2[k] = d[k]
  PROVE  QueueInv(Tail(q), d2, h)
<1> DEFINE t == Tail(q)
<1>1. /\ t \in Seq(Message)
      /\ 1 \in 1..Len(q)
      /\ \A i \in 1..Len(t) : i + 1 \in 1..Len(q) /\ t[i] = q[i + 1]
      /\ \A i \in 1..Len(q) : i # 1 => i - 1 \in 1..Len(t) /\ t[i - 1] = q[i]
  BY TailIs DEF QueueInv
<1> HIDE DEF t
<1>2. ASSUME NEW i \in 1..Len(t)
      PROVE  /\ t[i].call # q[1].call
             /\ t[i].call # NoCall => d2[t[i].call] = d[t[i].call]
  <2>1. i + 1 \in 1..Len(q) /\ t[i] = q[i + 1] /\ ~(i + 1 <= 1)
    BY <1>1
  <2>2. t[i].call # q[1].call
    BY <1>1, <2>1 DEF QueueInv, FinalIsLast
  <2>3. t[i].call \in Calls \union {NoCall}
    BY <1>1, CallOfMessage
  <2> QED BY <2>2, <2>3
<1>3. Carried(t, d2)
  BY <1>1, <1>2 DEF QueueInv, Carried
<1>4. \A i \in 1..Len(t) : IsFinal(t[i]) => t[i].call # NoCall /\ d2[t[i].call] = "detached"
  BY <1>1, <1>2 DEF QueueInv, FinalIsLast
<1>5. ASSUME NEW i \in 1..Len(t), NEW j \in 1..Len(t), IsFinal(t[i]), t[j].call = t[i].call
      PROVE  j <= i
  <2>1. i + 1 \in 1..Len(q) /\ j + 1 \in 1..Len(q) /\ t[i] = q[i + 1] /\ t[j] = q[j + 1]
    BY <1>1
  <2>2. j + 1 <= i + 1
    BY <1>5, <2>1 DEF QueueInv, FinalIsLast
  <2> QED BY <2>2
<1>6. FinalComes(t, d2)
  <2> SUFFICES ASSUME NEW k \in Calls, d2[k] = "detached"
               PROVE  \E i \in 1..Len(t) : t[i].call = k /\ IsFinal(t[i])
    BY DEF FinalComes
  <2>1. k # q[1].call /\ d[k] = "detached"
    OBVIOUS
  <2>2. PICK i \in 1..Len(q) : q[i].call = k /\ IsFinal(q[i])
    BY <2>1 DEF QueueInv, FinalComes
  <2> QED BY <1>1, <2>1, <2>2
<1>7. HiddenUntold(t, d2, h)
  <2> SUFFICES ASSUME NEW k \in Calls, h[k], d2[k] = "attached", NEW i \in 1..Len(t)
               PROVE  t[i].call # k
    BY DEF HiddenUntold
  <2>1. k # q[1].call /\ d[k] = "attached"
    OBVIOUS
  <2> QED BY <1>1, <2>1 DEF QueueInv, HiddenUntold
<1>8. FinalIsLast(t, d2)
  BY <1>4, <1>5 DEF FinalIsLast
<1> QED BY <1>1, <1>3, <1>6, <1>7, <1>8 DEF QueueInv, t

\* No message is about a call that has not started.
LEMMA NewIsUntold ==
  ASSUME NEW q, NEW d, NEW h, QueueInv(q, d, h), NEW k \in Calls, d[k] = "none"
  PROVE  \A i \in 1..Len(q) : q[i].call # k
<1>1. k # NoCall
  BY CallsFinite
<1> QED BY <1>1 DEF QueueInv, Carried

\* A call starts.
LEMMA StartKeeps ==
  ASSUME NEW q, NEW d, NEW h, QueueInv(q, d, h), NEW k \in Calls, d[k] = "none",
         NEW d2, NEW h2, d2[k] = "attached",
         \A x \in Calls : x # k => d2[x] = d[x] /\ h2[x] = h[x]
  PROVE  QueueInv(q, d2, h2)
<1>1. \A i \in 1..Len(q) : q[i].call # k
  BY NewIsUntold
<1>2. \A i \in 1..Len(q) : q[i].call # NoCall => d2[q[i].call] = d[q[i].call]
  BY <1>1, CallOfMessage DEF QueueInv
<1>3. Carried(q, d2) /\ FinalIsLast(q, d2)
  BY <1>2 DEF QueueInv, Carried, FinalIsLast
<1>4. FinalComes(q, d2)
  BY DEF QueueInv, FinalComes
<1>5. HiddenUntold(q, d2, h2)
  BY <1>1 DEF QueueInv, HiddenUntold
<1> QED BY <1>3, <1>4, <1>5 DEF QueueInv

\* The user data of a call that is lost go with the slot.
LEMMA LosesKeeps ==
  ASSUME NEW q, NEW d, NEW h, QueueInv(q, d, h), NEW k \in Calls, d[k] = "attached",
         NEW d2, d2[k] = "leaked",
         \A x \in Calls : x # k => d2[x] = d[x]
  PROVE  QueueInv(q, d2, h)
<1>1. q \in Seq(Message) /\ \A i \in 1..Len(q) : q[i].call \in Calls \union {NoCall}
  BY CallOfMessage DEF QueueInv
<1>2. Carried(q, d2)
  BY <1>1 DEF QueueInv, Carried
<1>3. FinalIsLast(q, d2)
  BY <1>1 DEF QueueInv, FinalIsLast
<1>4. FinalComes(q, d2) /\ HiddenUntold(q, d2, h)
  BY DEF QueueInv, FinalComes, HiddenUntold
<1> QED BY <1>1, <1>2, <1>3, <1>4 DEF QueueInv

\* A call is rejected as it comes in: its first message is its last.
LEMMA RejectKeeps ==
  ASSUME NEW q, NEW d, NEW h, QueueInv(q, d, h), NEW k \in Calls, d[k] = "none",
         NEW d2, NEW h2, d2[k] = "detached",
         \A x \in Calls : x # k => d2[x] = d[x] /\ h2[x] = h[x],
         NEW m \in Message, m.call = k, IsFinal(m)
  PROVE  QueueInv(Append(q, m), d2, h2)
<1> DEFINE qm == Append(q, m)
<1>1. \A i \in 1..Len(q) : q[i].call # k
  BY NewIsUntold
<1>2. \A i \in 1..Len(q) : q[i].call # NoCall => d2[q[i].call] = d[q[i].call]
  BY <1>1, CallOfMessage DEF QueueInv
<1>3. q \in Seq(Message) /\ k # NoCall
  BY CallsFinite DEF QueueInv
<1>4. /\ qm \in Seq(Message) /\ Len(q) \in Nat
      /\ Len(qm) = Len(q) + 1
      /\ \A i \in 1..Len(q) : qm[i] = q[i]
      /\ qm[Len(q) + 1] = m
  BY <1>3, AppendProperties, LenProperties
<1> HIDE DEF qm
<1>5. /\ \A i \in 1..Len(q) : i \in 1..Len(qm) /\ qm[i] = q[i]
      /\ \A i \in 1..Len(qm) : (i \in 1..Len(q) /\ qm[i] = q[i]) \/ (i = Len(q) + 1 /\ qm[i] = m)
      /\ Len(q) + 1 \in 1..Len(qm)
  BY <1>4
<1>6. Carried(qm, d2)
  BY <1>2, <1>5 DEF QueueInv, Carried
<1>7. \A i \in 1..Len(qm) : IsFinal(qm[i]) => qm[i].call # NoCall /\ d2[qm[i].call] = "detached"
  BY <1>2, <1>3, <1>5 DEF QueueInv, FinalIsLast
<1>8. ASSUME NEW i \in 1..Len(qm), NEW j \in 1..Len(qm), IsFinal(qm[i]), qm[j].call = qm[i].call
      PROVE  j <= i
  <2>1. CASE i = Len(q) + 1
    BY <1>4, <2>1
  <2>2. CASE i \in 1..Len(q) /\ qm[i] = q[i]
    <3>1. qm[i].call # k
      BY <1>1, <2>2
    <3>2. j \in 1..Len(q) /\ qm[j] = q[j]
      BY <1>5, <1>8, <3>1
    <3> QED BY <1>8, <2>2, <3>2 DEF QueueInv, FinalIsLast
  <2> QED BY <1>5, <2>1, <2>2
<1>9. FinalComes(qm, d2)
  <2> SUFFICES ASSUME NEW x \in Calls, d2[x] = "detached"
               PROVE  \E i \in 1..Len(qm) : qm[i].call = x /\ IsFinal(qm[i])
    BY DEF FinalComes
  <2>1. CASE x = k
    BY <1>4, <1>5, <2>1
  <2>2. CASE x # k
    <3>1. PICK i \in 1..Len(q) : q[i].call = x /\ IsFinal(q[i])
      BY <2>2 DEF QueueInv, FinalComes
    <3> QED BY <1>5, <3>1
  <2> QED BY <2>1, <2>2
<1>10. HiddenUntold(qm, d2, h2)
  <2> SUFFICES ASSUME NEW x \in Calls, h2[x], d2[x] = "attached", NEW i \in 1..Len(qm)
               PROVE  qm[i].call # x
    BY DEF HiddenUntold
  <2>1. x # k /\ d[x] = "attached" /\ h[x]
    OBVIOUS
  <2> QED BY <1>5, <2>1 DEF QueueInv, HiddenUntold
<1>11. FinalIsLast(qm, d2)
  BY <1>7, <1>8 DEF FinalIsLast
<1> QED BY <1>4, <1>6, <1>9, <1>10, <1>11 DEF QueueInv, qm

-----------------------------------------------------------------------------
(* The invariant of pjsua's calls and their user data. *)

CoreType ==
  /\ inv \in [Calls -> {"none", "ringing", "calling", "connecting", "confirmed",
                        "hanging", "over", "lost"}]
  /\ slot \in [Calls -> Slots \union {NoSlot}]
  /\ next \in 0..NSlots
  /\ data \in [Calls -> {"none", "attached", "detached", "deleted", "leaked"}]
  /\ hidden \in [Calls -> BOOLEAN]

\* Where a call is that cannot be hidden, as it was made or answered, or may be yet
Open == {"none", "calling", "connecting", "confirmed"}

\* The user data follow the session.
Mirror ==
  \A k \in Calls : /\ data[k] = "attached" <=> k \in Active
                   /\ data[k] = "none" <=> inv[k] = "none"
                   /\ data[k] = "leaked" <=> inv[k] = "lost"
                   /\ inv[k] \in Open => ~hidden[k]

CoreInv == CoreType /\ SlotsApart /\ Mirror /\ QueueInv(queue, data, hidden)

\* How the user data change hands
Moves ==
  \A k \in Calls :
    \/ data'[k] = data[k]
    \/ data[k] = "none" /\ data'[k] \in {"attached", "detached"}
    \/ data[k] = "attached" /\ data'[k] = "detached"
    \/ data[k] = "attached" /\ data'[k] = "deleted" /\ hidden[k]
    \/ data[k] = "detached" /\ data'[k] = "deleted"
    \/ data[k] = "attached" /\ data'[k] = "leaked"

States == {"none", "ringing", "calling", "connecting", "confirmed", "hanging", "over", "lost"}
Going == {"ringing", "calling", "connecting", "confirmed"}

\* A call that does not end in a step goes on, or goes out of its slot.
KeepsOn(k) == /\ inv[k] \in Going <=> inv'[k] \in Going
              /\ inv[k] = "none" <=> inv'[k] = "none"
              /\ inv[k] = "lost" <=> inv'[k] = "lost"
              /\ inv[k] = "over" => inv'[k] = "over"
              /\ inv'[k] \in Open => inv[k] \in Open \/ ~hidden[k]

LEMMA ActiveIs == \A k \in Calls : k \in Active <=> inv[k] \in Going
BY DEF Active, Talks, Going

LEMMA EnumIs == Enum = {k \in Calls : inv[k] \in Going \union {"hanging"}}
BY DEF Enum, Active, Talks, Going

LEMMA AllocIs ==
  ASSUME CoreType, FreeSlots # {}
  PROVE  /\ Alloc \in Slots
         /\ \A k \in Enum : slot[k] # Alloc
         /\ Start + 1 \in 0..NSlots
<1> DEFINE after == {s \in FreeSlots : s >= Start}
<1>1. FreeSlots \in SUBSET Nat /\ after \in SUBSET Nat
  BY NSlotsAssumption DEF FreeSlots, Slots
<1>2. Alloc \in FreeSlots
  BY <1>1, MinIsIn DEF Alloc
<1>3. Alloc \in Slots /\ At(Alloc) = {}
  BY <1>2 DEF FreeSlots
<1>4. Start + 1 \in 0..NSlots
  BY NSlotsAssumption DEF Start, CoreType
<1> QED BY <1>3, <1>4 DEF At

LEMMA EndedType == Ended \in [Calls -> {"ended", "unanswered"}] /\ Ended \in [Calls -> Types]
BY DEF Ended, Types

\* What is posted when the calls S end.
LEMMA EndsTold ==
  ASSUME CoreInv, NEW S \in SUBSET Active, NEW q, QueueInv(q, data, hidden)
  PROVE  QueueInv(q \o Told(S, Ended), Parted(S), hidden)
<1>1. S \in SUBSET Enum /\ S \in SUBSET Calls
  BY DEF Enum, Active
<1>2. IsTold(Told(S, Ended), {k \in S : ~hidden[k]}, Ended)
  BY <1>1, ToldIsTold, EndedType DEF CoreInv
<1>3. \A k \in S : data[k] = "attached"
  BY <1>1 DEF CoreInv, Mirror
<1>4. \A k \in S : Ended[k] \in {"ended", "unanswered"}
  BY <1>1, EndedType
<1>5. \A k \in Calls : Parted(S)[k] = IF k \notin S THEN data[k]
                                      ELSE IF hidden[k] THEN "deleted" ELSE "detached"
  BY DEF Parted
<1> QED BY <1>1, <1>2, <1>3, <1>4, <1>5, EndsKeep

\* What is posted to calls that go on.
LEMMA GoesTold ==
  ASSUME CoreInv, NEW S \in SUBSET Enum, NEW q, NEW d, QueueInv(q, d, hidden),
         \A k \in S : d[k] = "attached", NEW t \in Types \ {"ended", "unanswered"}
  PROVE  QueueInv(q \o Told(S, All(t)), d, hidden)
<1>1. All(t) \in [Calls -> Types] /\ \A k \in Calls : All(t)[k] = t
  BY DEF All
<1>2. IsTold(Told(S, All(t)), {k \in S : ~hidden[k]}, All(t))
  BY <1>1, ToldIsTold DEF CoreInv
<1>3. {k \in S : ~hidden[k]} \in SUBSET Calls
  BY DEF Enum, Active
<1>4. \A k \in {k \in S : ~hidden[k]} : /\ d[k] = "attached" /\ ~hidden[k]
                                       /\ All(t)[k] \notin {"ended", "unanswered"}
  BY <1>1, <1>3
<1> QED BY <1>2, <1>3, <1>4, TellsKeep

\* The calls S end, the others keep on.
LEMMA Goes ==
  ASSUME CoreInv, NEW S \in SUBSET Active,
         inv' \in [Calls -> States],
         \A k \in S : inv'[k] \in {"hanging", "over"},
         \A k \in Calls \ S : KeepsOn(k),
         data' = Parted(S),
         UNCHANGED <<slot, next, hidden>>,
         QueueInv(queue', Parted(S), hidden)
  PROVE  CoreInv' /\ Moves
<1>1. CoreType'
  BY DEF CoreInv, CoreType, States, Parted
<1>2. Enum' \in SUBSET Enum
  <2>1. Enum' = {k \in Calls : inv'[k] \in Going \union {"hanging"}}
    BY DEF Enum, Active, Talks, Going
  <2>2. \A k \in Calls : inv[k] \in States
    BY DEF CoreInv, CoreType, States
  <2> QED BY <2>1, <2>2, ActiveIs, EnumIs DEF KeepsOn, States, Going
<1>3. SlotsApart'
  BY <1>2 DEF CoreInv, SlotsApart
<1>4. ASSUME NEW k \in Calls
      PROVE  /\ data'[k] = "attached" <=> inv'[k] \in Going
             /\ data'[k] = "none" <=> inv'[k] = "none"
             /\ data'[k] = "leaked" <=> inv'[k] = "lost"
             /\ inv'[k] \in Open => ~hidden'[k]
  <2>1. data'[k] = IF k \notin S THEN data[k] ELSE IF hidden[k] THEN "deleted" ELSE "detached"
    BY DEF Parted
  <2>2. data[k] = "attached" <=> inv[k] \in Going
    BY ActiveIs DEF CoreInv, Mirror
  <2>3. data[k] = "none" <=> inv[k] = "none"
    BY DEF CoreInv, Mirror
  <2>4. inv[k] \in Open => ~hidden[k]
    BY DEF CoreInv, Mirror
  <2>5. data[k] = "leaked" <=> inv[k] = "lost"
    BY DEF CoreInv, Mirror
  <2>6. CASE k \in S
    BY <2>1, <2>6 DEF Going, Open
  <2>7. CASE k \notin S
    BY <2>1, <2>2, <2>3, <2>4, <2>5, <2>7 DEF KeepsOn
  <2> QED BY <2>6, <2>7
<1>5. Mirror'
  <2>1. \A k \in Calls : k \in Active' <=> inv'[k] \in Going
    BY DEF Active, Talks, Going
  <2> QED BY <1>4, <2>1 DEF Mirror
<1>6. Moves
  <2>1. \A k \in S : data[k] = "attached"
    BY DEF CoreInv, Mirror, Active
  <2> QED BY <2>1 DEF Moves, Parted
<1> QED BY <1>1, <1>3, <1>5, <1>6 DEF CoreInv

\* The call k is lost.
LEMMA LostCore ==
  ASSUME CoreInv, NEW k \in Calls, Lost(k)
  PROVE  CoreInv' /\ Moves
<1>1. /\ inv[k] \in Open /\ inv[k] # "none" /\ data[k] = "attached"
      /\ inv' = [inv EXCEPT ![k] = "lost"]
      /\ data' = [data EXCEPT ![k] = "leaked"]
      /\ UNCHANGED <<slot, next, hidden, queue>>
  <2>1. k \in Active
    BY ActiveIs DEF Lost, Talks, Going
  <2> QED BY <2>1 DEF Lost, Talks, Open, CoreInv, Mirror
<1>2. CoreType'
  BY <1>1 DEF CoreInv, CoreType
<1>3. /\ inv'[k] = "lost" /\ data'[k] = "leaked"
      /\ \A x \in Calls : x # k => inv'[x] = inv[x] /\ data'[x] = data[x]
  BY <1>1 DEF CoreInv, CoreType
<1>4. Enum' \in SUBSET Enum
  <2>1. Enum' = {x \in Calls : inv'[x] \in Going \union {"hanging"}}
    BY DEF Enum, Active, Talks, Going
  <2> QED BY <1>3, <2>1, EnumIs DEF Going
<1>5. SlotsApart'
  BY <1>1, <1>4 DEF CoreInv, SlotsApart
<1>6. Mirror'
  <2>1. \A x \in Calls : x \in Active' <=> inv'[x] \in Going
    BY DEF Active, Talks, Going
  <2> SUFFICES ASSUME NEW x \in Calls
               PROVE  /\ data'[x] = "attached" <=> inv'[x] \in Going
                      /\ data'[x] = "none" <=> inv'[x] = "none"
                      /\ data'[x] = "leaked" <=> inv'[x] = "lost"
                      /\ inv'[x] \in Open => ~hidden'[x]
    BY <2>1 DEF Mirror
  <2>2. CASE x = k
    BY <1>3, <2>2 DEF Going, Open
  <2>3. CASE x # k
    <3>1. inv'[x] = inv[x] /\ data'[x] = data[x] /\ hidden'[x] = hidden[x]
      BY <1>1, <1>3, <2>3
    <3> QED BY <3>1, ActiveIs DEF CoreInv, Mirror
  <2> QED BY <2>2, <2>3
<1>7. QueueInv(queue', data', hidden')
  <2>1. QueueInv(queue, data', hidden)
    BY <1>1, <1>3, LosesKeeps DEF CoreInv
  <2> QED BY <1>1, <2>1
<1>8. Moves
  BY <1>1, <1>3 DEF Moves
<1> QED BY <1>2, <1>5, <1>6, <1>7, <1>8 DEF CoreInv

\* Nothing changes but the queue.
LEMMA Stays ==
  ASSUME CoreInv, UNCHANGED <<inv, slot, next, data, hidden>>,
         QueueInv(queue', data, hidden)
  PROVE  CoreInv' /\ Moves
<1>1. CoreType' /\ SlotsApart' /\ Mirror'
  BY DEF CoreInv, CoreType, SlotsApart, Mirror, Enum, Active, Talks
<1>2. Moves
  BY DEF Moves
<1> QED BY <1>1, <1>2 DEF CoreInv

\* The call k takes a slot, the calls S end and the others keep on.
LEMMA Starts ==
  ASSUME CoreInv, NEW k \in Calls, inv[k] = "none", FreeSlots # {},
         NEW S \in SUBSET Active,
         inv' \in [Calls -> States],
         inv'[k] # "none",
         \A x \in S : inv'[x] \in {"hanging", "over"},
         \A x \in Calls \ (S \union {k}) : KeepsOn(x),
         slot' = [slot EXCEPT ![k] = Alloc],
         next' = Start + 1,
         data' = [Parted(S) EXCEPT ![k] = IF inv'[k] \in Going THEN "attached" ELSE "detached"],
         hidden' \in [Calls -> BOOLEAN],
         \A x \in Calls : x # k => hidden'[x] = hidden[x],
         inv'[k] \in Open => ~hidden'[k], inv'[k] # "lost",
         QueueInv(queue', data', hidden')
  PROVE  CoreInv' /\ Moves
<1>1. /\ Alloc \in Slots
      /\ \A x \in Enum : slot[x] # Alloc
      /\ Start + 1 \in 0..NSlots
  BY AllocIs DEF CoreInv
<1>2. CoreType'
  BY <1>1 DEF CoreInv, CoreType, States, Parted
<1>3. Enum' \in SUBSET (Enum \union {k})
  <2>1. Enum' = {x \in Calls : inv'[x] \in Going \union {"hanging"}}
    BY DEF Enum, Active, Talks, Going
  <2>2. \A x \in Calls : inv[x] \in States
    BY DEF CoreInv, CoreType, States
  <2> QED BY <2>1, <2>2, ActiveIs, EnumIs DEF KeepsOn, States, Going
<1>4. k \notin Enum /\ k \notin S
  BY EnumIs, ActiveIs DEF Going
<1>5. SlotsApart'
  <2>1. \A x \in Enum : slot'[x] = slot[x] /\ slot[x] \in Slots
    BY <1>4 DEF CoreInv, SlotsApart, CoreType, Enum, Active
  <2>2. slot'[k] = Alloc
    BY DEF CoreInv, CoreType
  <2> QED BY <1>1, <1>3, <2>1, <2>2 DEF CoreInv, SlotsApart
<1>6. ASSUME NEW x \in Calls
      PROVE  /\ data'[x] = "attached" <=> inv'[x] \in Going
             /\ data'[x] = "none" <=> inv'[x] = "none"
             /\ data'[x] = "leaked" <=> inv'[x] = "lost"
             /\ inv'[x] \in Open => ~hidden'[x]
  <2>1. CASE x = k
    BY <2>1 DEF Parted
  <2>2. CASE x # k
    <3>1. data'[x] = IF x \notin S THEN data[x] ELSE IF hidden[x] THEN "deleted" ELSE "detached"
      BY <2>2 DEF Parted
    <3>2. data[x] = "attached" <=> inv[x] \in Going
      BY ActiveIs DEF CoreInv, Mirror
    <3>3. data[x] = "none" <=> inv[x] = "none"
      BY DEF CoreInv, Mirror
    <3>4. inv[x] \in Open => ~hidden[x]
      BY DEF CoreInv, Mirror
    <3>5. data[x] = "leaked" <=> inv[x] = "lost"
      BY DEF CoreInv, Mirror
    <3>6. CASE x \in S
      BY <2>2, <3>1, <3>6 DEF Going, Open
    <3>7. CASE x \notin S
      BY <2>2, <3>1, <3>2, <3>3, <3>4, <3>5, <3>7 DEF KeepsOn
    <3> QED BY <3>6, <3>7
  <2> QED BY <2>1, <2>2
<1>7. Mirror'
  <2>1. \A x \in Calls : x \in Active' <=> inv'[x] \in Going
    BY DEF Active, Talks, Going
  <2> QED BY <1>6, <2>1 DEF Mirror
<1>8. Moves
  <2>1. \A x \in S : data[x] = "attached"
    BY DEF CoreInv, Mirror, Active
  <2>2. data[k] = "none"
    BY DEF CoreInv, Mirror
  <2> QED BY <2>1, <2>2 DEF Moves, Parted
<1> QED BY <1>2, <1>5, <1>7, <1>8 DEF CoreInv

-----------------------------------------------------------------------------
(* What the actions have in common *)

LEMMA MsgIs ==
  ASSUME NEW t \in Types, NEW s \in Slots, NEW k \in Calls \union {NoCall}
  PROVE  /\ Msg(t, s, k) \in Message
         /\ Msg(t, s, k).call = k
         /\ IsFinal(Msg(t, s, k)) <=> t \in {"ended", "unanswered"}
BY DEF Msg, Message, IsFinal

LEMMA PartedNone == ASSUME CoreInv PROVE Parted({}) = data
BY DEF CoreInv, CoreType, Parted

\* A call that starts while no other ends
LEMMA StartsAlone ==
  ASSUME CoreInv, NEW k \in Calls, inv[k] = "none", FreeSlots # {},
         inv' \in [Calls -> States],
         inv'[k] # "none" /\ inv'[k] # "lost",
         \A x \in Calls \ {k} : KeepsOn(x),
         slot' = [slot EXCEPT ![k] = Alloc],
         next' = Start + 1,
         data' = [data EXCEPT ![k] = IF inv'[k] \in Going THEN "attached" ELSE "detached"],
         hidden' \in [Calls -> BOOLEAN],
         \A x \in Calls : x # k => hidden'[x] = hidden[x],
         inv'[k] \in Open => ~hidden'[k],
         QueueInv(queue', data', hidden')
  PROVE  CoreInv' /\ Moves
<1>1. {} \in SUBSET Active /\ \A x \in {} : inv'[x] \in {"hanging", "over"}
  OBVIOUS
<1>2. \A x \in Calls \ ({} \union {k}) : KeepsOn(x)
  OBVIOUS
<1>3. data' = [Parted({}) EXCEPT ![k] = IF inv'[k] \in Going THEN "attached" ELSE "detached"]
  BY PartedNone DEF CoreInv
<1> QED BY <1>1, <1>2, <1>3, Starts

LEMMA HeadIs ==
  ASSUME CoreInv, queue # <<>>
  PROVE  /\ Head1 \in Message
         /\ Head1.slot \in Slots
         /\ ~IsFinal(Head1) => QueueInv(Rest, data, hidden)
<1>1. queue \in Seq(Message)
  BY DEF CoreInv, QueueInv
<1>2. 1 \in 1..Len(queue)
  BY <1>1, TailIs
<1>3. Head1 \in Message
  BY <1>1, <1>2, CallOfMessage DEF Head1
<1>4. ~IsFinal(Head1) => QueueInv(Rest, data, hidden)
  BY HandledKeeps DEF Head1, Rest, CoreInv
<1> QED BY <1>3, <1>4 DEF Message

\* A message about no call is posted.
LEMMA NoCallPosted ==
  ASSUME NEW q, NEW d, NEW h, QueueInv(q, d, h), NEW s \in Slots,
         NEW t \in Types \ {"ended", "unanswered"}
  PROVE  QueueInv(Append(q, Msg(t, s, NoCall)), d, h)
<1>1. /\ Msg(t, s, NoCall) \in Message /\ Msg(t, s, NoCall).call = NoCall
      /\ ~IsFinal(Msg(t, s, NoCall))
  BY MsgIs
<1> QED BY <1>1, PostKeeps

LEMMA AnswerableIs ==
  ASSUME CoreInv, NEW s
  PROVE  /\ Answerable(s) \in SUBSET Active
         /\ Answerable(s) \in SUBSET Enum
         /\ \A k \in Answerable(s) : inv[k] = "ringing" /\ data[k] = "attached" /\ k \in Calls
<1>1. Answerable(s) \in SUBSET Enum /\ \A k \in Answerable(s) : inv[k] = "ringing"
  BY DEF Answerable, At, Ringing
<1>2. Answerable(s) \in SUBSET Active
  BY <1>1 DEF Enum
<1>3. Active \in SUBSET Calls
  BY DEF Active
<1> QED BY <1>1, <1>2, <1>3 DEF CoreInv, Mirror

LEMMA AutoAnswerPosts ==
  ASSUME CoreInv, NEW s \in Slots, NEW q, QueueInv(q, data, hidden), AutoAnswer(s, q)
  PROVE  QueueInv(queue', data, hidden)
<1>1. QueueInv(Append(q, Msg("answer", s, NoCall)), data, hidden)
  BY NoCallPosted DEF Types
<1> QED BY <1>1 DEF AutoAnswer

\* The calls S end with the same state.
LEMMA EndCore ==
  ASSUME CoreInv, NEW S \in SUBSET Active, NEW state \in {"hanging", "over"},
         NEW q, QueueInv(q, data, hidden),
         inv' = [k \in Calls |-> IF k \in S THEN state ELSE inv[k]],
         data' = Parted(S), UNCHANGED <<slot, next, hidden>>,
         queue' = q \o Told(S, Ended)
  PROVE  CoreInv' /\ Moves
<1>1. inv' \in [Calls -> States] /\ \A k \in S : inv'[k] \in {"hanging", "over"}
  BY DEF CoreInv, CoreType, States, Active
<1>2. \A k \in Calls \ S : KeepsOn(k)
  BY DEF KeepsOn
<1>3. QueueInv(queue', Parted(S), hidden)
  BY EndsTold
<1> QED BY <1>1, <1>2, <1>3, Goes

LEMMA RefuseCore ==
  ASSUME CoreInv, NEW s, NEW q, QueueInv(q, data, hidden), Refuse(s, q)
  PROVE  CoreInv' /\ Moves
BY AnswerableIs, EndCore DEF Refuse, End

LEMMA OnCallAnswerCore ==
  ASSUME CoreInv, NEW s, NEW q, QueueInv(q, data, hidden), OnCallAnswer(s, q)
  PROVE  CoreInv' /\ Moves
<1> DEFINE S == IF SingleMode THEN NotIncoming ELSE {}
           T == S \intersect Active
<1>1. CASE \E k \in At(s) : Ringing(k)
  <2>1. /\ inv' = [k \in Calls |-> IF k \in Answerable(s) THEN "connecting" ELSE InvAfter(S)[k]]
        /\ data' = Parted(T)
        /\ queue' = (q \o Told(T, Ended)) \o Told(Answerable(s), All("answered"))
        /\ UNCHANGED <<slot, next, hidden>>
    BY <1>1 DEF OnCallAnswer, ToldAfter
  <2>2. T \in SUBSET Active /\ \A k \in T : inv[k] # "ringing"
    BY DEF NotIncoming, Ringing
  <2> HIDE DEF S, T
  <2>3. \A k \in Answerable(s) : k \notin T /\ Parted(T)[k] = "attached"
    BY <2>2, AnswerableIs DEF Parted
  <2>4. QueueInv(q \o Told(T, Ended), Parted(T), hidden)
    BY <2>2, EndsTold
  <2>5. QueueInv(queue', Parted(T), hidden)
    BY <2>1, <2>3, <2>4, GoesTold, AnswerableIs DEF Types
  <2>6. \A k \in Calls : inv'[k] = IF k \in Answerable(s) THEN "connecting"
                                  ELSE IF k \in T THEN "hanging" ELSE inv[k]
    BY <2>1 DEF InvAfter, T
  <2>7. inv' \in [Calls -> States]
    BY <2>1, <2>6 DEF CoreInv, CoreType, States
  <2>8. \A k \in Calls \ T : KeepsOn(k)
    <3>1. \A k \in Answerable(s) : ~hidden[k]
      BY DEF Answerable
    <3> QED BY <2>6, <3>1, AnswerableIs DEF KeepsOn, Going
  <2>9. \A k \in T : inv'[k] \in {"hanging", "over"}
    BY <2>2, <2>3, <2>6 DEF Active
  <2> QED BY <2>1, <2>2, <2>5, <2>7, <2>8, <2>9, Goes
<1>2. CASE ~\E k \in At(s) : Ringing(k)
  <2>1. queue' = q /\ UNCHANGED <<inv, slot, next, data, hidden>>
    BY <1>2 DEF OnCallAnswer, pjsua, users
  <2> QED BY <2>1, Stays
<1> QED BY <1>1, <1>2

LEMMA HangupFastCore ==
  ASSUME CoreInv, NEW S, HangupFast(S)
  PROVE  CoreInv' /\ Moves
<1> DEFINE T == S \intersect Active
<1>1. T \in SUBSET Active /\ QueueInv(queue, data, hidden)
  BY DEF CoreInv
<1>2. inv' = [k \in Calls |-> IF k \in T THEN "hanging" ELSE inv[k]]
  BY DEF HangupFast, InvAfter
<1> QED BY <1>1, <1>2, EndCore DEF HangupFast, ToldAfter

-----------------------------------------------------------------------------
(* Every action keeps the invariant. *)

LEMMA IncomingCore ==
  ASSUME CoreInv, NEW k \in Calls, NEW n \in Numbers, Incoming(k, n)
  PROVE  CoreInv' /\ Moves
<1>1. QueueInv(queue, data, hidden)
  BY DEF CoreInv
<1>2. inv[k] = "none" => data[k] = "none" /\ ~hidden[k]
  BY DEF CoreInv, Mirror, Open
<1>3. FreeSlots # {} => Alloc \in Slots
  BY AllocIs DEF CoreInv
<1>4. \A x \in Calls : inv'[x] = inv[x] => KeepsOn(x)
  BY DEF KeepsOn
<1>5. CASE /\ Takes(k, n, "in", [inv EXCEPT ![k] = "ringing"])
           /\ data' = [data EXCEPT ![k] = "attached"]
           /\ queue' = Append(queue, Msg("incoming", Alloc, k))
           /\ UNCHANGED hidden
  <2>1. /\ inv[k] = "none" /\ FreeSlots # {} /\ inv' = [inv EXCEPT ![k] = "ringing"]
        /\ slot' = [slot EXCEPT ![k] = Alloc] /\ next' = Start + 1
    BY <1>5 DEF Takes
  <2>2. QueueInv(queue, data', hidden)
    BY <1>1, <1>2, <1>5, <2>1, StartKeeps DEF CoreInv, CoreType
  <2>3. /\ Msg("incoming", Alloc, k) \in Message
        /\ Msg("incoming", Alloc, k).call = k
        /\ ~IsFinal(Msg("incoming", Alloc, k))
    BY <1>3, <2>1, MsgIs DEF Types
  <2>4. data'[k] = "attached" /\ ~hidden[k]
    BY <1>2, <1>5, <2>1 DEF CoreInv, CoreType
  <2>5. QueueInv(queue', data', hidden')
    BY <1>5, <2>2, <2>3, <2>4, PostKeeps
  <2>6. inv' \in [Calls -> States] /\ inv'[k] = "ringing" /\ \A x \in Calls \ {k} : inv'[x] = inv[x]
    BY <2>1 DEF CoreInv, CoreType, States
  <2>7. data' = [data EXCEPT ![k] = IF inv'[k] \in Going THEN "attached" ELSE "detached"]
    BY <1>1, <1>5, <2>6 DEF Going
  <2>8. hidden' \in [Calls -> BOOLEAN] /\ \A x \in Calls : x # k => hidden'[x] = hidden[x]
    BY <1>5 DEF CoreInv, CoreType
  <2>9. (inv'[k] \in Open => ~hidden'[k]) /\ inv'[k] # "lost" /\ inv'[k] # "none"
    BY <2>6 DEF Open
  <2>10. \A x \in Calls \ {k} : KeepsOn(x)
    BY <1>4, <2>6
  <2> QED BY <2>1, <2>5, <2>6, <2>7, <2>8, <2>9, <2>10, StartsAlone
<1>6. CASE \E state \in {"hanging", "over", "ringing"} :
             /\ Takes(k, n, "in", [inv EXCEPT ![k] = state])
             /\ hidden' = [hidden EXCEPT ![k] = TRUE]
             /\ IF state = "ringing"
                THEN /\ data' = [data EXCEPT ![k] = "attached"]
                     /\ UNCHANGED queue
                ELSE /\ data' = [data EXCEPT ![k] = "detached"]
                     /\ queue' = Append(queue, Msg("unanswered", Alloc, k))
  <2>1. PICK state \in {"hanging", "over", "ringing"} :
             /\ Takes(k, n, "in", [inv EXCEPT ![k] = state])
             /\ hidden' = [hidden EXCEPT ![k] = TRUE]
             /\ IF state = "ringing"
                THEN /\ data' = [data EXCEPT ![k] = "attached"]
                     /\ UNCHANGED queue
                ELSE /\ data' = [data EXCEPT ![k] = "detached"]
                     /\ queue' = Append(queue, Msg("unanswered", Alloc, k))
    BY <1>6
  <2>2. /\ inv[k] = "none" /\ FreeSlots # {} /\ inv' = [inv EXCEPT ![k] = state]
        /\ slot' = [slot EXCEPT ![k] = Alloc] /\ next' = Start + 1
    BY <2>1 DEF Takes
  <2>3. inv' \in [Calls -> States] /\ inv'[k] = state /\ \A x \in Calls \ {k} : inv'[x] = inv[x]
    BY <2>2 DEF CoreInv, CoreType, States
  <2>4. hidden' \in [Calls -> BOOLEAN] /\ \A x \in Calls : x # k => hidden'[x] = hidden[x]
    BY <2>1 DEF CoreInv, CoreType
  <2>5. \A x \in Calls \ {k} : KeepsOn(x)
    BY <1>4, <2>3
  <2>6. CASE state = "ringing"
    <3>1. data' = [data EXCEPT ![k] = "attached"] /\ queue' = queue
      BY <2>1, <2>6
    <3>2. data'[k] = "attached" /\ \A x \in Calls : x # k => data'[x] = data[x]
      BY <3>1 DEF CoreInv, CoreType
    <3>3. QueueInv(queue', data', hidden')
      <4>1. QueueInv(queue, data', hidden')
        BY <1>1, <1>2, <2>2, <2>4, <3>2, StartKeeps
      <4> QED BY <3>1, <4>1
    <3>4. data' = [data EXCEPT ![k] = IF inv'[k] \in Going THEN "attached" ELSE "detached"]
      BY <1>1, <2>3, <2>6, <3>1 DEF Going
    <3>5. (inv'[k] \in Open => ~hidden'[k]) /\ inv'[k] # "lost" /\ inv'[k] # "none"
      BY <2>3, <2>6 DEF Open
    <3> QED BY <2>2, <2>3, <2>4, <2>5, <3>3, <3>4, <3>5, StartsAlone
  <2>7. CASE state # "ringing"
    <3>1. /\ data' = [data EXCEPT ![k] = "detached"]
          /\ queue' = Append(queue, Msg("unanswered", Alloc, k))
      BY <2>1, <2>7
    <3>2. /\ Msg("unanswered", Alloc, k) \in Message
          /\ Msg("unanswered", Alloc, k).call = k
          /\ IsFinal(Msg("unanswered", Alloc, k))
      BY <1>3, <2>2, MsgIs DEF Types
    <3>3. data'[k] = "detached" /\ \A x \in Calls : x # k => data'[x] = data[x]
      BY <3>1 DEF CoreInv, CoreType
    <3>4. QueueInv(queue', data', hidden')
      <4>1. QueueInv(Append(queue, Msg("unanswered", Alloc, k)), data', hidden')
        BY <1>1, <1>2, <2>2, <2>4, <3>2, <3>3, RejectKeeps
      <4> QED BY <3>1, <4>1
    <3>5. data' = [data EXCEPT ![k] = IF inv'[k] \in Going THEN "attached" ELSE "detached"]
      BY <1>1, <2>3, <2>7, <3>1 DEF Going
    <3>6. inv'[k] # "none"
      BY <2>3
    <3>7. (inv'[k] \in Open => ~hidden'[k]) /\ inv'[k] # "lost"
      BY <2>3, <2>7 DEF Open
    <3> QED BY <2>2, <2>3, <2>4, <2>5, <3>4, <3>5, <3>6, <3>7, StartsAlone
  <2> QED BY <2>6, <2>7
<1> QED BY <1>5, <1>6 DEF Incoming

LEMMA DialCore ==
  ASSUME CoreInv, NEW k \in Calls, NEW n \in Numbers, Dial(k, n)
  PROVE  CoreInv' /\ Moves
<1> DEFINE S == IF SingleMode THEN NotIncoming ELSE {}
           T == S \intersect Active
           q1 == queue \o Told(T, Ended)
           d1 == Parted(T)
<1>1. /\ inv[k] = "none" /\ FreeSlots # {}
      /\ inv' = [InvAfter(S) EXCEPT ![k] = "calling"]
      /\ slot' = [slot EXCEPT ![k] = Alloc] /\ next' = Start + 1
      /\ data' = [d1 EXCEPT ![k] = "attached"]
      /\ queue' = Append(q1, Msg("calling", Alloc, k))
      /\ hidden' = hidden
  BY DEF Dial, Takes, ToldAfter
<1>2. \A x \in Calls : InvAfter(S)[x] = IF x \in T THEN "hanging" ELSE inv[x]
  BY DEF InvAfter
<1>3. T \in SUBSET Active /\ k \notin T
  BY <1>1, ActiveIs DEF Going
<1> HIDE DEF S, T
<1>4. QueueInv(q1, d1, hidden)
  BY <1>3, EndsTold DEF CoreInv
<1>5. d1[k] = "none" /\ ~hidden[k]
  BY <1>1, <1>3 DEF CoreInv, Mirror, Open, Parted
<1>6. data'[k] = "attached" /\ \A x \in Calls : x # k => data'[x] = d1[x]
  BY <1>1 DEF Parted
<1>7. QueueInv(q1, data', hidden)
  BY <1>4, <1>5, <1>6, StartKeeps
<1>8. Alloc \in Slots
  BY <1>1, AllocIs DEF CoreInv
<1>9. /\ Msg("calling", Alloc, k) \in Message
      /\ Msg("calling", Alloc, k).call = k
      /\ ~IsFinal(Msg("calling", Alloc, k))
  BY <1>8, MsgIs DEF Types
<1>10. QueueInv(queue', data', hidden')
  BY <1>1, <1>5, <1>6, <1>7, <1>9, PostKeeps
<1>11. inv' = [x \in Calls |-> IF x = k THEN "calling" ELSE IF x \in T THEN "hanging" ELSE inv[x]]
  BY <1>1, <1>2 DEF InvAfter
<1>12. inv' \in [Calls -> States] /\ inv'[k] = "calling"
  BY <1>11 DEF CoreInv, CoreType, States
<1>13. \A x \in T : inv'[x] \in {"hanging", "over"}
  BY <1>3, <1>11 DEF Active
<1>14. \A x \in Calls \ (T \union {k}) : KeepsOn(x)
  BY <1>11 DEF KeepsOn
<1>15. data' = [d1 EXCEPT ![k] = IF inv'[k] \in Going THEN "attached" ELSE "detached"]
  BY <1>1, <1>12 DEF Going
<1>16. hidden' \in [Calls -> BOOLEAN] /\ \A x \in Calls : x # k => hidden'[x] = hidden[x]
  BY <1>1 DEF CoreInv, CoreType
<1>17. (inv'[k] \in Open => ~hidden'[k]) /\ inv'[k] # "lost"
  BY <1>1, <1>5, <1>12
<1> QED BY <1>1, <1>17, <1>3, <1>10, <1>12, <1>13, <1>14, <1>15, <1>16, Starts

LEMMA ConfirmCore ==
  ASSUME CoreInv, NEW k \in Calls, Confirm(k)
  PROVE  CoreInv' /\ Moves
<1>1. QueueInv(queue, data, hidden) /\ Parted({}) = data /\ {} \in SUBSET Active
  BY PartedNone DEF CoreInv
<1>2. k \in Active /\ {k} \in SUBSET Enum /\ data[k] = "attached"
  BY ActiveIs DEF Confirm, Going, CoreInv, Mirror, Enum
<1>3. QueueInv(queue', data, hidden)
  BY <1>1, <1>2, GoesTold DEF Confirm, Types
<1>4. inv' \in [Calls -> States]
  BY DEF Confirm, CoreInv, CoreType, States
<1>5. \A x \in Calls \ {} : KeepsOn(x)
  BY DEF Confirm, CoreInv, CoreType, KeepsOn, Going, Open
<1>6. data' = Parted({}) /\ UNCHANGED <<slot, next, hidden>>
  BY <1>1 DEF Confirm
<1> QED BY <1>1, <1>3, <1>4, <1>5, <1>6, Goes

LEMMA MediaStateCore ==
  ASSUME CoreInv, NEW k \in Calls, MediaState(k)
  PROVE  CoreInv' /\ Moves
<1>1. /\ k \in Active /\ inv[k] \in Open
      /\ queue' = Append(queue, Msg("media", slot[k], k))
      /\ UNCHANGED <<inv, slot, next, data, hidden>>
  BY ActiveIs DEF MediaState, Talks, Going, Open, pjsua, users
<1>2. data[k] = "attached" /\ ~hidden[k] /\ slot[k] \in Slots
  BY <1>1 DEF CoreInv, Mirror, SlotsApart, Enum
<1>3. /\ Msg("media", slot[k], k) \in Message
      /\ Msg("media", slot[k], k).call = k
      /\ ~IsFinal(Msg("media", slot[k], k))
  BY <1>2, MsgIs DEF Types
<1>4. QueueInv(queue', data, hidden)
  BY <1>1, <1>2, <1>3, PostKeeps DEF CoreInv
<1> QED BY <1>1, <1>4, Stays

LEMMA RemoteEndCore ==
  ASSUME CoreInv, NEW k \in Calls, RemoteEnd(k)
  PROVE  CoreInv' /\ Moves
<1>1. QueueInv(queue, data, hidden) /\ {k} \in SUBSET Active
  BY DEF CoreInv, RemoteEnd
<1> QED BY <1>1, EndCore DEF RemoteEnd, End

LEMMA TimeOutCore ==
  ASSUME CoreInv, NEW k \in Calls, TimeOut(k)
  PROVE  CoreInv' /\ Moves
<1> DEFINE S == At(slot[k]) \intersect Active
<1>1. QueueInv(queue, data, hidden) /\ S \in SUBSET Active
  BY DEF CoreInv
<1> QED BY <1>1, EndCore DEF TimeOut

LEMMA ByeDoneCore ==
  ASSUME CoreInv, NEW k \in Calls, ByeDone(k)
  PROVE  CoreInv' /\ Moves
<1>1. QueueInv(queue, data, hidden) /\ Parted({}) = data /\ {} \in SUBSET Active
  BY PartedNone DEF CoreInv
<1>2. inv' \in [Calls -> States]
  BY DEF ByeDone, CoreInv, CoreType, States
<1>3. \A x \in Calls \ {} : KeepsOn(x)
  BY DEF ByeDone, CoreInv, CoreType, KeepsOn, Going, Open
<1>4. data' = Parted({}) /\ queue' = queue /\ UNCHANGED <<slot, next, hidden>>
  BY <1>1 DEF ByeDone, users
<1> QED BY <1>1, <1>2, <1>3, <1>4, Goes

LEMMA HandleEndedCore ==
  ASSUME CoreInv, queue # <<>>, HandleEnded
  PROVE  CoreInv' /\ Moves
<1> DEFINE k == queue[1].call
<1>1. /\ IsFinal(queue[1]) /\ queue' = Tail(queue)
      /\ data' = [data EXCEPT ![k] = "deleted"]
      /\ UNCHANGED <<inv, slot, next, hidden>>
  BY DEF HandleEnded, Head1, Rest, IsFinal, pjsua
<1>2. queue \in Seq(Message) /\ 1 \in 1..Len(queue) /\ QueueInv(queue, data, hidden)
  BY TailIs DEF CoreInv, QueueInv
<1>3. k \in Calls /\ data[k] = "detached"
  BY <1>1, <1>2, CallOfMessage DEF QueueInv, FinalIsLast
<1> HIDE DEF k
<1>4. data'[k] = "deleted" /\ \A x \in Calls : x # k => data'[x] = data[x]
  BY <1>1, <1>3 DEF CoreInv, CoreType
<1>5. QueueInv(queue', data', hidden')
  <2>1. QueueInv(Tail(queue), data', hidden)
    BY <1>1, <1>2, <1>4, ReleaseKeeps DEF k
  <2> QED BY <1>1, <2>1
<1>6. CoreType'
  BY <1>1 DEF CoreInv, CoreType
<1>7. SlotsApart'
  BY <1>1 DEF CoreInv, SlotsApart, Enum, Active, Talks
<1>8. Mirror'
  <2>1. \A x \in Calls : x \in Active' <=> x \in Active
    BY <1>1 DEF Active, Talks
  <2>2. k \notin Active /\ inv[k] # "none" /\ inv[k] # "lost"
    BY <1>3 DEF CoreInv, Mirror
  <2> SUFFICES ASSUME NEW x \in Calls
               PROVE  /\ data'[x] = "attached" <=> x \in Active
                      /\ data'[x] = "none" <=> inv[x] = "none"
                      /\ data'[x] = "leaked" <=> inv[x] = "lost"
                      /\ inv[x] \in Open => ~hidden[x]
    BY <1>1, <2>1 DEF Mirror
  <2> QED BY <1>4, <2>2 DEF CoreInv, Mirror
<1>9. Moves
  BY <1>3, <1>4 DEF Moves
<1> QED BY <1>5, <1>6, <1>7, <1>8, <1>9 DEF CoreInv

LEMMA HandleMessageCore ==
  ASSUME CoreInv, HandleMessage
  PROVE  CoreInv' /\ Moves
<1>1. queue # <<>> /\ QueueInv(queue, data, hidden)
  BY DEF HandleMessage, CoreInv
<1>2. Head1.slot \in Slots /\ Head1 = queue[1]
  BY <1>1, HeadIs DEF Head1
<1>3. ~IsFinal(Head1) => QueueInv(Rest, data, hidden)
  BY <1>1, HeadIs
<1>4. CASE HandleIncoming
  <2>1. QueueInv(Rest, data, hidden)
    BY <1>3, <1>4 DEF HandleIncoming, IsFinal
  <2> DEFINE s == Head1.slot
  <2>2. \/ Refuse(s, Rest)
        \/ queue' = Rest /\ UNCHANGED <<pjsua, users>>
        \/ AutoAnswer(s, Rest) /\ UNCHANGED <<pjsua, users>>
        \/ /\ queue' = Append(Rest, Msg("create", s, NoCall)) \o Told(Answerable(s), All("ringing"))
           /\ UNCHANGED <<pjsua, users>>
    BY <1>4 DEF HandleIncoming
  <2> HIDE DEF s
  <2>3. CASE Refuse(s, Rest)
    BY <2>1, <2>3, RefuseCore
  <2>4. ASSUME UNCHANGED <<pjsua, users>>, QueueInv(queue', data, hidden)
        PROVE  CoreInv' /\ Moves
    BY <2>4, Stays DEF pjsua, users
  <2>5. ASSUME AutoAnswer(s, Rest) PROVE QueueInv(queue', data, hidden)
    BY <1>2, <2>1, <2>5, AutoAnswerPosts DEF s
  <2>6. ASSUME queue' = Append(Rest, Msg("create", s, NoCall)) \o Told(Answerable(s), All("ringing"))
        PROVE  QueueInv(queue', data, hidden)
    <3>1. QueueInv(Append(Rest, Msg("create", s, NoCall)), data, hidden)
      BY <1>2, <2>1, NoCallPosted DEF s, Types
    <3>2. Answerable(s) \in SUBSET Enum /\ \A k \in Answerable(s) : data[k] = "attached"
      BY AnswerableIs
    <3> QED BY <2>6, <3>1, <3>2, GoesTold DEF Types
  <2>7. QueueInv(queue', data, hidden) \/ Refuse(s, Rest)
    BY <2>1, <2>2, <2>5, <2>6
  <2> QED BY <2>2, <2>3, <2>4, <2>7
<1>5. CASE HandleCreate
  <2>1. QueueInv(queue', data, hidden)
    BY <1>3, <1>5 DEF HandleCreate, IsFinal
  <2> QED BY <1>5, <2>1, Stays DEF HandleCreate, pjsua, users
<1>6. CASE HandleAnswer
  <2>1. QueueInv(Rest, data, hidden)
    BY <1>3, <1>6 DEF HandleAnswer, IsFinal
  <2> QED BY <1>6, <2>1, OnCallAnswerCore, RefuseCore DEF HandleAnswer
<1>7. CASE HandleState
  <2>1. QueueInv(Rest, data, hidden)
    BY <1>3, <1>7 DEF HandleState, IsFinal
  <2>2. QueueInv(Append(Rest, Msg("reject", Head1.slot, NoCall)), data, hidden)
    BY <1>2, <2>1, NoCallPosted DEF Types
  <2>3. QueueInv(queue', data, hidden)
    BY <1>7, <2>1, <2>2 DEF HandleState
  <2> QED BY <1>7, <2>3, Stays DEF HandleState, pjsua, users
<1>8. CASE HandleEnded
  BY <1>1, <1>8, HandleEndedCore
<1> QED BY <1>4, <1>5, <1>6, <1>7, <1>8 DEF HandleMessage

-----------------------------------------------------------------------------
(* The types of the rest of the state *)

UIType ==
  /\ role \in [Calls -> {"in", "out"}]
  /\ number \in [Calls -> Numbers]
  /\ timer \in [Calls -> BOOLEAN]
  /\ tab \in [Numbers -> Slots \union {NoSlot, NoTab}]
  /\ dialogs \in Seq(Slots)
  /\ ring \in BOOLEAN
  /\ {aaTimer, fwdTimer, aaPlay} \subseteq Slots \union {NoSlot}

LEMMA TypeIs == TypeOK <=> CoreType /\ UIType /\ queue \in Seq(Message)
BY DEF TypeOK, CoreType, UIType, Message

\* Where the first ringing dialog of a slot is, or 0
FoundAt(s) == LET I == {i \in 1..Len(dialogs) : dialogs[i] = s}
              IN  IF I # {} THEN Min(I) ELSE 0

LEMMA FoundType ==
  ASSUME UIType, NEW s
  PROVE  FoundAt(s) \in 0..Len(dialogs) /\ Len(dialogs) \in Nat
<1> DEFINE I == {i \in 1..Len(dialogs) : dialogs[i] = s}
<1>1. Len(dialogs) \in Nat
  BY LenProperties DEF UIType
<1>2. I \in SUBSET Nat /\ I \in SUBSET (1..Len(dialogs))
  BY <1>1
<1>3. FoundAt(s) = IF I # {} THEN Min(I) ELSE 0
  BY DEF FoundAt
<1> HIDE DEF I
<1>4. CASE I # {}
  <2>1. Min(I) \in I
    BY <1>2, <1>4, MinIsIn
  <2>2. Min(I) \in 1..Len(dialogs)
    BY <1>2, <2>1, Zenon
  <2> QED BY <1>1, <1>3, <1>4, <2>2
<1>5. CASE I = {}
  BY <1>1, <1>3, <1>5
<1> QED BY <1>1, <1>4, <1>5

LEMMA RemoveType ==
  ASSUME NEW q \in Seq(Slots), NEW i \in 1..Len(q)
  PROVE  RemoveAt(q, i) \in Seq(Slots)
<1>1. Len(q) \in Nat /\ \A j \in 1..Len(q) : q[j] \in Slots
  BY LenProperties, ElementOfSeq
<1>2. SubSeq(q, 1, i - 1) \in Seq(Slots)
  BY <1>1, SubSeqProperties
<1>3. SubSeq(q, i + 1, Len(q)) \in Seq(Slots)
  BY <1>1, SubSeqProperties
<1> QED BY <1>2, <1>3, ConcatProperties DEF RemoveAt

LEMMA DropType ==
  ASSUME UIType, NEW s, NEW c, DropDialog(s, c)
  PROVE  dialogs' \in Seq(Slots) /\ ring' \in BOOLEAN
<1>1. dialogs' = IF FoundAt(s) = 0 THEN dialogs ELSE RemoveAt(dialogs, FoundAt(s))
  BY DEF DropDialog, SelectInSeq, FoundAt
<1>2. ring' \in BOOLEAN
  BY Zenon DEF DropDialog
<1>3. FoundAt(s) = 0 \/ FoundAt(s) \in 1..Len(dialogs)
  BY FoundType
<1> QED BY <1>1, <1>2, <1>3, RemoveType DEF UIType

LEMMA CloseType ==
  ASSUME UIType, NEW s, Close(s)
  PROVE  dialogs' \in Seq(Slots) /\ ring' \in BOOLEAN
<1>1. FoundAt(s) # 0 /\ dialogs' = RemoveAt(dialogs, FoundAt(s))
  BY DEF Close, SelectInSeq, FoundAt
<1>2. ring' \in BOOLEAN
  BY Zenon DEF Close
<1>3. FoundAt(s) \in 1..Len(dialogs)
  BY <1>1, FoundType
<1> QED BY <1>1, <1>2, <1>3, RemoveType DEF UIType

Places == Slots \union {NoSlot}

\* What a call takes is in range.
LEMMA TakesUI ==
  ASSUME CoreInv, UIType, NEW k \in Calls, NEW n \in Numbers, NEW dir \in {"in", "out"},
         NEW states, Takes(k, n, dir, states)
  PROVE  role' \in [Calls -> {"in", "out"}] /\ number' \in [Calls -> Numbers] /\ Alloc \in Slots
<1>1. Alloc \in Slots
  BY AllocIs DEF Takes, CoreInv
<1> QED BY <1>1 DEF Takes, UIType

LEMMA KillType ==
  ASSUME {aaTimer, fwdTimer} \subseteq Places, NEW really, KillTimers(really)
  PROVE  {aaTimer', fwdTimer'} \subseteq Places
BY DEF KillTimers, Places

LEMMA TabType ==
  ASSUME UIType, NEW S
  PROVE  TabAfter(S) \in [Numbers -> Slots \union {NoSlot, NoTab}]
BY DEF UIType, TabAfter

LEMMA IncomingUI ==
  ASSUME CoreInv, UIType, NEW k \in Calls, NEW n \in Numbers, Incoming(k, n)
  PROVE  UIType'
<1>1. PICK states : Takes(k, n, "in", states)
  BY DEF Incoming
<1>2. role' \in [Calls -> {"in", "out"}] /\ number' \in [Calls -> Numbers] /\ Alloc \in Slots
  BY <1>1, TakesUI
<1>3. aaTimer' \in {aaTimer, Alloc} /\ fwdTimer' \in {fwdTimer, Alloc}
  BY DEF Incoming
<1>4. UNCHANGED <<timer, tab, dialogs, ring, aaPlay>>
  BY DEF Incoming
<1> QED BY <1>2, <1>3, <1>4 DEF UIType

LEMMA OnCallAnswerUI ==
  ASSUME UIType, NEW s, NEW q, OnCallAnswer(s, q)
  PROVE  UIType'
<1> DEFINE S == IF SingleMode THEN NotIncoming ELSE {}
<1>1. CASE \E k \in At(s) : Ringing(k)
  <2>1. /\ tab' = TabAfter(S) /\ KillTimers(TabsOf(S) # {}) /\ ring' = FALSE
        /\ UNCHANGED <<role, number, timer, dialogs, aaPlay>>
    BY <1>1 DEF OnCallAnswer
  <2> HIDE DEF S
  <2>2. {aaTimer', fwdTimer'} \subseteq Places
    BY <2>1, KillType DEF UIType, Places
  <2>3. tab' \in [Numbers -> Slots \union {NoSlot, NoTab}]
    BY <2>1, TabType
  <2> QED BY <2>1, <2>2, <2>3 DEF UIType, Places
<1>2. CASE ~\E k \in At(s) : Ringing(k)
  BY <1>2 DEF OnCallAnswer, UIType, pjsua, users, timers
<1> QED BY <1>1, <1>2

LEMMA HangupFastUI ==
  ASSUME UIType, NEW S, HangupFast(S)
  PROVE  UIType'
<1>1. {aaTimer', fwdTimer'} \subseteq Places
  BY KillType DEF HangupFast, UIType, Places
<1>2. tab' \in [Numbers -> Slots \union {NoSlot, NoTab}]
  BY TabType DEF HangupFast
<1>3. UNCHANGED <<role, number, timer, dialogs, ring, aaPlay>>
  BY DEF HangupFast
<1> QED BY <1>1, <1>2, <1>3 DEF UIType, Places

LEMMA DialUI ==
  ASSUME CoreInv, UIType, NEW k \in Calls, NEW n \in Numbers, Dial(k, n)
  PROVE  UIType'
<1> DEFINE S == IF SingleMode THEN NotIncoming ELSE {}
<1>1. /\ Takes(k, n, "out", [InvAfter(S) EXCEPT ![k] = "calling"])
      /\ tab' = [TabAfter(S) EXCEPT ![n] = Alloc]
      /\ KillTimers(TabsOf(S) # {})
      /\ UNCHANGED <<timer, dialogs, ring, aaPlay>>
  BY DEF Dial
<1> HIDE DEF S
<1>2. role' \in [Calls -> {"in", "out"}] /\ number' \in [Calls -> Numbers] /\ Alloc \in Slots
  BY <1>1, TakesUI
<1>3. {aaTimer', fwdTimer'} \subseteq Places
  BY <1>1, KillType DEF UIType, Places
<1>4. TabAfter(S) \in [Numbers -> Slots \union {NoSlot, NoTab}]
  BY TabType
<1>5. tab' \in [Numbers -> Slots \union {NoSlot, NoTab}]
  BY <1>1, <1>2, <1>4
<1> QED BY <1>1, <1>2, <1>3, <1>5 DEF UIType, Places

LEMMA HandleMessageUI ==
  ASSUME CoreInv, UIType, HandleMessage
  PROVE  UIType'
<1>1. queue # <<>>
  BY DEF HandleMessage
<1>2. Head1.slot \in Slots
  BY <1>1, HeadIs
<1>3. CASE HandleIncoming
  <2>1. /\ UNCHANGED <<role, number, timer, tab, dialogs, aaTimer, fwdTimer>>
    BY <1>3 DEF HandleIncoming, Refuse, End, pjsua, users
  <2>2. aaPlay' \in {aaPlay, Head1.slot}
    BY <1>3 DEF HandleIncoming
  <2>3. ring' \in {ring, TRUE, FALSE}
    BY <1>3 DEF HandleIncoming
  <2> QED BY <1>2, <2>1, <2>2, <2>3 DEF UIType
<1>4. CASE HandleCreate
  <2>1. dialogs' \in {dialogs, Append(dialogs, Head1.slot)}
    BY <1>4 DEF HandleCreate
  <2>2. dialogs' \in Seq(Slots)
    BY <1>2, <2>1, AppendProperties DEF UIType
  <2>3. ring' \in BOOLEAN
    BY <1>4, Zenon DEF HandleCreate
  <2> QED BY <1>4, <2>2, <2>3 DEF HandleCreate, UIType, pjsua, users, timers
<1>5. CASE HandleAnswer
  <2>1. CASE OnCallAnswer(Head1.slot, Rest)
    BY <2>1, OnCallAnswerUI
  <2>2. CASE Refuse(Head1.slot, Rest) /\ UNCHANGED <<tab, dialogs, ring, timers>>
    BY <2>2 DEF Refuse, End, UIType, timers
  <2> QED BY <1>5, <2>1, <2>2 DEF HandleAnswer
<1>6. CASE HandleState
  <2>1. dialogs' \in Seq(Slots) /\ ring' \in BOOLEAN
    <3>1. DropDialog(Head1.slot, FALSE) \/ UNCHANGED <<dialogs, ring>>
      BY <1>6 DEF HandleState
    <3> QED BY <3>1, DropType DEF UIType
  <2>2. {aaTimer', fwdTimer'} \subseteq Places
    BY <1>6, KillType DEF HandleState, UIType, Places
  <2>3. tab' \in [Numbers -> Slots \union {NoSlot, NoTab}]
    BY <1>2, <1>6 DEF HandleState, UIType
  <2> QED BY <1>6, <2>1, <2>2, <2>3 DEF HandleState, UIType, Places, pjsua, users
<1>7. CASE HandleEnded
  <2>1. dialogs' \in Seq(Slots) /\ ring' \in BOOLEAN
    <3>1. \/ DropDialog(Head1.slot, Head1.type = "ended")
          \/ UNCHANGED <<dialogs, ring>>
      BY <1>7 DEF HandleEnded
    <3> QED BY <3>1, DropType DEF UIType
  <2>2. {aaTimer', fwdTimer'} \subseteq Places
    BY <1>7, KillType DEF HandleEnded, UIType, Places
  <2>3. tab' \in [Numbers -> Slots \union {NoSlot, NoTab}]
    BY <1>7 DEF HandleEnded, UIType
  <2>4. timer' \in [Calls -> BOOLEAN]
    BY <1>7 DEF HandleEnded, UIType
  <2>5. UNCHANGED <<role, number, aaPlay>>
    BY <1>7 DEF HandleEnded, pjsua
  <2> QED BY <2>1, <2>2, <2>3, <2>4, <2>5 DEF UIType, Places
<1> QED BY <1>3, <1>4, <1>5, <1>6, <1>7 DEF HandleMessage

-----------------------------------------------------------------------------
(* The theorems *)

IInv == CoreInv /\ UIType

LEMMA InitIInv == ASSUME Init PROVE IInv
<1>1. CoreType
  BY NSlotsAssumption DEF Init, CoreType, Slots
<1>2. Active = {} /\ Enum = {}
  BY DEF Init, Active, Enum, Talks
<1>3. SlotsApart
  BY <1>2 DEF SlotsApart
<1>4. Mirror
  BY <1>2 DEF Init, Mirror
<1>5. QueueInv(queue, data, hidden)
  <2>1. queue \in Seq(Message) /\ Len(queue) = 0
    BY EmptySeq DEF Init
  <2>2. \A k \in Calls : data[k] = "none"
    BY DEF Init
  <2> QED BY <2>1, <2>2 DEF QueueInv, Carried, FinalIsLast, FinalComes, HiddenUntold
<1>6. UIType
  <2>1. (CHOOSE n \in Numbers : TRUE) \in Numbers
    BY NumbersAssumption
  <2>2. dialogs \in Seq(Slots)
    BY DEF Init
  <2> QED BY <2>1, <2>2 DEF Init, UIType
<1> QED BY <1>1, <1>3, <1>4, <1>5, <1>6 DEF IInv, CoreInv

LEMMA StepIInv == ASSUME IInv, [Next]_vars PROVE IInv' /\ Moves
<1> USE DEF IInv
<1>1. CASE Worker
  <2>1. PICK k \in Calls : \/ \E n \in Numbers : Incoming(k, n)
                           \/ Confirm(k) \/ RemoteEnd(k) \/ Lost(k) \/ MediaState(k)
                           \/ TimeOut(k) \/ ByeDone(k)
    BY <1>1 DEF Worker
  <2>2. CASE \E n \in Numbers : Incoming(k, n)
    BY <2>2, IncomingCore, IncomingUI
  <2>3. CASE Confirm(k)
    <3>1. UIType'
      BY <2>3, SettingsAssumption DEF Confirm, UIType, timers
    <3> QED BY <2>3, <3>1, ConfirmCore
  <2>4. CASE RemoteEnd(k)
    <3>1. UIType'
      BY <2>4 DEF RemoteEnd, End, UIType, timers
    <3> QED BY <2>4, <3>1, RemoteEndCore
  <2>5. CASE TimeOut(k)
    <3>1. UIType'
      BY <2>5 DEF TimeOut, UIType, timers
    <3> QED BY <2>5, <3>1, TimeOutCore
  <2>6. CASE ByeDone(k)
    <3>1. UIType'
      BY <2>6 DEF ByeDone, UIType, timers, users
    <3> QED BY <2>6, <3>1, ByeDoneCore
  <2>7. CASE Lost(k)
    <3>1. UIType'
      BY <2>7 DEF Lost, UIType, timers
    <3> QED BY <2>7, <3>1, LostCore
  <2>8. CASE MediaState(k)
    <3>1. UIType'
      BY <2>8 DEF MediaState, UIType, pjsua, timers, users
    <3> QED BY <2>8, <3>1, MediaStateCore
  <2> QED BY <2>1, <2>2, <2>3, <2>4, <2>5, <2>6, <2>7, <2>8
<1>2. CASE HandleMessage
  BY <1>2, HandleMessageCore, HandleMessageUI
<1>3. QueueInv(queue, data, hidden)
  BY DEF CoreInv
<1>4. CASE AutoAnswerTimer
  <2>1. aaTimer \in Slots
    BY <1>4 DEF AutoAnswerTimer, UIType
  <2>2. QueueInv(queue', data, hidden)
    BY <1>3, <1>4, <2>1, AutoAnswerPosts DEF AutoAnswerTimer
  <2>3. CoreInv' /\ Moves
    BY <1>4, <2>2, Stays DEF AutoAnswerTimer, pjsua, users
  <2>4. UIType'
    BY <1>4 DEF AutoAnswerTimer, UIType, pjsua, users
  <2> QED BY <2>3, <2>4
<1>5. CASE ForwardTimer
  <2>1. CoreInv' /\ Moves
    BY <1>3, <1>5, RefuseCore DEF ForwardTimer
  <2>2. UIType'
    BY <1>5 DEF ForwardTimer, Refuse, End, UIType
  <2> QED BY <2>1, <2>2
<1>6. CASE SoundDone
  <2>1. QueueInv(queue', data, hidden)
    <3>1. aaPlay # NoSlot => aaPlay \in Slots
      BY DEF UIType
    <3> QED BY <1>3, <1>6, <3>1, AutoAnswerPosts DEF SoundDone
  <2>2. CoreInv' /\ Moves
    BY <1>6, <2>1, Stays DEF SoundDone, pjsua, users
  <2>3. UIType'
    BY <1>6 DEF SoundDone, UIType, pjsua, users
  <2> QED BY <2>2, <2>3
<1>7. CASE User
  <2>1. CASE AnswerCommand
    <3>1. \E s \in Slots : queue' = Append(queue, Msg("answer", s, NoCall))
      <4>1. CASE \E k \in Active : queue' = Append(queue, Msg("answer", slot[k], NoCall))
        BY <4>1 DEF CoreInv, SlotsApart, Enum
      <4>2. CASE dialogs # <<>> /\ queue' = Append(queue, Msg("answer", dialogs[1], NoCall))
        <5>1. dialogs[1] \in Slots
          <6>1. Len(dialogs) \in Nat /\ Len(dialogs) # 0
            BY <4>2, EmptySeq, LenProperties DEF UIType
          <6> QED BY <6>1, ElementOfSeq DEF UIType
        <5> QED BY <4>2, <5>1
      <4> QED BY <2>1, <4>1, <4>2 DEF AnswerCommand
    <3>2. QueueInv(queue', data, hidden)
      BY <1>3, <3>1, NoCallPosted DEF Types
    <3>3. CoreInv' /\ Moves
      BY <2>1, <3>2, Stays DEF AnswerCommand, pjsua, users
    <3>4. UIType'
      BY <2>1 DEF AnswerCommand, UIType, pjsua, users, timers
    <3> QED BY <3>3, <3>4
  <2>2. CASE HangupAll
    BY <2>2, HangupFastCore, HangupFastUI DEF HangupAll
  <2>3. ASSUME NEW s \in Slots, Answer(s) PROVE IInv' /\ Moves
    BY <1>3, <2>3, OnCallAnswerCore, OnCallAnswerUI DEF Answer
  <2>4. ASSUME NEW s \in Slots, CloseDialog(s) PROVE IInv' /\ Moves
    <3>1. CoreInv' /\ Moves
      BY <1>3, <2>4, Stays DEF CloseDialog, pjsua, users
    <3>2. UIType'
      BY <2>4, CloseType DEF CloseDialog, UIType, pjsua, users, timers
    <3> QED BY <3>1, <3>2
  <2>5. ASSUME NEW s \in Slots, Decline(s) PROVE IInv' /\ Moves
    <3>1. CoreInv' /\ Moves
      <4>1. At(s) \intersect Active \in SUBSET Active
        OBVIOUS
      <4> QED BY <1>3, <2>5, <4>1, EndCore DEF Decline, End
    <3>2. UIType'
      BY <2>5, CloseType DEF Decline, End, UIType, timers
    <3> QED BY <3>1, <3>2
  <2>6. ASSUME NEW n \in Numbers, Hangup(n) PROVE IInv' /\ Moves
    BY <2>6, HangupFastCore, HangupFastUI DEF Hangup
  <2>7. ASSUME NEW n \in Numbers, CloseTab(n) PROVE IInv' /\ Moves
    <3>1. CoreInv' /\ Moves
      BY <1>3, <2>7, Stays DEF CloseTab, pjsua, users
    <3>2. UIType'
      BY <2>7 DEF CloseTab, UIType, pjsua, users, timers
    <3> QED BY <3>1, <3>2
  <2>8. ASSUME NEW n \in Numbers, NEW k \in Calls, Dial(k, n) PROVE IInv' /\ Moves
    BY <2>8, DialCore, DialUI
  <2> QED BY <1>7, <2>1, <2>2, <2>3, <2>4, <2>5, <2>6, <2>7, <2>8 DEF User
<1>8. CASE UNCHANGED vars
  <2>1. CoreInv' /\ Moves
    BY <1>3, <1>8, Stays DEF vars, pjsua, users
  <2>2. UIType'
    BY <1>8 DEF vars, pjsua, users, timers, UIType
  <2> QED BY <2>1, <2>2
<1> QED BY <1>1, <1>2, <1>4, <1>5, <1>6, <1>7, <1>8 DEF Next

LEMMA Invariance == Spec => []IInv
<1>1. Init => IInv
  BY InitIInv
<1>2. IInv /\ [Next]_vars => IInv'
  BY StepIInv
<1> QED BY <1>1, <1>2, PTL DEF Spec

\* Type correctness of the calls, the user data, the messages and the windows,
\* whatever the number of calls, slots and far ends.
THEOREM CallTypes == Spec => []TypeOK
<1>1. IInv => TypeOK
  BY TypeIs DEF IInv, CoreInv, QueueInv
<1> QED BY <1>1, Invariance, PTL

\* No message on its way to the main window points to user data that on_call_state
\* or onCallState have deleted; the slot has the data exactly while the call goes on,
\* and those that left it wait for one last message, behind all the others of the
\* call.  A call that ended with a 481 has none: its data are neither.
THEOREM PointersStayLive == Spec => []PointersLive
<1>1. ASSUME IInv PROVE PointersLive
  <2>1. /\ queue \in Seq(Message) /\ DOMAIN queue = 1..Len(queue)
        /\ QueueInv(queue, data, hidden)
    BY <1>1, LenProperties DEF IInv, CoreInv, QueueInv
  <2>2. \A i \in DOMAIN queue : queue[i].call # NoCall =>
          data[queue[i].call] \in {"attached", "detached", "leaked"}
    BY <2>1 DEF QueueInv, Carried
  <2>3. ASSUME NEW k \in Calls
        PROVE  /\ data[k] = "attached" <=> k \in Active
               /\ data[k] = "detached" <=> Cardinality(Final(k)) = 1
               /\ \A i \in Final(k) : \A j \in DOMAIN queue : queue[j].call = k => j <= i
    <3>1. \A i : i \in Final(k) <=> /\ i \in 1..Len(queue)
                                    /\ queue[i].call = k /\ IsFinal(queue[i])
      BY <2>1 DEF Final, IsFinal
    <3>2. \A i \in Final(k) : \A j \in DOMAIN queue : queue[j].call = k => j <= i
      BY <2>1, <3>1 DEF QueueInv, FinalIsLast
    <3>3. ASSUME data[k] = "detached" PROVE Cardinality(Final(k)) = 1
      <4>1. PICK i \in Final(k) : TRUE
        BY <2>1, <3>1, <3>3 DEF QueueInv, FinalComes
      <4>2. \A j \in Final(k) : j = i
        <5> SUFFICES ASSUME NEW j \in Final(k) PROVE j = i
          OBVIOUS
        <5>1. i \in 1..Len(queue) /\ j \in 1..Len(queue) /\ queue[i].call = k /\ queue[j].call = k
          BY <3>1
        <5>2. i <= j /\ j <= i
          BY <2>1, <3>2, <5>1
        <5> QED BY <5>1, <5>2
      <4>3. Final(k) = {i}
        BY <4>2
      <4> QED BY <4>3, FS_Singleton
    <3>4. ASSUME Cardinality(Final(k)) = 1 PROVE data[k] = "detached"
      <4>1. Final(k) # {}
        BY <3>4, FS_EmptySet
      <4> QED BY <2>1, <3>1, <4>1 DEF QueueInv, FinalIsLast
    <3>5. data[k] = "attached" <=> k \in Active
      BY <1>1 DEF IInv, CoreInv, Mirror
    <3> QED BY <3>2, <3>3, <3>4, <3>5
  <2> QED BY <2>2, <2>3 DEF PointersLive
<1> QED BY <1>1, Invariance, PTL

-----------------------------------------------------------------------------
(* CallControl implements CallOwnership. *)

StageOf(k) == CASE inv[k] = "none" -> "none"
                [] k \in Active -> "going"
                [] inv[k] \in {"hanging", "over"} -> "ended"
                [] inv[k] = "lost" -> "lost"

OwnerOf(k) == CASE data[k] = "none" -> "nobody"
                [] data[k] = "attached" -> "pjsua"
                [] data[k] = "detached" -> "window"
                [] data[k] = "deleted" -> "gone"
                [] data[k] = "leaked" -> "lost"

Referred(k) == \E i \in DOMAIN queue : queue[i].call = k

\* The stage and the owner of a call follow from its user data, and messages point
\* to data that wait for the last of them, and to none that are not there.
DataTells(k) ==
  /\ data[k] \in {"none", "attached", "detached", "deleted", "leaked"}
  /\ data[k] = "none" => StageOf(k) = "none" /\ OwnerOf(k) = "nobody" /\ ~Referred(k)
  /\ data[k] = "attached" => StageOf(k) = "going" /\ OwnerOf(k) = "pjsua"
  /\ data[k] = "detached" => StageOf(k) = "ended" /\ OwnerOf(k) = "window" /\ Referred(k)
  /\ data[k] = "deleted" => StageOf(k) = "ended" /\ OwnerOf(k) = "gone" /\ ~Referred(k)
  /\ data[k] = "leaked" => StageOf(k) = "lost" /\ OwnerOf(k) = "lost"
  /\ data[k] = "attached" /\ hidden[k] => ~Referred(k)

AllTell == \A k \in Calls : DataTells(k)

LEMMA DataTell == IInv => AllTell
<1> SUFFICES ASSUME IInv, NEW k \in Calls PROVE DataTells(k)
  BY DEF AllTell
<1>1. /\ data[k] \in {"none", "attached", "detached", "deleted", "leaked"}
      /\ data[k] = "attached" <=> k \in Active
      /\ data[k] = "none" <=> inv[k] = "none"
      /\ data[k] = "leaked" <=> inv[k] = "lost"
      /\ inv[k] \in States
      /\ queue \in Seq(Message) /\ QueueInv(queue, data, hidden)
  BY DEF IInv, CoreInv, CoreType, Mirror, QueueInv, States
<1>2. DOMAIN queue = 1..Len(queue) /\ k # NoCall
  BY <1>1, LenProperties, CallsFinite
<1>3. Referred(k) => data[k] \in {"attached", "detached", "leaked"}
  BY <1>1, <1>2 DEF Referred, QueueInv, Carried
<1>4. data[k] = "detached" => Referred(k)
  BY <1>1, <1>2 DEF Referred, QueueInv, FinalComes
<1>5. data[k] = "attached" /\ hidden[k] => ~Referred(k)
  BY <1>1, <1>2 DEF Referred, QueueInv, HiddenUntold
<1>6. k \in Active <=> inv[k] \in Going
  BY ActiveIs
<1>7. /\ data[k] = "none" => StageOf(k) = "none"
      /\ data[k] = "attached" => StageOf(k) = "going"
      /\ data[k] \in {"detached", "deleted"} => StageOf(k) = "ended"
      /\ data[k] = "leaked" => StageOf(k) = "lost"
  <2>1. CASE inv[k] = "none"
    BY <1>1, <1>6, <2>1 DEF StageOf, Going
  <2>2. CASE inv[k] \in Going
    BY <1>1, <1>6, <2>2 DEF StageOf, Going
  <2>3. CASE inv[k] \in {"hanging", "over"}
    BY <1>1, <1>6, <2>3 DEF StageOf, Going
  <2>4. CASE inv[k] = "lost"
    BY <1>1, <1>6, <2>4 DEF StageOf, Going
  <2> QED BY <1>1, <2>1, <2>2, <2>3, <2>4 DEF States, Going
<1>8. /\ data[k] = "none" => OwnerOf(k) = "nobody"
      /\ data[k] = "attached" => OwnerOf(k) = "pjsua"
      /\ data[k] = "detached" => OwnerOf(k) = "window"
      /\ data[k] = "deleted" => OwnerOf(k) = "gone"
      /\ data[k] = "leaked" => OwnerOf(k) = "lost"
  BY DEF OwnerOf
<1> QED BY <1>1, <1>3, <1>4, <1>5, <1>7, <1>8 DEF DataTells

LEMMA DataTellNext == IInv' => AllTell'
BY DataTell, PTL

\* A step does to the user data of every call what CallOwnership lets happen.
LEMMA StepRefines ==
  ASSUME IInv, IInv', Moves
  PROVE  Ownership!Next
<1> SUFFICES ASSUME NEW k \in Calls
             PROVE  \/ Ownership!Begin(k) \/ Ownership!Go(k) \/ Ownership!End(k)
                    \/ Ownership!Show(k) \/ Ownership!Release(k) \/ Ownership!Rest(k)
                    \/ Ownership!Lose(k) \/ Ownership!Fade(k)
  BY DEF Ownership!Next
<1>1. DataTells(k) /\ DataTells(k)'
  BY DataTell, DataTellNext DEF AllTell
<1>2. CASE data[k] = "none" /\ data'[k] \in {"attached", "detached"}
  <2>1. Ownership!Begin(k)
    BY <1>1, <1>2 DEF Ownership!Begin, Ownership!Becomes, DataTells, StageOf, OwnerOf, Referred
  <2> QED BY <2>1
<1>3. CASE data[k] = "attached" /\ data'[k] = "attached"
  <2>1. Ownership!Go(k)
    BY <1>1, <1>3 DEF Ownership!Go, Ownership!Becomes, DataTells, StageOf, OwnerOf, Referred
  <2> QED BY <2>1
<1>4. CASE \/ data[k] = "attached" /\ data'[k] = "detached"
           \/ data[k] = "attached" /\ data'[k] = "deleted" /\ hidden[k]
  <2>1. Ownership!End(k)
    BY <1>1, <1>4 DEF Ownership!End, Ownership!Becomes, DataTells, StageOf, OwnerOf, Referred
  <2> QED BY <2>1
<1>5. CASE data[k] = "detached" /\ data'[k] = "detached"
  <2>1. Ownership!Show(k)
    BY <1>1, <1>5 DEF Ownership!Show, Ownership!Becomes, DataTells, StageOf, OwnerOf, Referred
  <2> QED BY <2>1
<1>6. CASE data[k] = "detached" /\ data'[k] = "deleted"
  <2>1. Ownership!Release(k)
    BY <1>1, <1>6 DEF Ownership!Release, Ownership!Becomes, DataTells, StageOf, OwnerOf, Referred
  <2> QED BY <2>1
<1>7. CASE data[k] \in {"none", "deleted"} /\ data'[k] = data[k]
  <2>1. Ownership!Rest(k)
    BY <1>1, <1>7 DEF Ownership!Rest, Ownership!Becomes, DataTells, StageOf, OwnerOf, Referred
  <2> QED BY <2>1
<1>8. CASE data[k] = "attached" /\ data'[k] = "leaked"
  <2>1. Ownership!Lose(k)
    BY <1>1, <1>8 DEF Ownership!Lose, Ownership!Becomes, DataTells, StageOf, OwnerOf, Referred
  <2> QED BY <2>1
<1>9. CASE data[k] = "leaked" /\ data'[k] = "leaked"
  <2>1. Ownership!Fade(k)
    BY <1>1, <1>9 DEF Ownership!Fade, Ownership!Becomes, DataTells, StageOf, OwnerOf, Referred
  <2> QED BY <2>1
<1>10. data[k] \in {"none", "attached", "detached", "deleted", "leaked"}
  BY <1>1 DEF DataTells
<1> QED BY <1>2, <1>3, <1>4, <1>5, <1>6, <1>7, <1>8, <1>9, <1>10 DEF Moves

\* The user data of every call have one owner at a time, handed over as
\* CallOwnership says, and are deleted once, whatever callbacks, messages, timers
\* and clicks come in whatever order.
THEOREM OwnershipHolds == Spec => OwnershipKept
<1>1. Init => Ownership!Init
  <2> SUFFICES ASSUME Init PROVE Ownership!Init
    OBVIOUS
  <2>1. \A k \in Calls : inv[k] = "none" /\ data[k] = "none"
    BY DEF Init
  <2>2. \A k \in Calls : ~\E i \in DOMAIN queue : queue[i].call = k
    BY DEF Init
  <2>3. \A k \in Calls : k \notin Active
    BY <2>1, ActiveIs DEF Going
  <2> QED BY <2>1, <2>2, <2>3 DEF Ownership!Init, StageOf
<1>2. IInv /\ IInv' /\ [Next]_vars => Ownership!Next
  BY StepIInv, StepRefines
<1> QED BY <1>1, <1>2, Invariance, PTL DEF Spec, OwnershipKept, Ownership!Spec
=============================================================================
