------------------------- MODULE RegistrationProofs -------------------------
(***************************************************************************)
(* The buddies of pjsua and the icons of contacts and shortcuts are those  *)
(* of the account in use, for any accounts, entries, numbers and buddies,  *)
(* any number of messages in flight and all settings.                      *)
(*                                                                         *)
(* An answer handled when there is no account any more (stray) is excused, *)
(* until the next Unsubscribe.                                             *)
(***************************************************************************)
EXTENDS Registration, SequenceTheorems, FiniteSetTheorems, TLAPS

-----------------------------------------------------------------------------
(* The invariant *)

Live == isSubscribed /\ running

\* What messages and the second half of a handler may find: an account there is
\* and a subscription, and which of them is over.
Session ==
  /\ account # "none" \/ local => running
  /\ accountId = 0 => account = "none"
  /\ stray => Live
  /\ Live /\ ~stray => account # "none"
  /\ ui.at = "start" => ~running /\ ~isSubscribed
  /\ ui.at = "destroy" => running /\ ~isSubscribed
  /\ ui.at = "leave" => ~isSubscribed \/ accountId = 0

Has(bs, i, u) == bs[i] # NoBuddy /\ bs[i].uri = u

\* A number has one buddy.
Apart(bs) ==
  \A i, j \in Slots : bs[i] # NoBuddy /\ bs[j] # NoBuddy /\ bs[i].uri = bs[j].uri => i = j

Posted(q, i) == \E k \in 1..Len(q) : q[k] = [type |-> "buddy", id |-> i]

\* The icon of an entry with the number u: a status it does not show is posted.
Right(icon, u, watched, bs, q) ==
  /\ watched => \A i \in Slots : Has(bs, i, u) => icon = bs[i].status \/ Posted(q, i)
  /\ ~watched \/ (\A i \in Slots : ~Has(bs, i, u)) => icon = "blank"

\* What the entries' numbers are in full, and those that are watched of some
Called(n, id, acc, loc) == [w \in Watchers |-> Formatted(n[w], id, acc, loc)]
Wanted(W, f, p) == {f[w] : w \in {x \in W : p[x]}}

AllRight(im, f, p, bs, q) == \A w \in Watchers : Right(im[w], f[w], p[w], bs, q)

Present == Called(number, accountId, account, local)

Watch ==
  ~stray => /\ Uris(buddy) \subseteq Wanted(Watchers, Present, presence)
            /\ ~Live => Uris(buddy) = {}
            /\ AllRight(image, Present, presence, buddy, queue)

IInv == TypeOK /\ Session /\ Apart(buddy) /\ Watch

\* None is missing, if pjsua has a buddy for every entry.
Complete == ~stray /\ Live => Wanted(Watchers, Present, presence) \subseteq Uris(buddy)

-----------------------------------------------------------------------------
(* Buddies *)

BuddyList == [Slots -> Buddies \union {NoBuddy}]
Icons     == [Watchers -> Statuses \union {"blank"}]

LEMMA BuddyIs ==
  ASSUME NEW bs \in BuddyList, NEW i \in Slots, bs[i] # NoBuddy
  PROVE  bs[i] \in Buddies /\ bs[i].uri \in Uri /\ bs[i].status \in Statuses \union {"blank"}
BY DEF BuddyList, Buddies

LEMMA HasUri ==
  ASSUME NEW bs, NEW u
  PROVE  u \in Uris(bs) <=> \E i \in Slots : Has(bs, i, u)
BY DEF Uris, Has

LEMMA NewIs ==
  ASSUME NEW u \in Uri
  PROVE  /\ NewBuddy(u) \in Buddies /\ NewBuddy(u) # NoBuddy
         /\ NewBuddy(u).uri = u /\ NewBuddy(u).status = "blank"
BY NoBuddyAssumption DEF NewBuddy, Buddies

\* Buddies that are added leave the others alone, have a number of their own and
\* no status; none is missing unless there is no slot left (pjsua_buddy_add).
LEMMA AddedIs ==
  ASSUME NEW U \in SUBSET Uri, NEW bs \in BuddyList, Apart(bs), NEW b \in BuddiesAdded(U, bs)
  PROVE  /\ b \in BuddyList /\ Apart(b)
         /\ \A i \in Slots : bs[i] # NoBuddy => b[i] = bs[i]
         /\ \A i \in Slots : bs[i] = NoBuddy /\ b[i] # NoBuddy =>
              b[i].status = "blank" /\ b[i].uri \in U /\ b[i].uri \notin Uris(bs)
         /\ (\A i \in Slots : b[i] # NoBuddy) \/ U \subseteq Uris(b)
<1> DEFINE New == U \ Uris(bs)
           Free == {i \in Slots : bs[i] = NoBuddy}
<1>1. PICK f \in [Free -> New \union {NoBuddy}] :
        /\ b = [i \in Slots |-> IF i \in Free /\ f[i] # NoBuddy THEN NewBuddy(f[i]) ELSE bs[i]]
        /\ \A i, j \in Free : f[i] = f[j] /\ f[i] # NoBuddy => i = j
        /\ \/ \A i \in Free : f[i] # NoBuddy
           \/ \A u \in New : \E i \in Free : f[i] = u
  BY DEF BuddiesAdded
<1>2. \A i \in Slots : bs[i] # NoBuddy => b[i] = bs[i]
  BY <1>1
<1>3. ASSUME NEW i \in Free
      PROVE  /\ f[i] = NoBuddy => b[i] = NoBuddy
             /\ f[i] # NoBuddy => /\ f[i] \in New /\ f[i] \in Uri /\ b[i] \in Buddies /\ b[i] # NoBuddy
                                  /\ b[i].uri = f[i] /\ b[i].status = "blank"
  <2>1. i \in Slots /\ bs[i] = NoBuddy /\ f[i] \in New \union {NoBuddy}
    BY <1>1
  <2>2. f[i] = NoBuddy => b[i] = NoBuddy
    BY <1>1, <2>1
  <2>3. f[i] # NoBuddy => f[i] \in New /\ f[i] \in Uri /\ b[i] = NewBuddy(f[i])
    BY <1>1, <2>1
  <2> QED BY <2>2, <2>3, NewIs
<1>4. b \in BuddyList
  <2>1. \A i \in Slots : b[i] \in Buddies \union {NoBuddy}
    <3> SUFFICES ASSUME NEW i \in Slots PROVE b[i] \in Buddies \union {NoBuddy}
      OBVIOUS
    <3>1. CASE i \in Free
      BY <3>1, <1>3
    <3>2. CASE i \notin Free
      BY <3>2, <1>2, BuddyIs
    <3> QED BY <3>1, <3>2
  <2>2. DOMAIN b = Slots /\ b = [i \in Slots |-> b[i]]
    BY <1>1
  <2> QED BY <2>1, <2>2 DEF BuddyList
<1>5. \A i \in Slots : bs[i] = NoBuddy /\ b[i] # NoBuddy =>
        /\ i \in Free /\ f[i] # NoBuddy /\ b[i].uri = f[i]
        /\ b[i].status = "blank" /\ b[i].uri \in U /\ b[i].uri \notin Uris(bs)
  BY <1>3
<1>6. Apart(b)
  <2> SUFFICES ASSUME NEW i \in Slots, NEW j \in Slots, b[i] # NoBuddy, b[j] # NoBuddy,
                      b[i].uri = b[j].uri
               PROVE  i = j
    BY DEF Apart
  <2>1. CASE bs[i] # NoBuddy /\ bs[j] # NoBuddy
    BY <2>1, <1>2 DEF Apart
  <2>2. CASE bs[i] = NoBuddy /\ bs[j] = NoBuddy
    BY <2>2, <1>5, <1>1
  <2>3. CASE bs[i] # NoBuddy /\ bs[j] = NoBuddy
    <3>1. b[j].uri \notin Uris(bs) /\ b[i].uri = bs[i].uri
      BY <2>3, <1>5, <1>2
    <3> QED BY <3>1, <2>3 DEF Uris
  <2>4. CASE bs[i] = NoBuddy /\ bs[j] # NoBuddy
    <3>1. b[i].uri \notin Uris(bs) /\ b[j].uri = bs[j].uri
      BY <2>4, <1>5, <1>2
    <3> QED BY <3>1, <2>4 DEF Uris
  <2> QED BY <2>1, <2>2, <2>3, <2>4
<1>7. (\A i \in Slots : b[i] # NoBuddy) \/ U \subseteq Uris(b)
  <2>1. CASE \A i \in Free : f[i] # NoBuddy
    <3>1. \A i \in Slots : b[i] # NoBuddy
      BY <2>1, <1>2, <1>3
    <3> QED BY <3>1
  <2>2. CASE \A u \in New : \E i \in Free : f[i] = u
    <3>1. \A u \in New : u # NoBuddy
      BY NoBuddyAssumption
    <3>2. \A u \in New : \E i \in Slots : Has(b, i, u)
      BY <2>2, <3>1, <1>3 DEF Has
    <3>3. \A u \in Uris(bs) : \E i \in Slots : Has(b, i, u)
      BY <1>2, HasUri DEF Has
    <3> QED BY <3>2, <3>3, HasUri
  <2> QED BY <2>1, <2>2, <1>1
<1> QED BY <1>2, <1>4, <1>5, <1>6, <1>7

-----------------------------------------------------------------------------
(* Entries *)

LEMMA FormattedIs ==
  ASSUME NEW n \in [Watchers -> Numbers], NEW id \in Ids, NEW acc, NEW loc
  PROVE  /\ Called(n, id, acc, loc) \in [Watchers -> Uri]
         /\ \A w \in Watchers : Called(n, id, acc, loc)[w] = Formatted(n[w], id, acc, loc)
<1>1. 0 \in Ids
  BY DEF Ids
<1>2. \A w \in Watchers : Formatted(n[w], id, acc, loc) \in Uri
  BY <1>1 DEF Formatted, Uri
<1> QED BY <1>2 DEF Called

\* What Subscribed makes of buddies bs and icons im, for the entries W
Subscribing(W, f, p, bs, im, can, b, i) ==
  /\ IF can THEN b \in BuddiesAdded(Wanted(W, f, p), bs) ELSE b = bs
  /\ i = [w \in Watchers |->
            IF p[w] /\ f[w] \in Wanted(W, f, p) /\ {x \in Slots : bs[x] # NoBuddy /\ bs[x].uri = f[w]} # {}
            THEN bs[Min({x \in Slots : bs[x] # NoBuddy /\ bs[x].uri = f[w]})].status ELSE im[w]]

LEMMA WantedUri ==
  ASSUME NEW W, NEW f \in [Watchers -> Uri], NEW p, W \subseteq Watchers
  PROVE  Wanted(W, f, p) \in SUBSET Uri
BY DEF Wanted

\* The buddy that is found is the one of the number.
LEMMA FoundIs ==
  ASSUME NEW bs \in BuddyList, Apart(bs), NEW u, NEW i \in Slots, Has(bs, i, u)
  PROVE  LET S == {x \in Slots : bs[x] # NoBuddy /\ bs[x].uri = u}
         IN  S # {} /\ bs[Min(S)].status = bs[i].status
<1> DEFINE S == {x \in Slots : bs[x] # NoBuddy /\ bs[x].uri = u}
<1>1. S = {i}
  BY DEF Has, Apart
<1>2. Min({i}) = i
  <2>1. i <= i
    BY DEF Slots
  <2> QED BY <2>1 DEF Min
<1> QED BY <1>1, <1>2

\* The types are kept, and a number has one buddy as before.
LEMMA SubscribingTypes ==
  ASSUME NEW W, W \subseteq Watchers, NEW f \in [Watchers -> Uri], NEW p, NEW bs \in BuddyList, Apart(bs),
         NEW im \in Icons, NEW can, NEW b, NEW i, Subscribing(W, f, p, bs, im, can, b, i)
  PROVE  b \in BuddyList /\ Apart(b) /\ i \in Icons
<1>1. b \in BuddyList /\ Apart(b)
  <2>1. CASE can
    BY <2>1, AddedIs, WantedUri DEF Subscribing
  <2>2. CASE ~can
    BY <2>2 DEF Subscribing
  <2> QED BY <2>1, <2>2
<1>2. \A w \in Watchers : i[w] \in Statuses \union {"blank"}
  <2> SUFFICES ASSUME NEW w \in Watchers PROVE i[w] \in Statuses \union {"blank"}
    OBVIOUS
  <2> DEFINE S == {x \in Slots : bs[x] # NoBuddy /\ bs[x].uri = f[w]}
  <2>1. i[w] = IF p[w] /\ f[w] \in Wanted(W, f, p) /\ S # {} THEN bs[Min(S)].status ELSE im[w]
    BY DEF Subscribing
  <2>2. CASE S = {}
    BY <2>1, <2>2 DEF Icons
  <2>3. CASE S # {}
    <3>1. PICK x \in Slots : Has(bs, x, f[w])
      BY <2>3 DEF Has
    <3>2. bs[Min(S)].status = bs[x].status
      BY <3>1, FoundIs
    <3>3. bs[x].status \in Statuses \union {"blank"}
      BY <3>1, BuddyIs DEF Has
    <3> QED BY <2>1, <3>2, <3>3 DEF Icons
  <2> QED BY <2>2, <2>3
<1>3. i = [w \in Watchers |-> i[w]]
  BY DEF Subscribing
<1> QED BY <1>1, <1>2, <1>3 DEF Icons

\* The icons are right afterwards if they were, but that those of W may be blank.
LEMMA SubscribingRight ==
  ASSUME NEW W, W \subseteq Watchers, NEW f \in [Watchers -> Uri], NEW p \in [Watchers -> BOOLEAN],
         NEW bs \in BuddyList, Apart(bs), NEW q,
         NEW im, NEW can, NEW b, NEW i, Subscribing(W, f, p, bs, im, can, b, i),
         \A w \in Watchers : \/ w \in W /\ p[w] /\ im[w] = "blank"
                             \/ Right(im[w], f[w], p[w], bs, q)
  PROVE  AllRight(i, f, p, b, q)
<1> SUFFICES ASSUME NEW w \in Watchers PROVE Right(i[w], f[w], p[w], b, q)
  BY DEF AllRight
<1> DEFINE S == {x \in Slots : bs[x] # NoBuddy /\ bs[x].uri = f[w]}
<1>1. i[w] = IF p[w] /\ f[w] \in Wanted(W, f, p) /\ S # {} THEN bs[Min(S)].status ELSE im[w]
  BY DEF Subscribing
<1>2. /\ \A x \in Slots : bs[x] # NoBuddy => b[x] = bs[x]
      /\ \A x \in Slots : bs[x] = NoBuddy /\ b[x] # NoBuddy =>
           b[x].status = "blank" /\ b[x].uri \in Wanted(W, f, p) /\ b[x].uri \notin Uris(bs)
      /\ Apart(b)
  <2>1. CASE can
    BY <2>1, AddedIs, WantedUri DEF Subscribing
  <2>2. CASE ~can
    BY <2>2 DEF Subscribing
  <2> QED BY <2>1, <2>2
<1>3. p[w] \in BOOLEAN /\ (w \in W /\ p[w] => f[w] \in Wanted(W, f, p))
  BY DEF Wanted
<1>4. CASE ~p[w]
  <2>1. i[w] = "blank"
    BY <1>1, <1>4 DEF Right
  <2> QED BY <1>4, <2>1 DEF Right
<1>5. CASE p[w] /\ \E x \in Slots : Has(bs, x, f[w])
  <2>1. PICK x \in Slots : Has(bs, x, f[w])
    BY <1>5
  <2>2. S # {} /\ bs[Min(S)].status = bs[x].status
    BY <2>1, FoundIs
  <2>3. Has(b, x, f[w]) /\ b[x].status = bs[x].status
    BY <2>1, <1>2 DEF Has
  <2>4. i[w] = bs[x].status \/ Posted(q, x)
    <3>1. CASE f[w] \in Wanted(W, f, p)
      BY <3>1, <1>1, <1>5, <2>2
    <3>2. CASE f[w] \notin Wanted(W, f, p)
      <4>1. i[w] = im[w] /\ w \notin W
        BY <3>2, <1>1, <1>3, <1>5
      <4> QED BY <4>1, <2>1, <1>5 DEF Right
    <3> QED BY <3>1, <3>2
  <2>5. \A y \in Slots : Has(b, y, f[w]) => y = x
    BY <2>3, <1>2 DEF Has, Apart
  <2> QED BY <1>5, <2>3, <2>4, <2>5 DEF Right
<1>6. CASE p[w] /\ \A x \in Slots : ~Has(bs, x, f[w])
  <2>1. S = {}
    BY <1>6 DEF Has
  <2>2. i[w] = "blank"
    BY <2>1, <1>1, <1>6 DEF Right
  <2>3. \A x \in Slots : Has(b, x, f[w]) => b[x].status = "blank"
    BY <1>2, <1>6 DEF Has
  <2> QED BY <2>2, <2>3 DEF Right
<1> QED BY <1>3, <1>4, <1>5, <1>6

\* Nothing is added but what is wanted.
LEMMA SubscribingAdds ==
  ASSUME NEW W, W \subseteq Watchers, NEW f \in [Watchers -> Uri], NEW p,
         NEW bs \in BuddyList, Apart(bs),
         NEW im, NEW can, NEW b, NEW i, Subscribing(W, f, p, bs, im, can, b, i)
  PROVE  /\ Uris(bs) \subseteq Uris(b)
         /\ Uris(b) \subseteq Uris(bs) \union Wanted(W, f, p)
         /\ can => (\A x \in Slots : b[x] # NoBuddy) \/ Wanted(W, f, p) \subseteq Uris(b)
<1>1. CASE ~can
  BY <1>1 DEF Subscribing
<1>2. CASE can
  <2>1. /\ \A x \in Slots : bs[x] # NoBuddy => b[x] = bs[x]
        /\ \A x \in Slots : bs[x] = NoBuddy /\ b[x] # NoBuddy => b[x].uri \in Wanted(W, f, p)
        /\ (\A x \in Slots : b[x] # NoBuddy) \/ Wanted(W, f, p) \subseteq Uris(b)
    BY <1>2, AddedIs, WantedUri DEF Subscribing
  <2>2. \A u : (\E x \in Slots : Has(bs, x, u)) => \E x \in Slots : Has(b, x, u)
    BY <2>1 DEF Has
  <2>3. \A u : (\E x \in Slots : Has(b, x, u)) =>
                 (\E x \in Slots : Has(bs, x, u)) \/ u \in Wanted(W, f, p)
    BY <2>1 DEF Has
  <2> QED BY <2>1, <2>2, <2>3, HasUri
<1> QED BY <1>1, <1>2

\* Where nobody is watched, all icons are blank; and the other way round.
LEMMA BlankIsRight ==
  ASSUME NEW f, NEW p \in [Watchers -> BOOLEAN], NEW bs, NEW im, NEW q, Uris(bs) = {}
  PROVE  AllRight(im, f, p, bs, q) <=> \A w \in Watchers : im[w] = "blank"
<1>1. \A u : \A x \in Slots : ~Has(bs, x, u)
  BY HasUri
<1> QED BY <1>1 DEF AllRight, Right

LEMMA NoneLeft ==
  ASSUME NEW bs, bs = [i \in Slots |-> NoBuddy]
  PROVE  bs \in BuddyList /\ Apart(bs) /\ Uris(bs) = {}
BY DEF BuddyList, Apart, Uris

\* What is shown stays right while no more is taken from the queue.
LEMMA PostedKeeps ==
  ASSUME NEW im, NEW f, NEW p, NEW bs, NEW q, NEW r,
         \A i \in Slots : Posted(q, i) => Posted(r, i), AllRight(im, f, p, bs, q)
  PROVE  AllRight(im, f, p, bs, r)
BY DEF AllRight, Right

-----------------------------------------------------------------------------
(* Contacts and shortcuts that change *)

LEMMA TypesAre ==
  ASSUME TypeOK
  PROVE  /\ buddy \in BuddyList /\ image \in Icons /\ accountId \in Ids
         /\ number \in [Watchers -> Numbers] /\ presence \in [Watchers -> BOOLEAN]
         /\ Present \in [Watchers -> Uri]
         /\ \A w \in Watchers : Present[w] = Format(w)
BY FormattedIs DEF TypeOK, BuddyList, Icons, Present, Format

\* UnsubscribeNumber leaves the buddies somebody else watches.
LEMMA UnwatchedIs ==
  ASSUME TypeOK, Apart(buddy), NEW U, NEW p \in [Watchers -> BOOLEAN]
  PROVE  LET bs == Unwatched(U, number, p)
         IN  /\ bs \in BuddyList /\ Apart(bs)
             /\ \A i \in Slots : bs[i] # NoBuddy => bs[i] = buddy[i] /\ bs[i].uri \notin U \ Wanted(Watchers, Present, p)
             /\ \A i \in Slots : buddy[i] # NoBuddy /\ buddy[i].uri \notin U \ Wanted(Watchers, Present, p)
                                   => bs[i] = buddy[i]
<1> DEFINE bs == Unwatched(U, number, p)
           Kept == {Formatted(number[w], accountId, account, local) : w \in {x \in Watchers : p[x]}}
<1>1. Kept = Wanted(Watchers, Present, p)
  BY TypesAre DEF Wanted, Format
<1>2. bs = [i \in Slots |-> IF buddy[i] # NoBuddy /\ buddy[i].uri \in U \ Wanted(Watchers, Present, p)
                            THEN NoBuddy ELSE buddy[i]]
  BY <1>1 DEF Unwatched
<1>3. bs \in BuddyList
  BY <1>2, TypesAre DEF BuddyList
<1>4. \A i \in Slots : bs[i] # NoBuddy => bs[i] = buddy[i] /\ bs[i].uri \notin U \ Wanted(Watchers, Present, p)
  BY <1>2
<1>5. \A i \in Slots : buddy[i] # NoBuddy /\ buddy[i].uri \notin U \ Wanted(Watchers, Present, p)
                         => bs[i] = buddy[i]
  BY <1>2
<1>6. Apart(bs)
  BY <1>4 DEF Apart
<1> QED BY <1>3, <1>4, <1>5, <1>6

\* The entries W get other numbers and flags: their old numbers are given up, if
\* nobody else watches them, and then the new ones watched.
LEMMA Rewatched ==
  ASSUME TypeOK, Apart(buddy), Uris(buddy) \subseteq Wanted(Watchers, Present, presence),
         AllRight(image, Present, presence, buddy, queue),
         NEW W, W \subseteq Watchers, NEW num \in [Watchers -> Numbers], NEW new \in [Watchers -> BOOLEAN],
         NEW off \in [Watchers -> BOOLEAN], NEW U,
         \A w \in Watchers \ W : num[w] = number[w] /\ new[w] = presence[w] /\ off[w] = presence[w],
         \A w \in W : ~off[w],
         U = {Format(w) : w \in {x \in W : presence[x]}},
         NEW bs, bs = Unwatched(U, number, off), NEW im, im = Blank(W),
         NEW f, f = Called(num, accountId, account, local),
         NEW can, NEW b, NEW i, Subscribing(W, f, new, bs, im, can, b, i)
  PROVE  /\ AllRight(i, f, new, b, queue)
         /\ Uris(b) \subseteq Wanted(Watchers, f, new)
         /\ /\ Wanted(Watchers, Present, presence) \subseteq Uris(buddy)
            /\ can \/ \A w \in W : ~new[w]
            /\ \E x \in Slots : b[x] = NoBuddy
            => Wanted(Watchers, f, new) \subseteq Uris(b)
<1>1. /\ f \in [Watchers -> Uri]
      /\ \A w \in Watchers : f[w] = Formatted(num[w], accountId, account, local)
  BY FormattedIs, TypesAre
<1>2. \A w \in Watchers \ W : f[w] = Present[w]
  BY <1>1, TypesAre DEF Format
<1>3. /\ bs \in BuddyList /\ Apart(bs)
      /\ \A x \in Slots : bs[x] # NoBuddy => bs[x] = buddy[x] /\ bs[x].uri \notin U \ Wanted(Watchers, Present, off)
      /\ \A x \in Slots : buddy[x] # NoBuddy /\ buddy[x].uri \notin U \ Wanted(Watchers, Present, off)
                            => bs[x] = buddy[x]
  BY UnwatchedIs
<1>4. \A w \in Watchers : im[w] = IF w \in W THEN "blank" ELSE image[w]
  BY DEF Blank
<1>5. \A w \in Watchers \ W : presence[w] => Present[w] \in Wanted(Watchers, Present, off)
  BY DEF Wanted
<1>6. \A w \in Watchers \ W : Right(im[w], f[w], new[w], bs, queue)
  <2> SUFFICES ASSUME NEW w \in Watchers \ W PROVE Right(im[w], f[w], new[w], bs, queue)
    OBVIOUS
  <2>1. Right(image[w], Present[w], presence[w], buddy, queue)
    BY DEF AllRight
  <2>2. im[w] = image[w] /\ f[w] = Present[w] /\ new[w] = presence[w] /\ presence[w] \in BOOLEAN
    BY <1>2, <1>4, TypesAre
  <2>3. presence[w] => \A x \in Slots : Has(buddy, x, Present[w]) <=> Has(bs, x, Present[w])
    BY <1>3, <1>5 DEF Has
  <2>4. \A x \in Slots : Has(bs, x, Present[w]) => bs[x] = buddy[x]
    BY <1>3 DEF Has
  <2> QED BY <2>1, <2>2, <2>3, <2>4 DEF Right
<1>7. \A w \in Watchers : \/ w \in W /\ new[w] /\ im[w] = "blank"
                          \/ Right(im[w], f[w], new[w], bs, queue)
  <2>1. \A w \in W : ~new[w] => Right("blank", f[w], new[w], bs, queue)
    BY DEF Right
  <2> QED BY <2>1, <1>4, <1>6
<1>8. AllRight(i, f, new, b, queue)
  BY <1>1, <1>3, <1>7, SubscribingRight
<1>9. /\ Uris(bs) \subseteq Uris(b)
      /\ Uris(b) \subseteq Uris(bs) \union Wanted(W, f, new)
      /\ can => (\A x \in Slots : b[x] # NoBuddy) \/ Wanted(W, f, new) \subseteq Uris(b)
  <2>1. W \subseteq Watchers /\ Subscribing(W, f, new, bs, im, can, b, i)
    OBVIOUS
  <2> HIDE DEF Subscribing, Uris, Wanted, Apart
  <2> QED BY <1>1, <1>3, <2>1, SubscribingAdds, ZenonT(60)
<1>10. Uris(b) \subseteq Wanted(Watchers, f, new)
  <2>1. Wanted(W, f, new) \subseteq Wanted(Watchers, f, new)
    BY DEF Wanted
  <2>2. ASSUME NEW u \in Uris(bs) PROVE u \in Wanted(Watchers, f, new)
    <3>1. PICK x \in Slots : Has(bs, x, u)
      BY HasUri
    <3>2. u \in Uris(buddy) /\ u \notin U \ Wanted(Watchers, Present, off)
      BY <3>1, <1>3, HasUri DEF Has
    <3>3. PICK w \in Watchers : presence[w] /\ u = Present[w]
      BY <3>2 DEF Wanted
    <3>4. PICK v \in Watchers \ W : presence[v] /\ u = Present[v]
      <4>1. CASE w \in W
        <5>1. u \in U
          BY <3>3, <4>1, TypesAre
        <5>2. u \in Wanted(Watchers, Present, off)
          BY <5>1, <3>2
        <5> QED BY <5>2 DEF Wanted
      <4>2. CASE w \notin W
        BY <4>2, <3>3
      <4> QED BY <4>1, <4>2
    <3> QED BY <3>4, <1>2 DEF Wanted
  <2> QED BY <2>1, <2>2, <1>9
<1>11. ASSUME Wanted(Watchers, Present, presence) \subseteq Uris(buddy),
              can \/ \A w \in W : ~new[w],
              \E x \in Slots : b[x] = NoBuddy,
              NEW w \in Watchers, new[w]
       PROVE  f[w] \in Uris(b)
  <2>1. CASE w \in W
    <3>1. f[w] \in Wanted(W, f, new) /\ can
      BY <1>11, <2>1 DEF Wanted
    <3> QED BY <3>1, <1>9, <1>11
  <2>2. CASE w \notin W
    <3>1. f[w] = Present[w] /\ presence[w]
      BY <2>2, <1>2, <1>11
    <3>2. Present[w] \in Uris(buddy)
      BY <3>1, <1>11 DEF Wanted
    <3>3. PICK x \in Slots : Has(buddy, x, Present[w])
      BY <3>2, HasUri
    <3>4. Has(bs, x, Present[w])
      BY <3>3, <3>1, <2>2, <1>3, <1>5 DEF Has
    <3> QED BY <3>1, <3>4, <1>9, HasUri
  <2> QED BY <2>1, <2>2
<1>12. /\ Wanted(Watchers, Present, presence) \subseteq Uris(buddy)
       /\ can \/ \A w \in W : ~new[w]
       /\ \E x \in Slots : b[x] = NoBuddy
       => Wanted(Watchers, f, new) \subseteq Uris(b)
  <2>1. \A u \in Wanted(Watchers, f, new) : \E w \in Watchers : new[w] /\ u = f[w]
    BY DEF Wanted
  <2> QED BY <2>1, <1>11
<1> QED BY <1>8, <1>10, <1>12

-----------------------------------------------------------------------------
(* Steps *)

Room == \E x \in Slots : buddy[x] = NoBuddy

\* What every step has to show.  Complete needs a slot that is free.
Kept == IInv' /\ (Complete /\ Room' => Complete')

LEMMA SubscribedIs ==
  ASSUME NEW W, W \subseteq Watchers, NEW n \in [Watchers -> Numbers], NEW p, NEW bs, NEW im,
         NEW id \in Ids, NEW acc, NEW loc, Subscribed(W, n, p, bs, im, id, acc, loc)
  PROVE  Subscribing(W, Called(n, id, acc, loc), p, bs, im, SelectSIPAccount(acc, loc), buddy', image')
<1> DEFINE f == Called(n, id, acc, loc)
           F(w) == Formatted(n[w], id, acc, loc)
           A == {F(w) : w \in {x \in W : p[x]}}
           S(w) == {i \in Slots : bs[i] # NoBuddy /\ bs[i].uri = F(w)}
<1>1. \A w \in Watchers : f[w] = F(w)
  BY FormattedIs
<1>2. A = Wanted(W, f, p)
  BY <1>1 DEF Wanted
<1>3. /\ IF SelectSIPAccount(acc, loc) THEN buddy' \in BuddiesAdded(A, bs) ELSE buddy' = bs
      /\ image' = [w \in Watchers |-> IF p[w] /\ F(w) \in A /\ S(w) # {} THEN bs[Min(S(w))].status ELSE im[w]]
  BY DEF Subscribed
<1> HIDE DEF f, F, A
<1>4. image' = [w \in Watchers |->
                  IF p[w] /\ f[w] \in Wanted(W, f, p)
                          /\ {x \in Slots : bs[x] # NoBuddy /\ bs[x].uri = f[w]} # {}
                  THEN bs[Min({x \in Slots : bs[x] # NoBuddy /\ bs[x].uri = f[w]})].status ELSE im[w]]
  BY <1>1, <1>2, <1>3
<1>5. IF SelectSIPAccount(acc, loc) THEN buddy' \in BuddiesAdded(Wanted(W, f, p), bs) ELSE buddy' = bs
  BY <1>2, <1>3
<1> QED BY <1>4, <1>5 DEF Subscribing, f

\* It is remembered when there is no account to watch with.
LEMMA SubscribeStray ==
  ASSUME TypeOK, NEW id \in Ids, NEW acc, NEW loc, NEW run \in BOOLEAN, NEW sub \in BOOLEAN,
         Subscribe(id, acc, loc, run, buddy, sub, image)
  PROVE  /\ stray' \in BOOLEAN
         /\ ~sub /\ acc # "none" => ~stray'
         /\ ~sub /\ ~run => ~stray'
         /\ ~sub /\ run /\ acc = "none" => stray'
BY DEF Subscribe, TypeOK

\* Where nobody is watched and nothing shown, it stays so or all is watched
\* (Subscribe).
LEMMA SubscribeKeeps ==
  ASSUME TypeOK, Apart(buddy), NEW id \in Ids, NEW acc, NEW loc, NEW run \in BOOLEAN, NEW sub \in BOOLEAN,
         Subscribe(id, acc, loc, run, buddy, sub, image)
  PROVE  LET f == Called(number, id, acc, loc)
         IN  /\ buddy' \in BuddyList /\ Apart(buddy') /\ image' \in Icons
             /\ isSubscribed' = TRUE
             /\ sub => stray' = stray
             /\ sub \/ ~run => buddy' = buddy /\ image' = image
             /\ ~sub /\ run /\ Uris(buddy) = {} /\ (\A w \in Watchers : image[w] = "blank") =>
                  /\ \A q : AllRight(image', f, presence, buddy', q)
                  /\ Uris(buddy') \subseteq Wanted(Watchers, f, presence)
                  /\ acc # "none" /\ Room' => Wanted(Watchers, f, presence) \subseteq Uris(buddy')
<1> DEFINE f == Called(number, id, acc, loc)
<1>0. f \in [Watchers -> Uri] /\ buddy \in BuddyList /\ image \in Icons
      /\ presence \in [Watchers -> BOOLEAN] /\ number \in [Watchers -> Numbers]
  BY FormattedIs, TypesAre
<1>1. /\ isSubscribed' = TRUE
      /\ sub => stray' = stray
      /\ sub \/ ~run => buddy' = buddy /\ image' = image
  BY DEF Subscribe, TypeOK
<1>2. CASE sub \/ ~run
  BY <1>0, <1>1, <1>2
<1>3. CASE ~sub /\ run
  <2>1. Subscribed(Watchers, number, presence, buddy, image, id, acc, loc)
    BY <1>3 DEF Subscribe
  <2>2. Subscribing(Watchers, f, presence, buddy, image, SelectSIPAccount(acc, loc), buddy', image')
    BY <2>1, <1>0, SubscribedIs
  <2>3. PICK b, i, im, p, bs : b = buddy' /\ i = image' /\ im = image /\ p = presence /\ bs = buddy
    OBVIOUS
  <2>4. PICK g : g = f
    OBVIOUS
  <2> HIDE DEF f
  <2>5. Subscribing(Watchers, g, p, bs, im, SelectSIPAccount(acc, loc), b, i)
    BY <2>2, <2>3, <2>4
  <2>6. b \in BuddyList /\ Apart(b) /\ i \in Icons
    BY <2>5, <2>3, <2>4, <1>0, SubscribingTypes
  <2>7. /\ Uris(b) \subseteq Uris(bs) \union Wanted(Watchers, g, p)
        /\ SelectSIPAccount(acc, loc) =>
             (\A x \in Slots : b[x] # NoBuddy) \/ Wanted(Watchers, g, p) \subseteq Uris(b)
    BY <2>5, <2>3, <2>4, <1>0, SubscribingAdds
  <2>8. ASSUME Uris(buddy) = {}, \A w \in Watchers : image[w] = "blank", NEW q
        PROVE  AllRight(i, g, p, b, q)
    <3>1. \A w \in Watchers : Right(im[w], g[w], p[w], bs, q)
      BY <2>8, <2>3, <1>0, BlankIsRight DEF AllRight
    <3> QED BY <3>1, <2>5, <2>3, <2>4, <1>0, SubscribingRight
  <2>9. acc # "none" => SelectSIPAccount(acc, loc)
    BY DEF SelectSIPAccount
  <2> QED BY <1>1, <1>3, <2>3, <2>4, <2>6, <2>7, <2>8, <2>9 DEF Room, f
<1> QED BY <1>2, <1>3

\* A step that only takes or adds messages about other things
LEMMA QuietKeeps ==
  ASSUME IInv, UNCHANGED <<running, isSubscribed, stray, buddy, image, number, presence>>, Present' = Present,
         \A i \in Slots : Posted(queue, i) => Posted(queue', i)
  PROVE  Apart(buddy') /\ Watch' /\ (Complete => Complete')
<1>1. Apart(buddy') /\ Uris(buddy') = Uris(buddy) /\ (Live' <=> Live) /\ stray' = stray
  BY DEF IInv, Live
<1>2. Wanted(Watchers, Present', presence') = Wanted(Watchers, Present, presence)
  OBVIOUS
<1>3. AllRight(image, Present, presence, buddy, queue) => AllRight(image', Present', presence', buddy', queue')
  BY PostedKeeps
<1>4. Watch'
  BY <1>1, <1>2, <1>3 DEF IInv, Watch
<1>5. Complete => Complete'
  BY <1>1, <1>2 DEF Complete
<1> QED BY <1>1, <1>4, <1>5

\* The numbers are the same in full while there is an account, whatever its state.
LEMMA SamePresent ==
  ASSUME UNCHANGED <<number, accountId, local>>, account' = "none" <=> account = "none"
  PROVE  Present' = Present
<1>1. ASSUME NEW n PROVE Formatted(n, accountId, account', local) = Formatted(n, accountId, account, local)
  BY DEF Formatted
<1>2. Present' = [w \in Watchers |-> Formatted(number[w], accountId, account', local)]
  BY DEF Present, Called
<1>3. Present = [w \in Watchers |-> Formatted(number[w], accountId, account, local)]
  BY DEF Present, Called
<1> QED BY <1>1, <1>2, <1>3

LEMMA BlankKeeps ==
  ASSUME presence' \in [Watchers -> BOOLEAN], Uris(buddy') = {}, \A w \in Watchers : image'[w] = "blank",
         Live' => stray'
  PROVE  Watch' /\ Complete'
<1>1. AllRight(image', Present', presence', buddy', queue')
  BY BlankIsRight
<1> QED BY <1>1 DEF Watch, Complete

LEMMA NothingShown ==
  ASSUME IInv, ~Live
  PROVE  ~stray /\ Uris(buddy) = {} /\ \A w \in Watchers : image[w] = "blank"
<1>1. ~stray /\ Uris(buddy) = {} /\ AllRight(image, Present, presence, buddy, queue)
  BY DEF IInv, Session, Watch
<1> QED BY <1>1, BlankIsRight, TypesAre DEF IInv

LEMMA AllBlank == Blank(Watchers) \in Icons /\ \A w \in Watchers : Blank(Watchers)[w] = "blank"
BY DEF Blank, Icons

\* Unsubscribe leaves no buddy and no icon.
LEMMA UnsubscribeClears ==
  ASSUME IInv, Unsubscribe
  PROVE  /\ buddy' \in BuddyList /\ Apart(buddy') /\ Uris(buddy') = {}
         /\ image' \in Icons /\ \A w \in Watchers : image'[w] = "blank"
         /\ isSubscribed' = FALSE /\ stray' = FALSE
<1>1. /\ isSubscribed' = FALSE /\ stray' = FALSE
      /\ buddy' = IF Live THEN [i \in Slots |-> NoBuddy] ELSE buddy
      /\ image' = IF isSubscribed THEN Blank(Watchers) ELSE image
  BY DEF Unsubscribe, Live
<1>2. buddy \in BuddyList /\ Apart(buddy) /\ image \in Icons
  BY TypesAre DEF IInv
<1>3. buddy' \in BuddyList /\ Apart(buddy') /\ Uris(buddy') = {}
  <2>1. CASE Live
    BY <1>1, <2>1, NoneLeft
  <2>2. CASE ~Live
    BY <1>1, <1>2, <2>2, NothingShown
  <2> QED BY <2>1, <2>2
<1>4. image' \in Icons /\ \A w \in Watchers : image'[w] = "blank"
  <2>1. CASE isSubscribed
    BY <1>1, <2>1, AllBlank
  <2>2. CASE ~isSubscribed
    BY <1>1, <1>2, <2>2, NothingShown DEF Live
  <2> QED BY <2>1, <2>2
<1> QED BY <1>1, <1>3, <1>4

\* Messages
LEMMA PostIs ==
  ASSUME TypeOK, NEW m \in Message, Post(m)
  PROVE  /\ queue' \in Seq(Message) /\ Len(queue') <= MaxQueue
         /\ \A i : Posted(queue, i) => Posted(queue', i)
         /\ \A i : m = [type |-> "buddy", id |-> i] => Posted(queue', i)
<1>1. queue \in Seq(Message) /\ Len(queue) \in Nat /\ Len(queue) < MaxQueue /\ queue' = Append(queue, m)
  BY LenProperties DEF TypeOK, Post
<1>2. /\ queue' \in Seq(Message) /\ Len(queue') = Len(queue) + 1
      /\ \A k \in 1..Len(queue) : queue'[k] = queue[k]
      /\ queue'[Len(queue) + 1] = m
  BY <1>1, AppendProperties
<1>3. Len(queue') <= MaxQueue
  BY <1>1, <1>2, BoundAssumption
<1>4. \A i : Posted(queue, i) => Posted(queue', i)
  BY <1>1, <1>2 DEF Posted
<1>5. \A i : m = [type |-> "buddy", id |-> i] => Posted(queue', i)
  BY <1>1, <1>2 DEF Posted
<1> QED BY <1>2, <1>3, <1>4, <1>5

LEMMA TakeIs ==
  ASSUME TypeOK, queue # <<>>, queue' = Tail(queue)
  PROVE  /\ Head(queue) \in Message
         /\ queue' \in Seq(Message) /\ Len(queue') <= MaxQueue
         /\ \A i : Posted(queue, i) => Posted(queue', i) \/ Head(queue) = [type |-> "buddy", id |-> i]
<1>1. queue \in Seq(Message) /\ Len(queue) \in Nat /\ Len(queue) <= MaxQueue
  BY LenProperties DEF TypeOK
<1>2. /\ Head(queue) \in Message /\ queue' \in Seq(Message)
      /\ Len(queue') = Len(queue) - 1
      /\ \A k \in 1..Len(queue') : queue'[k] = queue[k + 1]
      /\ Head(queue) = queue[1]
  BY <1>1, HeadTailProperties
<1>3. Len(queue') <= MaxQueue
  BY <1>1, <1>2, BoundAssumption
<1>4. ASSUME NEW i, Posted(queue, i)
      PROVE  Posted(queue', i) \/ Head(queue) = [type |-> "buddy", id |-> i]
  <2>1. PICK k \in 1..Len(queue) : queue[k] = [type |-> "buddy", id |-> i]
    BY <1>4 DEF Posted
  <2>2. CASE k = 1
    BY <2>1, <2>2, <1>2
  <2>3. CASE k # 1
    <3>1. k - 1 \in 1..Len(queue') /\ (k - 1) + 1 = k
      BY <2>1, <2>3, <1>1, <1>2
    <3> QED BY <3>1, <2>1, <1>2 DEF Posted
  <2> QED BY <2>2, <2>3
<1> QED BY <1>2, <1>3, <1>4

-----------------------------------------------------------------------------
(* The actions *)

LEMMA OnRegStateKeeps == ASSUME IInv, OnRegState2 PROVE Kept
<1>1. /\ ui = Idle /\ queue # <<>> /\ Head(queue).type = "reg" /\ queue' = Tail(queue)
      /\ UNCHANGED <<running, account, local, accountId, number, presence, calls, ui>>
      /\ delayed' \in BOOLEAN
  BY DEF OnRegState2, UIIdle, pjsuaVars, listVars, Texted
<1>2. TypeOK /\ Session /\ Apart(buddy)
  BY DEF IInv
<1>3. /\ queue' \in Seq(Message) /\ Len(queue') <= MaxQueue
      /\ \A i \in Slots : Posted(queue, i) => Posted(queue', i)
  BY <1>1, <1>2, TakeIs
<1>4. Present' = Present
  BY <1>1, SamePresent
<1>5. CASE UNCHANGED <<isSubscribed, stray, buddy, image>>
  <2>1. Apart(buddy') /\ Watch' /\ (Complete => Complete')
    BY <1>1, <1>3, <1>4, <1>5, QuietKeeps
  <2>2. TypeOK'
    BY <1>1, <1>2, <1>3, <1>5 DEF TypeOK
  <2>3. Session'
    BY <1>1, <1>2, <1>5 DEF Session, Live
  <2> QED BY <2>1, <2>2, <2>3 DEF IInv, Kept
<1>6. CASE Subscribe(accountId, account, local, running, buddy, isSubscribed, image)
  <2> DEFINE f == Called(number, accountId, account, local)
  <2>0. PICK id, acc, loc, run, sub : /\ id = accountId /\ acc = account /\ loc = local
                                      /\ run = running /\ sub = isSubscribed
    OBVIOUS
  <2>1. /\ buddy' \in BuddyList /\ Apart(buddy') /\ image' \in Icons
        /\ isSubscribed' = TRUE
        /\ isSubscribed => stray' = stray
        /\ stray' \in BOOLEAN /\ (~isSubscribed /\ ~running => ~stray') /\ (~isSubscribed /\ account # "none" => ~stray')
        /\ ~isSubscribed /\ running /\ account = "none" => stray'
        /\ isSubscribed \/ ~running => buddy' = buddy /\ image' = image
        /\ ~isSubscribed /\ running /\ Uris(buddy) = {} /\ (\A w \in Watchers : image[w] = "blank") =>
             /\ AllRight(image', Present, presence, buddy', queue')
             /\ Uris(buddy') \subseteq Wanted(Watchers, Present, presence)
             /\ account # "none" /\ Room' => Wanted(Watchers, Present, presence) \subseteq Uris(buddy')
    <3>1. accountId \in Ids /\ running \in BOOLEAN /\ isSubscribed \in BOOLEAN
      BY <1>2 DEF TypeOK
    <3>2. Subscribe(id, acc, loc, run, buddy, sub, image)
      BY <1>6, <2>0
    <3>3. id \in Ids /\ run \in BOOLEAN /\ sub \in BOOLEAN
      BY <3>1, <2>0
    <3> DEFINE g == Called(number, id, acc, loc)
    <3>5. /\ buddy' \in BuddyList /\ Apart(buddy') /\ image' \in Icons
          /\ isSubscribed' = TRUE
          /\ sub => stray' = stray
      BY <3>2, <3>3, <1>2, SubscribeKeeps
    <3>6. /\ stray' \in BOOLEAN /\ (~sub /\ ~run => ~stray') /\ (~sub /\ acc # "none" => ~stray')
          /\ ~sub /\ run /\ acc = "none" => stray'
      BY <3>2, <3>3, <1>2, SubscribeStray
    <3>7. sub \/ ~run => buddy' = buddy /\ image' = image
      BY <3>2, <3>3, <1>2, SubscribeKeeps
    <3>8. ~sub /\ run /\ Uris(buddy) = {} /\ (\A w \in Watchers : image[w] = "blank") =>
            /\ \A q : AllRight(image', g, presence, buddy', q)
            /\ Uris(buddy') \subseteq Wanted(Watchers, g, presence)
            /\ acc # "none" /\ Room' => Wanted(Watchers, g, presence) \subseteq Uris(buddy')
      BY <3>2, <3>3, <1>2, SubscribeKeeps
    <3>9. g = Present
      BY <2>0 DEF Present
    <3> HIDE DEF g
    <3> QED BY <3>5, <3>6, <3>7, <3>8, <3>9, <2>0
  <2>3. TypeOK'
    BY <2>1, <1>1, <1>2, <1>3 DEF TypeOK, BuddyList, Icons
  <2>4. Session'
    <3>1. stray' => isSubscribed' /\ running'
      BY <2>1, <1>1, <1>2 DEF Session, Live
    <3>2. isSubscribed' /\ running' /\ ~stray' => account' # "none"
      BY <2>1, <1>1, <1>2 DEF Session, Live
    <3>3. ui'.at = "idle"
      BY <1>1 DEF Idle
    <3> QED BY <3>1, <3>2, <3>3, <1>1, <1>2 DEF Session, Live
  <2>5. CASE isSubscribed
    <3>1. UNCHANGED <<running, isSubscribed, stray, buddy, image, number, presence>>
      BY <2>1, <2>5, <1>1, <1>2 DEF TypeOK
    <3>2. Apart(buddy') /\ Watch' /\ (Complete => Complete')
      BY <3>1, <1>3, <1>4, QuietKeeps
    <3> QED BY <3>2, <2>3, <2>4 DEF IInv, Kept
  <2>6. CASE ~isSubscribed
    <3>1. Uris(buddy) = {} /\ \A w \in Watchers : image[w] = "blank"
      BY <2>6, NothingShown DEF Live
    <3>2. CASE ~running
      <4>1. Uris(buddy') = {} /\ (\A w \in Watchers : image'[w] = "blank") /\ ~Live'
        BY <3>1, <3>2, <2>1, <1>1 DEF Live
      <4>2. presence' \in [Watchers -> BOOLEAN]
        BY <2>3 DEF TypeOK
      <4>3. Watch' /\ Complete'
        BY <4>1, <4>2, BlankKeeps
      <4> QED BY <4>3, <2>1, <2>3, <2>4 DEF IInv, Kept
    <3>3. CASE running
      <4>1. /\ AllRight(image', Present', presence', buddy', queue')
            /\ Uris(buddy') \subseteq Wanted(Watchers, Present', presence')
            /\ account # "none" /\ Room' => Wanted(Watchers, Present', presence') \subseteq Uris(buddy')
        BY <3>1, <3>3, <2>1, <2>6, <1>1, <1>4
      <4>2. Live' /\ (~stray' => account # "none")
        BY <2>1, <2>6, <3>3, <1>1 DEF Live
      <4>3. Watch' /\ (Room' => Complete')
        BY <4>1, <4>2 DEF Watch, Complete
      <4> QED BY <4>3, <2>1, <2>3, <2>4 DEF IInv, Kept
    <3> QED BY <3>2, <3>3
  <2> QED BY <2>5, <2>6
<1> QED BY <1>5, <1>6 DEF OnRegState2

LEMMA OnBuddyStateKeeps == ASSUME IInv, OnBuddyState PROVE Kept
<1> DEFINE m == Head(queue)
           b == buddy[m.id]
<1>1. /\ ui = Idle /\ queue # <<>> /\ m.type = "buddy" /\ queue' = Tail(queue)
      /\ UNCHANGED <<running, account, local, accountId, isSubscribed, buddy, number, presence,
                     delayed, calls, ui, stray>>
      /\ image' = IF isSubscribed /\ running /\ b # NoBuddy
                  THEN [w \in Watchers |->
                          IF presence[w] /\ Format(w) = b.uri THEN b.status ELSE image[w]]
                  ELSE image
  BY DEF OnBuddyState, UIIdle, pjsuaVars, listVars
<1>2. TypeOK /\ Session /\ Apart(buddy)
  BY DEF IInv
<1>3. /\ m \in Message
      /\ queue' \in Seq(Message) /\ Len(queue') <= MaxQueue
      /\ \A i : Posted(queue, i) => Posted(queue', i) \/ m = [type |-> "buddy", id |-> i]
  BY <1>1, <1>2, TakeIs
<1>4. m.id \in Slots /\ \A i : m = [type |-> "buddy", id |-> i] => i = m.id
  BY <1>1, <1>3 DEF Message
<1>5. Present' = Present
  BY <1>1, SamePresent
<1>6. /\ buddy \in BuddyList /\ image \in Icons /\ presence \in [Watchers -> BOOLEAN]
      /\ \A w \in Watchers : Present[w] = Format(w)
  BY <1>2, TypesAre
<1>7. image' \in Icons
  <2>1. b # NoBuddy => b.status \in Statuses \union {"blank"}
    BY <1>4, <1>6, BuddyIs
  <2> QED BY <2>1, <1>1, <1>6 DEF Icons
<1>8. TypeOK'
  BY <1>1, <1>2, <1>3, <1>7 DEF TypeOK, Icons
<1>9. Session'
  BY <1>1, <1>2 DEF Session, Live
<1>10. (Live' <=> Live) /\ stray' = stray /\ Uris(buddy') = Uris(buddy) /\ Apart(buddy')
       /\ Wanted(Watchers, Present', presence') = Wanted(Watchers, Present, presence)
  BY <1>1, <1>2, <1>5 DEF Live
<1>11. ASSUME ~stray PROVE AllRight(image', Present, presence, buddy, queue')
  <2>1. AllRight(image, Present, presence, buddy, queue)
    BY <1>11 DEF IInv, Watch
  <2>2. CASE ~Live
    <3>1. Uris(buddy) = {} /\ \A w \in Watchers : image'[w] = "blank"
      BY <2>2, <1>1, NothingShown DEF Live
    <3> QED BY <3>1, <1>6, BlankIsRight
  <2>3. CASE Live
    <3> SUFFICES ASSUME NEW w \in Watchers
                 PROVE  Right(image'[w], Present[w], presence[w], buddy, queue')
      BY DEF AllRight
    <3>1. Right(image[w], Present[w], presence[w], buddy, queue) /\ presence[w] \in BOOLEAN
      BY <2>1, <1>6 DEF AllRight
    <3>2. CASE b # NoBuddy /\ presence[w] /\ Present[w] = b.uri
      <4>1. image'[w] = b.status
        BY <3>2, <2>3, <1>1, <1>6 DEF Live
      <4>2. \A i \in Slots : Has(buddy, i, Present[w]) => i = m.id
        BY <3>2, <1>2, <1>4 DEF Has, Apart
      <4>3. Has(buddy, m.id, Present[w])
        BY <3>2 DEF Has
      <4> QED BY <4>1, <4>2, <4>3, <1>4, <3>2 DEF Right
    <3>3. CASE ~(b # NoBuddy /\ presence[w] /\ Present[w] = b.uri)
      <4>1. image'[w] = image[w]
        BY <3>3, <1>1, <1>6
      <4>2. presence[w] => ~Has(buddy, m.id, Present[w])
        BY <3>3 DEF Has
      <4>3. \A i \in Slots : i # m.id /\ Posted(queue, i) => Posted(queue', i)
        BY <1>3, <1>4
      <4> QED BY <4>1, <4>2, <4>3, <3>1 DEF Right
    <3> QED BY <3>2, <3>3
  <2> QED BY <2>2, <2>3
<1>12. Watch'
  <2>1. ~stray => Uris(buddy) \subseteq Wanted(Watchers, Present, presence) /\ (~Live => Uris(buddy) = {})
    BY DEF IInv, Watch
  <2>2. ~stray' => AllRight(image', Present', presence', buddy', queue')
    BY <1>1, <1>5, <1>11
  <2> QED BY <2>1, <2>2, <1>10 DEF Watch
<1>13. Complete => Complete'
  BY <1>10 DEF Complete
<1> QED BY <1>8, <1>9, <1>10, <1>12, <1>13 DEF IInv, Kept

LEMMA RegAnswerKeeps == ASSUME IInv, RegAnswer PROVE Kept
<1>1. PICK code \in {"ok", "failed"} : account' = code /\ Post([type |-> "reg", code |-> code])
  BY DEF RegAnswer
<1>2. /\ account \in Registering
      /\ UNCHANGED <<running, local, accountId, isSubscribed, buddy, number, presence, image,
                     delayed, calls, ui, stray>>
  BY DEF RegAnswer, listVars
<1>3. TypeOK /\ Session /\ Apart(buddy)
  BY DEF IInv
<1>4. /\ queue' \in Seq(Message) /\ Len(queue') <= MaxQueue
      /\ \A i \in Slots : Posted(queue, i) => Posted(queue', i)
  <2>1. [type |-> "reg", code |-> code] \in Message
    BY DEF Message
  <2> QED BY <2>1, <1>1, <1>3, PostIs
<1>5. account # "none" /\ account' # "none" /\ account' \in Registering
  BY <1>1, <1>2 DEF Registering
<1>6. Present' = Present
  BY <1>2, <1>5, SamePresent
<1>7. Apart(buddy') /\ Watch' /\ (Complete => Complete')
  BY <1>2, <1>4, <1>6, QuietKeeps
<1>8. TypeOK'
  BY <1>2, <1>3, <1>4, <1>5 DEF TypeOK
<1>9. Session'
  BY <1>2, <1>3, <1>5 DEF Session, Live
<1> QED BY <1>7, <1>8, <1>9 DEF IInv, Kept

LEMMA NotifyKeeps == ASSUME IInv, Notify PROVE Kept
<1>1. PICK i \in Slots, s \in Statuses \union {"blank"} :
        /\ buddy[i] # NoBuddy /\ buddy' = [buddy EXCEPT ![i].status = s]
        /\ Post([type |-> "buddy", id |-> i])
  BY DEF Notify
<1>2. UNCHANGED <<running, account, local, accountId, isSubscribed, number, presence, image,
                  delayed, calls, ui, stray>>
  BY DEF Notify, pjsuaVars, listVars
<1>3. TypeOK /\ Session /\ Apart(buddy)
  BY DEF IInv
<1>4. /\ queue' \in Seq(Message) /\ Len(queue') <= MaxQueue
      /\ \A j \in Slots : Posted(queue, j) => Posted(queue', j)
      /\ Posted(queue', i)
  <2>1. [type |-> "buddy", id |-> i] \in Message
    BY DEF Message
  <2> QED BY <2>1, <1>1, <1>3, PostIs
<1>5. /\ buddy' \in BuddyList
      /\ \A j \in Slots : /\ buddy'[j] = NoBuddy <=> buddy[j] = NoBuddy
                          /\ buddy[j] # NoBuddy => buddy'[j].uri = buddy[j].uri
                          /\ j # i => buddy'[j] = buddy[j]
  <2>1. buddy \in BuddyList /\ buddy[i] \in Buddies
    BY <1>1, <1>3, TypesAre, BuddyIs
  <2>2. buddy' = [buddy EXCEPT ![i] = [buddy[i] EXCEPT !.status = s]]
    BY <1>1
  <2>3. PICK r : r = [buddy[i] EXCEPT !.status = s]
    OBVIOUS
  <2>4. r \in Buddies /\ r.uri = buddy[i].uri /\ r # NoBuddy
    <3>1. r \in Buddies /\ r.uri = buddy[i].uri
      BY <2>1, <2>3 DEF Buddies
    <3> QED BY <3>1, NoBuddyAssumption
  <2>5. buddy' = [buddy EXCEPT ![i] = r]
    BY <2>2, <2>3
  <2>6. buddy' \in BuddyList
    BY <2>1, <2>4, <2>5 DEF BuddyList
  <2>7. DOMAIN buddy = Slots
    BY <2>1 DEF BuddyList
  <2> QED BY <1>1, <2>4, <2>5, <2>6, <2>7
<1>6. Present' = Present
  BY <1>2, SamePresent
<1>7. \A u : \A j \in Slots : Has(buddy', j, u) <=> Has(buddy, j, u)
  BY <1>5 DEF Has
<1>8. Uris(buddy') = Uris(buddy)
  BY <1>7, HasUri
<1>9. Apart(buddy')
  BY <1>3, <1>5 DEF Apart
<1>10. ASSUME AllRight(image, Present, presence, buddy, queue)
       PROVE  AllRight(image', Present', presence', buddy', queue')
  <2> SUFFICES ASSUME NEW w \in Watchers
               PROVE  Right(image[w], Present[w], presence[w], buddy', queue')
    BY <1>2, <1>6 DEF AllRight
  <2>1. Right(image[w], Present[w], presence[w], buddy, queue)
    BY <1>10 DEF AllRight
  <2>2. \A j \in Slots : j # i => buddy'[j] = buddy[j]
    BY <1>5
  <2> QED BY <2>1, <2>2, <1>4, <1>7 DEF Right
<1>11. (Live' <=> Live) /\ Wanted(Watchers, Present', presence') = Wanted(Watchers, Present, presence)
  BY <1>2, <1>6 DEF Live
<1>12. Watch'
  BY <1>2, <1>8, <1>10, <1>11 DEF IInv, Watch
<1>13. Complete => Complete'
  BY <1>2, <1>8, <1>11 DEF Complete
<1>14. TypeOK'
  BY <1>2, <1>3, <1>4, <1>5 DEF TypeOK, BuddyList
<1>15. Session'
  BY <1>2, <1>3 DEF Session, Live
<1> QED BY <1>9, <1>12, <1>13, <1>14, <1>15 DEF IInv, Kept

\* Calls, and the number that waits
LEMMA TextKeeps ==
  ASSUME IInv, UNCHANGED <<pjsuaVars, accountId, isSubscribed, buddy, listVars, image, queue, ui, stray>>,
         delayed' \in BOOLEAN, calls' \in BOOLEAN
  PROVE  Kept
<1>1. UNCHANGED <<running, account, local, accountId, isSubscribed, buddy, number, presence, image,
                  queue, ui, stray>>
  BY DEF pjsuaVars, listVars
<1>2. Present' = Present
  BY <1>1, SamePresent
<1>3. Apart(buddy') /\ Watch' /\ (Complete => Complete')
  BY <1>1, <1>2, QuietKeeps
<1>4. TypeOK'
  BY <1>1 DEF IInv, TypeOK
<1>5. Session'
  BY <1>1 DEF IInv, Session, Live
<1> QED BY <1>3, <1>4, <1>5 DEF IInv, Kept

LEMMA EditContactKeeps == ASSUME IInv, EditContact PROVE Kept
<1>1. PICK c \in Contacts, n \in Numbers, p \in BOOLEAN :
        (number[c] # n \/ presence[c] # p) /\ ContactUpdate(c, n, p)
  BY DEF EditContact
<1>2. UNCHANGED <<running, account, local, accountId, isSubscribed, queue, delayed, calls, ui, stray>>
  BY DEF EditContact, pjsuaVars
<1>3. TypeOK /\ Session /\ Apart(buddy)
  BY DEF IInv
<1>4. /\ buddy \in BuddyList /\ image \in Icons /\ accountId \in Ids
      /\ number \in [Watchers -> Numbers] /\ presence \in [Watchers -> BOOLEAN]
  BY <1>3, TypesAre
<1>5. c \in Watchers
  BY DEF Watchers
<1>6. PICK num, off, new : /\ num = [number EXCEPT ![c] = n]
                           /\ off = [presence EXCEPT ![c] = FALSE]
                           /\ new = [presence EXCEPT ![c] = p]
  OBVIOUS
<1> DEFINE leaves == presence[c] /\ (number[c] # n \/ ~p)
<1>7. PICK bs, im : /\ bs = IF Live /\ leaves THEN Unwatched({Format(c)}, number, off) ELSE buddy
                    /\ im = IF leaves THEN Blank({c}) ELSE image
  OBVIOUS
<1>8. /\ number' = num /\ presence' = new
      /\ IF Live /\ p /\ (leaves \/ ~presence[c])
         THEN Subscribed({c}, num, new, bs, im, accountId, account, local)
         ELSE buddy' = bs /\ image' = im
  BY <1>1, <1>6, <1>7 DEF ContactUpdate, Live
<1>9. /\ num \in [Watchers -> Numbers] /\ new \in [Watchers -> BOOLEAN] /\ off \in [Watchers -> BOOLEAN]
      /\ \A w \in Watchers \ {c} : num[w] = number[w] /\ new[w] = presence[w] /\ off[w] = presence[w]
      /\ ~off[c] /\ new[c] = p
  BY <1>4, <1>5, <1>6
<1>10. bs \in BuddyList /\ Apart(bs) /\ im \in Icons
  <2>1. bs \in BuddyList /\ Apart(bs)
    BY <1>3, <1>4, <1>7, <1>9, UnwatchedIs
  <2>2. Blank({c}) \in Icons
    BY <1>4 DEF Blank, Icons
  <2> QED BY <2>1, <2>2, <1>4, <1>7
<1>11. PICK f : f = Called(num, accountId, account, local)
  OBVIOUS
<1>12. f \in [Watchers -> Uri] /\ Present' = f
  BY <1>2, <1>4, <1>8, <1>9, <1>11, FormattedIs DEF Present
<1>13. leaves \/ ~presence[c]
  BY <1>1, <1>4, <1>5
<1>14. PICK b, i : b = buddy' /\ i = image'
  OBVIOUS
<1>15. PICK can : can = (p /\ SelectSIPAccount(account, local))
  OBVIOUS
<1>16. Live => Subscribing({c}, f, new, bs, im, can, b, i)
  <2>1. CASE Live /\ p
    <3>1. PICK id, acc, loc : id = accountId /\ acc = account /\ loc = local
      OBVIOUS
    <3>2. Subscribed({c}, num, new, bs, im, id, acc, loc)
      BY <2>1, <3>1, <1>8, <1>13
    <3>3. Subscribing({c}, Called(num, id, acc, loc), new, bs, im, SelectSIPAccount(acc, loc), buddy', image')
      BY <3>1, <3>2, <1>4, <1>5, <1>9, SubscribedIs
    <3>4. can <=> SelectSIPAccount(acc, loc)
      BY <3>1, <2>1, <1>15
    <3> QED BY <3>1, <3>3, <3>4, <1>11, <1>14 DEF Subscribing
  <2>2. CASE Live /\ ~p
    <3>1. b = bs /\ i = im /\ ~can
      BY <2>2, <1>8, <1>14, <1>15
    <3>2. Wanted({c}, f, new) = {}
      BY <2>2, <1>9 DEF Wanted
    <3>3. im = [w \in Watchers |-> im[w]]
      BY <1>10 DEF Icons
    <3> QED BY <3>1, <3>2, <3>3 DEF Subscribing
  <2> QED BY <2>1, <2>2
<1>17. b \in BuddyList /\ Apart(b) /\ i \in Icons
  <2>1. CASE Live
    <3>1. {c} \subseteq Watchers
      BY <1>5
    <3> QED BY <3>1, <2>1, <1>10, <1>12, <1>16, SubscribingTypes
  <2>2. CASE ~Live
    BY <2>2, <1>8, <1>10, <1>14
  <2> QED BY <2>1, <2>2
<1>18. TypeOK'
  BY <1>2, <1>3, <1>8, <1>9, <1>14, <1>17 DEF TypeOK, BuddyList, Icons
<1>19. Session'
  BY <1>2, <1>3 DEF Session, Live
<1>20. CASE stray
  BY <1>2, <1>14, <1>17, <1>18, <1>19, <1>20 DEF IInv, Kept, Watch, Complete
<1>21. CASE ~stray /\ ~Live
  <2>1. Uris(buddy) = {} /\ \A w \in Watchers : image[w] = "blank"
    BY <1>21, NothingShown
  <2>2. Uris(buddy') = {}
    BY <2>1, <1>21, <1>7, <1>8
  <2>3. \A w \in Watchers : image'[w] = "blank"
    BY <2>1, <1>21, <1>7, <1>8 DEF Blank
  <2>4. ~Live' /\ presence' \in [Watchers -> BOOLEAN]
    BY <1>2, <1>8, <1>9, <1>21 DEF Live
  <2>5. Watch' /\ Complete'
    BY <2>2, <2>3, <2>4, BlankKeeps
  <2> QED BY <2>5, <1>14, <1>17, <1>18, <1>19 DEF IInv, Kept
<1>22. CASE ~stray /\ Live
  <2>1. PICK U : U = {Format(w) : w \in {x \in {c} : presence[x]}}
    OBVIOUS
  <2>2. /\ Uris(buddy) \subseteq Wanted(Watchers, Present, presence)
        /\ AllRight(image, Present, presence, buddy, queue)
    BY <1>22 DEF IInv, Watch
  <2>3. bs = Unwatched(U, number, off) /\ im = Blank({c})
    <3>1. CASE leaves
      <4>1. U = {Format(c)}
        BY <2>1, <3>1
      <4> QED BY <4>1, <3>1, <1>7, <1>22
    <3>2. CASE ~leaves
      <4>1. ~presence[c] /\ U = {}
        BY <2>1, <3>2, <1>13
      <4>2. Unwatched(U, number, off) = [x \in Slots |-> buddy[x]]
        BY <4>1 DEF Unwatched
      <4>3. buddy = [x \in Slots |-> buddy[x]] /\ image = [w \in Watchers |-> image[w]]
        BY <1>4 DEF BuddyList, Icons
      <4>4. image[c] = "blank"
        BY <4>1, <2>2, <1>5 DEF AllRight, Right
      <4>5. Blank({c}) = [w \in Watchers |-> image[w]]
        BY <4>4 DEF Blank
      <4> QED BY <4>2, <4>3, <4>5, <3>2, <1>7
    <3> QED BY <3>1, <3>2
  <2>4. {c} \subseteq Watchers
        /\ (\A w \in Watchers \ {c} : num[w] = number[w] /\ new[w] = presence[w] /\ off[w] = presence[w])
        /\ (\A w \in {c} : ~off[w])
    BY <1>5, <1>9
  <2>5. Subscribing({c}, f, new, bs, im, can, b, i)
    BY <1>16, <1>22
  <2>6. /\ AllRight(i, f, new, b, queue)
        /\ Uris(b) \subseteq Wanted(Watchers, f, new)
        /\ /\ Wanted(Watchers, Present, presence) \subseteq Uris(buddy)
           /\ can \/ \A w \in {c} : ~new[w]
           /\ \E x \in Slots : b[x] = NoBuddy
           => Wanted(Watchers, f, new) \subseteq Uris(b)
    BY <2>1, <2>2, <2>3, <2>4, <2>5, <1>3, <1>9, <1>11, Rewatched
  <2>7. can \/ \A w \in {c} : ~new[w]
    <3>1. account # "none"
      BY <1>3, <1>22 DEF Session
    <3> QED BY <3>1, <1>9, <1>15 DEF SelectSIPAccount
  <2>8. Live' /\ ~stray'
    BY <1>2, <1>22 DEF Live
  <2>9. Watch'
    BY <2>6, <2>8, <1>2, <1>8, <1>12, <1>14 DEF Watch
  <2>10. Complete /\ Room' => Complete'
    BY <2>6, <2>7, <2>8, <1>8, <1>12, <1>14, <1>22 DEF Complete, Room
  <2> QED BY <2>9, <2>10, <1>14, <1>17, <1>18, <1>19 DEF IInv, Kept
<1> QED BY <1>20, <1>21, <1>22

\* ShortcutsDlg's OK: the shortcuts as they are now.
LEMMA EditShortcutsKeeps == ASSUME IInv, EditShortcuts PROVE Kept
<1>1. PICK n, p, num, new, off, gone :
        /\ n \in [Shortcuts -> Numbers] /\ p \in [Shortcuts -> BOOLEAN]
        /\ num = [w \in Watchers |-> IF w \in Shortcuts THEN n[w] ELSE number[w]]
        /\ new = [w \in Watchers |-> IF w \in Shortcuts THEN p[w] ELSE presence[w]]
        /\ off = [w \in Watchers |-> w \in Contacts /\ presence[w]]
        /\ gone = {Format(w) : w \in {x \in Shortcuts : presence[x]}}
        /\ number' = num /\ presence' = new
        /\ IF Live
           THEN Subscribed(Shortcuts, num, new, Unwatched(gone, number, off),
                           Blank(Shortcuts), accountId, account, local)
           ELSE buddy' = buddy /\ image' = Blank(Shortcuts)
  BY DEF EditShortcuts, Live
<1>2. UNCHANGED <<running, account, local, accountId, isSubscribed, queue, delayed, calls, ui, stray>>
  BY DEF EditShortcuts, pjsuaVars
<1>3. TypeOK /\ Session /\ Apart(buddy)
  BY DEF IInv
<1>4. /\ buddy \in BuddyList /\ image \in Icons /\ accountId \in Ids
      /\ number \in [Watchers -> Numbers] /\ presence \in [Watchers -> BOOLEAN]
  BY <1>3, TypesAre
<1>5. Shortcuts \subseteq Watchers
  BY DEF Watchers
<1>6. /\ num \in [Watchers -> Numbers] /\ new \in [Watchers -> BOOLEAN]
      /\ \A w \in Watchers \ Shortcuts : num[w] = number[w] /\ new[w] = presence[w]
  BY <1>1, <1>4
<1>7. /\ off \in [Watchers -> BOOLEAN]
      /\ \A w \in Watchers \ Shortcuts : off[w] = presence[w]
      /\ \A w \in Shortcuts : ~off[w]
  <2>1. \A w \in Watchers : off[w] = (w \in Contacts /\ presence[w])
    BY <1>1
  <2>2. off \in [Watchers -> BOOLEAN]
    BY <1>1
  <2>3. \A w \in Watchers \ Shortcuts : w \in Contacts
    BY DEF Watchers
  <2>4. \A w \in Shortcuts : w \notin Contacts
    BY DisjointAssumption
  <2>5. \A w \in Watchers \ Shortcuts : off[w] = presence[w]
    BY <2>1, <2>3, <1>4
  <2> QED BY <2>1, <2>2, <2>4, <2>5, <1>5
<1>8. PICK bs, im, f, b, i, can :
        /\ bs = Unwatched(gone, number, off) /\ im = Blank(Shortcuts)
        /\ f = Called(num, accountId, account, local)
        /\ b = buddy' /\ i = image' /\ can = SelectSIPAccount(account, local)
  OBVIOUS
<1>9. bs \in BuddyList /\ Apart(bs) /\ im \in Icons
  <2>1. bs \in BuddyList /\ Apart(bs)
    BY <1>3, <1>7, <1>8, UnwatchedIs
  <2>2. im \in Icons
    BY <1>4, <1>8 DEF Blank, Icons
  <2> QED BY <2>1, <2>2
<1>10. f \in [Watchers -> Uri] /\ Present' = f
  BY <1>1, <1>2, <1>4, <1>6, <1>8, FormattedIs DEF Present
<1>11. Live => Subscribing(Shortcuts, f, new, bs, im, can, b, i)
  <2> SUFFICES ASSUME Live PROVE Subscribing(Shortcuts, f, new, bs, im, can, b, i)
    OBVIOUS
  <2>1. PICK id, acc, loc : id = accountId /\ acc = account /\ loc = local
    OBVIOUS
  <2>2. Subscribed(Shortcuts, num, new, bs, im, id, acc, loc)
    BY <2>1, <1>1, <1>8
  <2>3. Subscribing(Shortcuts, Called(num, id, acc, loc), new, bs, im, SelectSIPAccount(acc, loc), buddy', image')
    BY <2>1, <2>2, <1>4, <1>5, <1>6, SubscribedIs
  <2> QED BY <2>1, <2>3, <1>8
<1>12. b \in BuddyList /\ Apart(b) /\ i \in Icons
  <2>1. CASE Live
    BY <2>1, <1>5, <1>9, <1>10, <1>11, SubscribingTypes
  <2>2. CASE ~Live
    BY <2>2, <1>1, <1>3, <1>4, <1>8, <1>9
  <2> QED BY <2>1, <2>2
<1>13. TypeOK'
  BY <1>1, <1>2, <1>3, <1>6, <1>8, <1>12 DEF TypeOK, BuddyList, Icons
<1>14. Session'
  BY <1>2, <1>3 DEF Session, Live
<1>15. CASE stray
  BY <1>2, <1>8, <1>12, <1>13, <1>14, <1>15 DEF IInv, Kept, Watch, Complete
<1>16. CASE ~stray /\ ~Live
  <2>1. Uris(buddy) = {} /\ \A w \in Watchers : image[w] = "blank"
    BY <1>16, NothingShown
  <2>2. Uris(buddy') = {} /\ \A w \in Watchers : image'[w] = "blank"
    BY <2>1, <1>16, <1>1 DEF Blank
  <2>3. ~Live' /\ presence' \in [Watchers -> BOOLEAN]
    BY <1>1, <1>2, <1>6, <1>16 DEF Live
  <2>4. Watch' /\ Complete'
    BY <2>2, <2>3, BlankKeeps
  <2> QED BY <2>4, <1>8, <1>12, <1>13, <1>14 DEF IInv, Kept
<1>17. CASE ~stray /\ Live
  <2>1. /\ Uris(buddy) \subseteq Wanted(Watchers, Present, presence)
        /\ AllRight(image, Present, presence, buddy, queue)
    BY <1>17 DEF IInv, Watch
  <2>2. \A w \in Watchers \ Shortcuts : num[w] = number[w] /\ new[w] = presence[w] /\ off[w] = presence[w]
    BY <1>6, <1>7
  <2>3. Subscribing(Shortcuts, f, new, bs, im, can, b, i)
    BY <1>11, <1>17
  <2>4. /\ AllRight(i, f, new, b, queue)
        /\ Uris(b) \subseteq Wanted(Watchers, f, new)
        /\ /\ Wanted(Watchers, Present, presence) \subseteq Uris(buddy)
           /\ can \/ \A w \in Shortcuts : ~new[w]
           /\ \E x \in Slots : b[x] = NoBuddy
           => Wanted(Watchers, f, new) \subseteq Uris(b)
    <3>1. /\ TypeOK /\ Apart(buddy) /\ Shortcuts \subseteq Watchers
          /\ num \in [Watchers -> Numbers] /\ new \in [Watchers -> BOOLEAN]
          /\ off \in [Watchers -> BOOLEAN] /\ \A w \in Shortcuts : ~off[w]
      BY <1>3, <1>5, <1>6, <1>7
    <3>2. gone = {Format(w) : w \in {x \in Shortcuts : presence[x]}}
      BY <1>1
    <3>3. /\ bs = Unwatched(gone, number, off) /\ im = Blank(Shortcuts)
          /\ f = Called(num, accountId, account, local)
      BY <1>8
    <3> QED BY <2>1, <2>2, <2>3, <3>1, <3>2, <3>3, Rewatched
  <2>5. can
    <3>1. account # "none"
      BY <1>3, <1>17 DEF Session
    <3> QED BY <3>1, <1>8 DEF SelectSIPAccount
  <2>6. Live' /\ ~stray'
    BY <1>2, <1>17 DEF Live
  <2>7. Watch'
    BY <2>4, <2>6, <1>1, <1>2, <1>8, <1>10 DEF Watch
  <2>8. Complete /\ Room' => Complete'
    BY <2>4, <2>5, <2>6, <1>1, <1>8, <1>10, <1>17 DEF Complete, Room
  <2> QED BY <2>7, <2>8, <1>8, <1>12, <1>13, <1>14 DEF IInv, Kept
<1> QED BY <1>15, <1>16, <1>17

\* The account is left: nobody is watched until the second half is done.
LEMMA LeaveKeeps ==
  ASSUME IInv, NEW id \in Ids, NEW deletes \in BOOLEAN, NEW command \in BOOLEAN, NEW dial \in BOOLEAN,
         Leave(id, deletes, command, dial), UIIdle, deletes \/ accountId = 0
  PROVE  Kept
<1>1. /\ ui' = [at |-> "leave", to |-> id, command |-> command, dial |-> dial]
      /\ UNCHANGED <<running, account, local, accountId, number, presence, queue, delayed, calls>>
      /\ IF deletes THEN Unsubscribe ELSE UNCHANGED <<isSubscribed, stray, buddy, image>>
  BY DEF Leave, pjsuaVars, listVars
<1>2. TypeOK /\ Session /\ Apart(buddy)
  BY DEF IInv
<1>3. ui' \in Doing /\ ui'.at = "leave"
  BY <1>1 DEF Doing
<1>4. CASE deletes
  <2>1. /\ buddy' \in BuddyList /\ Apart(buddy') /\ Uris(buddy') = {}
        /\ image' \in Icons /\ \A w \in Watchers : image'[w] = "blank"
        /\ isSubscribed' = FALSE /\ stray' = FALSE
    BY <1>1, <1>4, UnsubscribeClears
  <2>2. TypeOK'
    BY <2>1, <1>1, <1>2, <1>3 DEF TypeOK, BuddyList, Icons
  <2>3. Session'
    BY <2>1, <1>1, <1>2, <1>3 DEF Session, Live
  <2>4. ~Live' /\ presence' \in [Watchers -> BOOLEAN]
    BY <2>1, <2>2 DEF Live, TypeOK
  <2>5. Watch' /\ Complete'
    BY <2>1, <2>4, BlankKeeps
  <2> QED BY <2>1, <2>2, <2>3, <2>5 DEF IInv, Kept
<1>5. CASE ~deletes
  <2>1. UNCHANGED <<running, isSubscribed, stray, buddy, image, number, presence>> /\ queue' = queue
    BY <1>1, <1>5
  <2>2. Present' = Present
    BY <1>1, SamePresent
  <2>3. Apart(buddy') /\ Watch' /\ (Complete => Complete')
    BY <2>1, <2>2, QuietKeeps
  <2>4. TypeOK'
    BY <2>1, <1>1, <1>2, <1>3 DEF TypeOK
  <2>5. Session'
    BY <2>1, <1>1, <1>2, <1>3, <1>5 DEF Session, Live
  <2> QED BY <2>3, <2>4, <2>5 DEF IInv, Kept
<1> QED BY <1>4, <1>5

LEMMA LeavingKeeps ==
  ASSUME IInv, OnMenuAccountChange \/ AccountDialog \/ CommandLine PROVE Kept
<1>0. /\ 0 \in Ids /\ Accounts \subseteq Ids /\ accountId \in Ids /\ delayed \in BOOLEAN
      /\ (accountId # 0) \in BOOLEAN
  BY DEF Ids, IInv, TypeOK
<1>1. CASE OnMenuAccountChange
  <2>1. PICK a, to, deletes :
          a \in Accounts /\ to = (IF accountId = a THEN 0 ELSE a) /\ deletes = (accountId # 0)
          /\ Leave(to, deletes, FALSE, FALSE) /\ UIIdle
    BY <1>1 DEF OnMenuAccountChange
  <2>2. to \in Ids /\ deletes \in BOOLEAN /\ (deletes \/ accountId = 0)
    BY <2>1, <1>0
  <2> QED BY <2>1, <2>2, LeaveKeeps
<1>2. CASE AccountDialog
  <2>1. PICK a \in Ids : Leave(a, TRUE, FALSE, FALSE) /\ UIIdle
    BY <1>2, <1>0 DEF AccountDialog
  <2> QED BY <2>1, LeaveKeeps
<1>3. CASE CommandLine
  <2>1. CASE \E a \in Ids, dial \in BOOLEAN :
               /\ a \in {0, accountId}
               /\ DialOrDelay(dial, accountId, account, local)
               /\ UNCHANGED <<pjsuaVars, accountId, isSubscribed, buddy, listVars, image,
                              queue, calls, ui, stray>>
    <3>1. delayed' \in BOOLEAN /\ calls' \in BOOLEAN
      BY <2>1, <1>0 DEF DialOrDelay, IInv, TypeOK
    <3> QED BY <2>1, <3>1, TextKeeps
  <2>2. CASE UIIdle /\ \E a \in Ids, dial \in BOOLEAN : Leave(a, accountId # 0, TRUE, dial)
    <3>1. PICK a, dial, deletes :
            a \in Ids /\ dial \in BOOLEAN /\ deletes = (accountId # 0) /\ Leave(a, deletes, TRUE, dial) /\ UIIdle
      BY <2>2
    <3>2. deletes \in BOOLEAN /\ (deletes \/ accountId = 0)
      BY <3>1
    <3> QED BY <3>1, <3>2, LeaveKeeps
  <2>3. CASE UIIdle /\ accountId # 0 /\ Leave(accountId, TRUE, TRUE, FALSE)
    <3>1. PICK a \in Ids : a = accountId /\ Leave(a, TRUE, TRUE, FALSE) /\ UIIdle
      BY <2>3, <1>0
    <3> QED BY <3>1, LeaveKeeps
  <2> QED BY <2>1, <2>2, <2>3, <1>3 DEF CommandLine
<1> QED BY <1>1, <1>2, <1>3

\* An account without a server is watched with at once; with another nobody is
\* until the registrar answers.  Who subscribed before there was an account stays so.
LEMMA SubscribeIfIdleKeeps ==
  ASSUME TypeOK, Apart(buddy), NEW id \in Ids, NEW acc, NEW loc, NEW run \in BOOLEAN, NEW sub \in BOOLEAN,
         SubscribeIfIdle(id, acc, loc, run, buddy, sub, image),
         UNCHANGED <<number, presence>>, accountId' = id, account' = acc, local' = loc, running' = run,
         acc = "idle" => run, stray <=> sub /\ run,
         ~stray => Uris(buddy) = {} /\ \A w \in Watchers : image[w] = "blank"
  PROVE  /\ buddy' \in BuddyList /\ Apart(buddy') /\ image' \in Icons
         /\ isSubscribed' \in BOOLEAN /\ stray' \in BOOLEAN
         /\ stray' => Live'
         /\ Live' /\ ~stray' => account' # "none"
         /\ Watch' /\ (Room' => Complete')
<1>0. buddy \in BuddyList /\ image \in Icons /\ presence \in [Watchers -> BOOLEAN] /\ stray \in BOOLEAN
  BY TypesAre DEF TypeOK
<1>1. CASE acc # "idle"
  <2>1. /\ isSubscribed' = sub /\ buddy' = buddy /\ image' = image
        /\ stray' \in BOOLEAN /\ (stray' <=> stray)
    BY <1>0, <1>1 DEF SubscribeIfIdle
  <2>2. Live' <=> stray'
    BY <2>1 DEF Live
  <2>3. CASE stray'
    <3>1. Watch' /\ Complete'
      BY <2>3 DEF Watch, Complete
    <3> QED BY <3>1, <2>1, <2>2, <2>3, <1>0
  <2>4. CASE ~stray'
    <3>1. Uris(buddy') = {} /\ (\A w \in Watchers : image'[w] = "blank") /\ ~Live'
      BY <2>1, <2>2, <2>4
    <3>2. Watch' /\ Complete'
      BY <3>1, <1>0, BlankKeeps
    <3> QED BY <3>1, <3>2, <2>1, <2>4, <1>0
  <2> QED BY <2>3, <2>4
<1>2. CASE acc = "idle"
  <2> DEFINE f == Called(number, id, acc, loc)
  <2>1. Subscribe(id, acc, loc, run, buddy, sub, image) /\ run
    BY <1>2 DEF SubscribeIfIdle
  <2>2. /\ buddy' \in BuddyList /\ Apart(buddy') /\ image' \in Icons
        /\ isSubscribed' = TRUE
        /\ sub => stray' = stray
    BY <2>1, SubscribeKeeps
  <2>3. stray' \in BOOLEAN /\ (~sub /\ acc # "none" => ~stray')
    BY <2>1, <1>0 DEF Subscribe
  <2>4. Live' /\ account' # "none" /\ (stray' <=> stray)
    <3>1. Live' /\ account' # "none"
      BY <2>1, <2>2, <1>2 DEF Live
    <3>2. CASE sub
      BY <3>1, <3>2, <2>2, <1>0
    <3>3. CASE ~sub
      BY <3>1, <3>3, <2>3, <1>2
    <3> QED BY <3>2, <3>3
  <2>5. CASE stray
    <3>1. Watch' /\ Complete'
      BY <2>4, <2>5 DEF Watch, Complete
    <3> QED BY <3>1, <2>2, <2>3, <2>4, <2>5
  <2>6. CASE ~stray
    <3>1. Uris(buddy) = {} /\ (\A w \in Watchers : image[w] = "blank") /\ ~sub
      BY <2>1, <2>6
    <3>2. /\ \A q : AllRight(image', f, presence, buddy', q)
          /\ Uris(buddy') \subseteq Wanted(Watchers, f, presence)
          /\ acc # "none" /\ Room' => Wanted(Watchers, f, presence) \subseteq Uris(buddy')
      BY <3>1, <2>1, SubscribeKeeps
    <3>3. f = Present' /\ presence' = presence
      BY DEF Present
    <3> HIDE DEF f
    <3>4. Watch' /\ (Room' => Complete')
      BY <3>2, <3>3, <2>4, <1>2 DEF Watch, Complete
    <3> QED BY <3>4, <2>2, <2>3, <2>4
  <2> QED BY <2>5, <2>6
<1> QED BY <1>1, <1>2

LEMMA AddedTypes ==
  ASSUME NEW id, NEW run \in BOOLEAN, NEW acc \in Added(id, run)
  PROVE  /\ acc \in Registering \union {"none", "idle"}
         /\ acc # "none" => run /\ id # 0
BY DEF Added, Registering

LEMMA ChangeKeeps == ASSUME IInv, Change PROVE Kept
<1>1. TypeOK /\ Session /\ Apart(buddy)
  BY DEF IInv
<1>2. PICK id, acc, loc, run, sub :
        /\ id = ui.to /\ loc = local /\ run = running /\ sub = isSubscribed
        /\ acc \in Added(ui.to, running) /\ account' = acc
        /\ SubscribeIfIdle(ui.to, acc, local, running, buddy, isSubscribed, image)
        /\ IF ui.command THEN DialOrDelay(ui.dial, ui.to, acc, local) ELSE UNCHANGED delayed
  BY DEF Change
<1>3. /\ ui.at = "leave" /\ ui' = Idle /\ accountId' = id
      /\ UNCHANGED <<running, local, number, presence, queue, calls>>
  BY <1>2 DEF Change, listVars
<1>4. id \in Ids /\ ui.dial \in BOOLEAN
  BY <1>1, <1>2, <1>3 DEF TypeOK, Doing
<1>5. run \in BOOLEAN /\ sub \in BOOLEAN /\ acc \in Added(id, run)
  BY <1>1, <1>2 DEF TypeOK
<1>6. acc \in Registering \union {"none", "idle"} /\ (acc # "none" => run /\ id # 0)
  BY <1>5, AddedTypes
<1>7. stray <=> Live
  BY <1>1, <1>3 DEF Session, Live
<1>8. ~stray => Uris(buddy) = {} /\ \A w \in Watchers : image[w] = "blank"
  BY <1>7, NothingShown
<1>9. SubscribeIfIdle(id, acc, loc, run, buddy, sub, image)
  BY <1>2
<1>10. stray <=> sub /\ run
  BY <1>2, <1>7 DEF Live
<1>11. UNCHANGED <<number, presence>> /\ accountId' = id /\ account' = acc /\ local' = loc /\ running' = run
       /\ (acc = "idle" => run)
  BY <1>2, <1>3, <1>6
<1>12. /\ buddy' \in BuddyList /\ Apart(buddy') /\ image' \in Icons
       /\ isSubscribed' \in BOOLEAN /\ stray' \in BOOLEAN
       /\ stray' => Live'
       /\ Live' /\ ~stray' => account' # "none"
       /\ Watch' /\ (Room' => Complete')
  BY <1>1, <1>4, <1>5, <1>8, <1>9, <1>10, <1>11, SubscribeIfIdleKeeps
<1>13. delayed' \in BOOLEAN
  BY <1>1, <1>2, <1>4 DEF DialOrDelay, TypeOK
<1>14. TypeOK'
  <2>1. ui' \in Doing
    BY <1>3 DEF Idle, Doing
  <2> QED BY <2>1, <1>1, <1>3, <1>4, <1>6, <1>11, <1>12, <1>13 DEF TypeOK, BuddyList, Icons
<1>15. Session'
  <2>1. account' # "none" \/ local' => running'
    BY <1>1, <1>3, <1>6, <1>11 DEF Session
  <2>2. ui'.at = "idle" /\ (accountId' = 0 => account' = "none")
    BY <1>3, <1>6, <1>11 DEF Idle
  <2> QED BY <2>1, <2>2, <1>12 DEF Session
<1> QED BY <1>12, <1>14, <1>15 DEF IInv, Kept

\* pjsua starts anew: nothing is left of the one before.
LEMMA CreateKeeps ==
  ASSUME IInv, NEW id \in Ids, Create(id), ~running, ui' = Idle, accountId' = id,
         UNCHANGED <<number, presence, queue, calls>>, delayed' \in BOOLEAN
  PROVE  Kept
<1>1. TypeOK /\ Session /\ Apart(buddy)
  BY DEF IInv
<1>2. PICK run, loc, acc :
        /\ run \in BOOLEAN /\ loc \in {FALSE, run /\ (EnableLocal \/ id = 0)} /\ acc \in Added(id, run)
        /\ running' = run /\ local' = loc /\ account' = acc
        /\ SubscribeIfIdle(id, acc, loc, run, buddy, FALSE, image)
  BY DEF Create
<1>3. acc \in Registering \union {"none", "idle"} /\ (acc # "none" => run /\ id # 0)
  BY <1>2, AddedTypes
<1>4. loc \in BOOLEAN /\ (loc => run)
  <2>1. CASE loc = FALSE
    BY <2>1
  <2>2. CASE loc # FALSE
    <3>1. loc = (run /\ (EnableLocal \/ id = 0))
      BY <2>2, <1>2
    <3> QED BY <3>1, <1>2
  <2> QED BY <2>1, <2>2
<1>5. ~Live /\ ~stray
  BY <1>1 DEF Session, Live
<1>6. Uris(buddy) = {} /\ \A w \in Watchers : image[w] = "blank"
  BY <1>5, NothingShown
<1>7. PICK sub : sub \in BOOLEAN /\ sub = FALSE
  OBVIOUS
<1>8. /\ buddy' \in BuddyList /\ Apart(buddy') /\ image' \in Icons
      /\ isSubscribed' \in BOOLEAN /\ stray' \in BOOLEAN
      /\ stray' => Live'
      /\ Live' /\ ~stray' => account' # "none"
      /\ Watch' /\ (Room' => Complete')
  <2>1. SubscribeIfIdle(id, acc, loc, run, buddy, sub, image)
    BY <1>2, <1>7
  <2>2. stray <=> sub /\ run
    BY <1>5, <1>7
  <2> QED BY <2>1, <2>2, <1>1, <1>2, <1>3, <1>6, <1>7, SubscribeIfIdleKeeps
<1>9. TypeOK'
  <2>1. ui' \in Doing
    BY DEF Idle, Doing
  <2> QED BY <2>1, <1>1, <1>2, <1>3, <1>4, <1>8 DEF TypeOK, BuddyList, Icons
<1>10. Session'
  <2>1. account' # "none" \/ local' => running'
    BY <1>2, <1>3, <1>4
  <2>2. ui'.at = "idle" /\ (accountId' = 0 => account' = "none")
    BY <1>2, <1>3 DEF Idle
  <2> QED BY <2>1, <2>2, <1>8 DEF Session
<1> QED BY <1>8, <1>9, <1>10 DEF IInv, Kept

LEMMA StartKeeps == ASSUME IInv, Start PROVE Kept
<1>1. PICK id, dial, given :
        /\ id \in Ids /\ dial \in BOOLEAN /\ accountId' = id /\ Create(id)
        /\ IF given THEN DialOrDelay(dial, id, IF id # accountId THEN account' ELSE "none", local')
           ELSE UNCHANGED delayed
  BY DEF Start, IInv, TypeOK
<1>2. delayed' \in BOOLEAN
  BY <1>1 DEF DialOrDelay, IInv, TypeOK
<1>3. ~running /\ ui' = Idle /\ UNCHANGED <<number, presence, queue, calls>>
  BY DEF Start, IInv, Session, listVars
<1> QED BY <1>1, <1>2, <1>3, CreateKeeps

LEMMA PJCreateKeeps == ASSUME IInv, PJCreate PROVE Kept
<1>1. PICK id : id = accountId
  OBVIOUS
<1>2. id \in Ids /\ Create(id) /\ accountId' = id
  BY <1>1 DEF PJCreate, IInv, TypeOK
<1>3. ~running /\ ui' = Idle /\ UNCHANGED <<number, presence, queue, calls>> /\ delayed' \in BOOLEAN
  BY DEF PJCreate, UIIdle, listVars, IInv, TypeOK
<1> QED BY <1>2, <1>3, CreateKeeps

LEMMA BeginDestroyKeeps == ASSUME IInv, BeginDestroy PROVE Kept
<1>1. /\ running /\ ui' = [at |-> "destroy"] /\ Unsubscribe
      /\ UNCHANGED <<running, account, local, accountId, number, presence, queue, delayed, calls>>
  BY DEF BeginDestroy, pjsuaVars, listVars
<1>2. TypeOK /\ Session
  BY DEF IInv
<1>3. /\ buddy' \in BuddyList /\ Apart(buddy') /\ Uris(buddy') = {}
      /\ image' \in Icons /\ \A w \in Watchers : image'[w] = "blank"
      /\ isSubscribed' = FALSE /\ stray' = FALSE
  BY <1>1, UnsubscribeClears
<1>4. TypeOK'
  <2>1. ui' \in Doing
    BY <1>1 DEF Doing
  <2> QED BY <2>1, <1>1, <1>2, <1>3 DEF TypeOK, BuddyList, Icons
<1>5. Session'
  BY <1>1, <1>2, <1>3 DEF Session, Live
<1>6. Watch' /\ Complete'
  <2>1. ~Live' /\ presence' \in [Watchers -> BOOLEAN]
    BY <1>3, <1>4 DEF Live, TypeOK
  <2> QED BY <2>1, <1>3, BlankKeeps
<1> QED BY <1>3, <1>4, <1>5, <1>6 DEF IInv, Kept

LEMMA PJDestroyKeeps == ASSUME IInv, PJDestroy PROVE Kept
<1>1. /\ ui.at = "destroy" /\ ui' = Idle
      /\ running' = FALSE /\ account' = "none" /\ local' = FALSE
      /\ buddy' = [i \in Slots |-> NoBuddy]
      /\ UNCHANGED <<accountId, isSubscribed, number, presence, image, queue, delayed, calls, stray>>
  BY DEF PJDestroy, listVars
<1>2. TypeOK /\ Session
  BY DEF IInv
<1>3. ~isSubscribed /\ ~stray /\ ~Live
  BY <1>1, <1>2 DEF Session, Live
<1>4. buddy' \in BuddyList /\ Apart(buddy') /\ Uris(buddy') = {}
  BY <1>1, NoneLeft
<1>5. \A w \in Watchers : image'[w] = "blank"
  BY <1>1, <1>3, NothingShown
<1>6. TypeOK'
  <2>1. ui' \in Doing
    BY <1>1 DEF Idle, Doing
  <2>2. account' \in Registering \union {"none", "idle"} /\ running' \in BOOLEAN /\ local' \in BOOLEAN
    BY <1>1
  <2> QED BY <2>1, <2>2, <1>1, <1>2, <1>4 DEF TypeOK, BuddyList
<1>7. Session'
  <2>1. ui'.at = "idle"
    BY <1>1 DEF Idle
  <2> QED BY <2>1, <1>1, <1>3 DEF Session, Live
<1>8. Watch' /\ Complete'
  <2>1. ~Live' /\ presence' \in [Watchers -> BOOLEAN]
    BY <1>1, <1>6 DEF Live, TypeOK
  <2> QED BY <2>1, <1>4, <1>5, BlankKeeps
<1> QED BY <1>4, <1>6, <1>7, <1>8 DEF IInv, Kept

LEMMA CallsKeep == ASSUME IInv, CallsChange \/ UpdateWindowText PROVE Kept
<1>1. delayed' \in BOOLEAN /\ calls' \in BOOLEAN
  BY DEF CallsChange, UpdateWindowText, Texted, IInv, TypeOK
<1>2. UNCHANGED <<pjsuaVars, accountId, isSubscribed, buddy, listVars, image, queue, ui, stray>>
  BY DEF CallsChange, UpdateWindowText
<1> QED BY <1>1, <1>2, TextKeeps

-----------------------------------------------------------------------------
(* The invariant is inductive *)

LEMMA InitInvariant == ASSUME Init PROVE IInv /\ Complete
<1>1. /\ running = FALSE /\ account = "none" /\ local = FALSE /\ isSubscribed = FALSE /\ stray = FALSE
      /\ accountId \in Ids /\ queue = <<>> /\ delayed = FALSE /\ calls = FALSE /\ ui = [at |-> "start"]
      /\ number \in [Watchers -> Numbers] /\ presence \in [Watchers -> BOOLEAN]
      /\ image = [w \in Watchers |-> "blank"]
  BY DEF Init
<1>2. buddy \in BuddyList /\ Apart(buddy) /\ Uris(buddy) = {}
  BY NoneLeft DEF Init
<1>3. TypeOK
  <2>1. queue \in Seq(Message) /\ Len(queue) <= MaxQueue
    BY <1>1, BoundAssumption
  <2>2. image \in Icons /\ ui \in Doing
    BY <1>1 DEF Icons, Doing
  <2> QED BY <1>1, <1>2, <2>1, <2>2 DEF TypeOK, BuddyList, Icons
<1>4. Session
  BY <1>1 DEF Session, Live
<1>5. AllRight(image, Present, presence, buddy, queue)
  BY <1>1, <1>2, BlankIsRight
<1> QED BY <1>1, <1>2, <1>3, <1>4, <1>5 DEF IInv, Watch, Complete, Live

LEMMA StepInvariant == ASSUME IInv, Next PROVE Kept
<1>1. CASE HandleMessage
  BY <1>1, OnRegStateKeeps, OnBuddyStateKeeps DEF HandleMessage
<1>2. CASE Worker
  BY <1>2, RegAnswerKeeps, NotifyKeeps DEF Worker
<1>3. CASE User
  BY <1>3, CallsKeep, EditContactKeeps, EditShortcutsKeeps, LeavingKeeps, StartKeeps, PJCreateKeeps,
     BeginDestroyKeeps DEF User
<1>4. CASE Finish
  BY <1>4, ChangeKeeps, PJDestroyKeeps DEF Finish
<1> QED BY <1>1, <1>2, <1>3, <1>4 DEF Next

LEMMA StutterInvariant ==
  ASSUME IInv, UNCHANGED vars PROVE IInv' /\ (Complete => Complete')
<1>1. UNCHANGED <<running, account, local, accountId, isSubscribed, buddy, number, presence, image,
                  queue, delayed, calls, ui, stray>>
  BY DEF vars
<1>2. Present' = Present
  BY <1>1, SamePresent
<1>3. Apart(buddy') /\ Watch' /\ (Complete => Complete')
  BY <1>1, <1>2, QuietKeeps
<1>4. TypeOK'
  BY <1>1 DEF IInv, TypeOK
<1>5. Session'
  BY <1>1 DEF IInv, Session, Live
<1> QED BY <1>3, <1>4, <1>5 DEF IInv

LEMMA InvariantHolds == Spec => []IInv
<1>1. Init => IInv
  BY InitInvariant
<1>2. IInv /\ [Next]_vars => IInv'
  BY StepInvariant, StutterInvariant DEF Kept
<1> QED BY <1>1, <1>2, PTL DEF Spec

\* Buddies that fill all slots, each for another number that is watched, are all
\* there can be, if there are no more entries than slots.
LEMMA FullIsEnough ==
  ASSUME IsFiniteSet(Watchers), Cardinality(Watchers) <= MaxBuddies,
         NEW bs, Apart(bs), \A i \in Slots : bs[i] # NoBuddy, NEW f, NEW p,
         Uris(bs) \subseteq Wanted(Watchers, f, p)
  PROVE  Wanted(Watchers, f, p) \subseteq Uris(bs)
<1> SUFFICES ASSUME NEW v \in Watchers, p[v], f[v] \notin Uris(bs)
             PROVE  FALSE
  BY DEF Wanted
<1>1. /\ IsFiniteSet(Watchers \ {v})
      /\ Cardinality(Watchers \ {v}) = Cardinality(Watchers) - 1
      /\ Cardinality(Watchers) \in Nat
  BY FS_RemoveElement, FS_CardinalityType
<1>2. IsFiniteSet(Slots) /\ Cardinality(Slots) = MaxBuddies
  <2>1. 1 \in Int /\ MaxBuddies \in Int /\ MaxBuddies >= 1
    BY BoundAssumption
  <2>2. IsFiniteSet(1..MaxBuddies) /\ Cardinality(1..MaxBuddies) = IF 1 > MaxBuddies THEN 0 ELSE MaxBuddies - 1 + 1
    BY <2>1, FS_Interval
  <2> QED BY <2>1, <2>2 DEF Slots
<1>3. Cardinality(Watchers \ {v}) < Cardinality(Slots)
  BY <1>1, <1>2, BoundAssumption
<1> DEFINE g == [i \in Slots |-> CHOOSE w \in Watchers : p[w] /\ f[w] = bs[i].uri]
<1>4. \A i \in Slots : g[i] \in Watchers \ {v} /\ f[g[i]] = bs[i].uri
  <2> SUFFICES ASSUME NEW i \in Slots PROVE g[i] \in Watchers \ {v} /\ f[g[i]] = bs[i].uri
    OBVIOUS
  <2>1. bs[i].uri \in Uris(bs)
    BY DEF Uris
  <2>2. \E w \in Watchers : p[w] /\ f[w] = bs[i].uri
    BY <2>1 DEF Wanted
  <2>3. g[i] \in Watchers /\ f[g[i]] = bs[i].uri
    BY <2>2
  <2> QED BY <2>1, <2>3
<1>5. g \in [Slots -> Watchers \ {v}]
  BY <1>4
<1> HIDE DEF g
<1>6. PICK i, j \in Slots : i # j /\ g[i] = g[j]
  BY <1>1, <1>2, <1>3, <1>5, FS_PigeonHole
<1>7. bs[i].uri = bs[j].uri
  BY <1>4, <1>6
<1> QED BY <1>6, <1>7 DEF Apart

LEMMA CompleteHolds ==
  ASSUME IsFiniteSet(Watchers), Cardinality(Watchers) <= MaxBuddies
  PROVE  Spec => []Complete
<1>1. Init => Complete
  BY InitInvariant
<1>2. IInv /\ IInv' /\ Complete /\ [Next]_vars => Complete'
  <2> SUFFICES ASSUME IInv, IInv', Complete, [Next]_vars PROVE Complete'
    OBVIOUS
  <2>1. CASE UNCHANGED vars
    BY <2>1, StutterInvariant
  <2>2. CASE Next /\ Room'
    BY <2>2, StepInvariant DEF Kept
  <2>3. CASE Next /\ ~Room'
    <3>1. PICK bs, f, p : bs = buddy' /\ f = Present' /\ p = presence'
      OBVIOUS
    <3>2. Apart(bs) /\ \A i \in Slots : bs[i] # NoBuddy
      BY <2>3, <3>1 DEF IInv, Room
    <3>3. ~stray' => Uris(bs) \subseteq Wanted(Watchers, f, p)
      BY <3>1 DEF IInv, Watch
    <3>4. ~stray' => Wanted(Watchers, f, p) \subseteq Uris(bs)
      BY <3>2, <3>3, FullIsEnough
    <3> QED BY <3>1, <3>4 DEF Complete
  <2> QED BY <2>1, <2>2, <2>3
<1> QED BY <1>1, <1>2, InvariantHolds, PTL DEF Spec

-----------------------------------------------------------------------------
(* The theorems *)

\* What the two threads keep of accounts, buddies, entries and messages is of its
\* type: no buddy is used that was not added, no message names another slot.
THEOREM RegistrationTypes == Spec => []TypeOK
<1>1. IInv => TypeOK
  BY DEF IInv
<1> QED BY <1>1, InvariantHolds, PTL

\* Once its messages are handled, an entry shows what is known of its buddy, and
\* one without a buddy shows nothing: through changes of accounts, of contacts and
\* shortcuts, and of pjsua itself (OnBuddyState, PresenceReset, SubsribeNumber).
THEOREM PresenceStaysCurrent == Spec => []PresenceCurrent
<1>1. IInv => PresenceCurrent
  <2> SUFFICES ASSUME IInv, ~stray, NEW w \in Watchers
               PROVE  LET B == {i \in Slots : buddy[i] # NoBuddy /\ buddy[i].uri = Format(w)}
                      IN  IF presence[w] /\ isSubscribed /\ B # {}
                          THEN \A i \in B : image[w] = buddy[i].status
                                            \/ \E k \in DOMAIN queue : queue[k] = [type |-> "buddy", id |-> i]
                          ELSE image[w] = "blank"
    BY DEF PresenceCurrent
  <2> DEFINE B == {i \in Slots : buddy[i] # NoBuddy /\ buddy[i].uri = Format(w)}
  <2>1. Right(image[w], Present[w], presence[w], buddy, queue) /\ (~Live => Uris(buddy) = {})
    BY DEF IInv, Watch, AllRight
  <2>2. Present[w] = Format(w) /\ DOMAIN queue = 1..Len(queue)
    BY TypesAre, LenProperties DEF IInv, TypeOK
  <2>3. \A i \in Slots : i \in B <=> Has(buddy, i, Present[w])
    BY <2>2 DEF Has
  <2>4. B # {} => isSubscribed
    <3>1. B # {} => Uris(buddy) # {}
      BY DEF Uris
    <3> QED BY <3>1, <2>1 DEF Live
  <2>5. CASE presence[w] /\ isSubscribed /\ B # {}
    <3>1. \A i \in B : image[w] = buddy[i].status \/ Posted(queue, i)
      BY <2>1, <2>3, <2>5 DEF Right
    <3> QED BY <3>1, <2>2, <2>5 DEF Posted
  <2>6. CASE ~(presence[w] /\ isSubscribed /\ B # {})
    <3>1. image[w] = "blank"
      BY <2>1, <2>3, <2>4, <2>6 DEF Right
    <3> QED BY <3>1, <2>6
  <2> QED BY <2>5, <2>6
<1> QED BY <1>1, InvariantHolds, PTL

\* While MicroSIP is subscribed, pjsua watches the numbers of the entries and no
\* others, each once; and none else.  pjsua must have a buddy for every entry, as
\* MicroSIP looks at no error of pjsua_buddy_add (SubsribeNumber, UnsubscribeNumber).
THEOREM WatchedStaysAsShown ==
  ASSUME IsFiniteSet(Watchers), Cardinality(Watchers) <= MaxBuddies
  PROVE  Spec => []WatchedAsShown
<1>1. IInv /\ Complete => WatchedAsShown
  <2> SUFFICES ASSUME IInv, Complete, ~stray
               PROVE  /\ Uris(buddy) = IF isSubscribed /\ running
                                       THEN {Format(w) : w \in {x \in Watchers : presence[x]}} ELSE {}
                      /\ \A i, j \in Slots : i # j /\ buddy[i] # NoBuddy /\ buddy[j] # NoBuddy
                                               => buddy[i].uri # buddy[j].uri
    BY DEF WatchedAsShown
  <2>1. Wanted(Watchers, Present, presence) = {Format(w) : w \in {x \in Watchers : presence[x]}}
    BY TypesAre DEF IInv, Wanted
  <2>2. Uris(buddy) \subseteq Wanted(Watchers, Present, presence) /\ (~Live => Uris(buddy) = {})
    BY DEF IInv, Watch
  <2>3. Live => Wanted(Watchers, Present, presence) \subseteq Uris(buddy)
    BY DEF Complete
  <2>4. \A i, j \in Slots : i # j /\ buddy[i] # NoBuddy /\ buddy[j] # NoBuddy
                              => buddy[i].uri # buddy[j].uri
    BY DEF IInv, Apart
  <2>5. Uris(buddy) = IF isSubscribed /\ running
                      THEN {Format(w) : w \in {x \in Watchers : presence[x]}} ELSE {}
    BY <2>1, <2>2, <2>3 DEF Live
  <2> QED BY <2>4, <2>5
<1> QED BY <1>1, InvariantHolds, CompleteHolds, PTL
=============================================================================
