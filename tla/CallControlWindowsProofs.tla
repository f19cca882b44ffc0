------------------------ MODULE CallControlWindowsProofs ------------------------
(***************************************************************************)
(* The windows follow the calls, for any number of calls, slots and far    *)
(* ends and any settings: tabs, ringing dialogs and the ringtone.          *)
(*                                                                         *)
(* Tabs, dialogs and messages name a call by its slot, so none of this     *)
(* holds when pjsua gives a slot to the next call while a message of the   *)
(* last one is on its way, or while a tab still has the last one, which    *)
(* was lost without a word to the UI.  The theorems are about the          *)
(* behaviours in which no slot is taken that early, slots being taken      *)
(* again and again later, and in which the user does not dial a number     *)
(* that is calling in.                                                     *)
(***************************************************************************)
EXTENDS CallControlProofs

\* No call takes a slot that a message in the queue or a tab names.
NoEarlyReuse ==
  \A k \in Calls : inv[k] = "none" /\ inv'[k] # "none" =>
    /\ \A i \in 1..Len(queue) : queue[i].slot # slot'[k]
    /\ \A n \in Numbers : tab[n] \in Slots => tab[n] # slot'[k]

-----------------------------------------------------------------------------
(* The invariant *)

\* A call that pjsua has, or that a message is about
Here(k) == k \in Enum \/ \E i \in 1..Len(queue) : queue[i].call = k

\* The slot says which.
OneHere == \A a, b \in Calls : Here(a) /\ Here(b) /\ slot[a] = slot[b] => a = b

Unlabelled == {"create", "answer", "reject"}

\* A message of a call carries its slot; a call rejected in the callback has
\* nothing but its last message.
Labelled ==
  \A i \in 1..Len(queue) :
    /\ queue[i].call = NoCall <=> queue[i].type \in Unlabelled
    /\ queue[i].call # NoCall => queue[i].slot = slot[queue[i].call]
    /\ queue[i].call # NoCall /\ hidden[queue[i].call] => queue[i].type = "unanswered"

Ends(k) == \E i \in 1..Len(queue) : queue[i].call = k /\ IsFinal(queue[i])

IsLost(k) == inv[k] = "lost"

\* Nothing else has the slot of the call.
Sole(k) == \A x \in Calls : Here(x) /\ slot[x] = slot[k] => x = k

\* A tab that shows a call shows one the user was told of, and so until its last
\* message is handled, or for good when the call was lost.
Shown(n, k) == /\ slot[k] = tab[n] /\ number[k] = n /\ ~hidden[k]
               /\ k \in Active \/ Ends(k) \/ IsLost(k)
               /\ Sole(k)
TabsShow == \A n \in Numbers : tab[n] \in Slots => \E k \in Calls : Shown(n, k)

\* The messages that close the dialog of a call, and stop the ringtone
Closers == {"answered", "unanswered"}
Closed(k, from) ==
  \E i \in 1..Len(queue) : i > from /\ queue[i].call = k /\ queue[i].type \in Closers

Rung(s, k) == /\ slot[k] = s /\ role[k] = "in" /\ ~hidden[k]
              /\ Ringing(k) \/ Closed(k, 0)
DialogsShow ==
  /\ \A i \in 1..Len(dialogs) : \E k \in Calls : Rung(dialogs[i], k)
  /\ \A i, j \in 1..Len(dialogs) : dialogs[i] = dialogs[j] => i = j

\* A dialog on its way is the only one of its slot.  It is for a call that rings,
\* or that has ended, or whose closing message is behind it.
DialogsCome ==
  \A i \in 1..Len(queue) : queue[i].type = "create" =>
    /\ \A k \in At(queue[i].slot) :
         /\ role[k] = "in" /\ ~hidden[k]
         /\ Ringing(k) \/ k \notin Active \/ Closed(k, i)
    /\ \A j \in 1..Len(dialogs) : dialogs[j] # queue[i].slot
    /\ \A j \in 1..Len(queue) : queue[j].type = "create" /\ queue[j].slot = queue[i].slot
                                  => j = i

\* Until a call is announced it rings or has failed, and nothing else in the UI
\* has its slot.
Announced ==
  \A i \in 1..Len(queue) : queue[i].type = "incoming" =>
    LET k == queue[i].call
    IN  /\ role[k] = "in" /\ ~hidden[k]
        /\ \/ Ringing(k)
           \/ \E j \in 1..Len(queue) : queue[j].call = k /\ queue[j].type = "unanswered"
        /\ \A j \in 1..Len(queue) : queue[j].slot = slot[k] => j >= i /\ queue[j].type # "create"
        /\ \A j \in 1..Len(dialogs) : dialogs[j] # slot[k]
        /\ \A n \in Numbers : tab[n] # slot[k]

\* The ringtone stops: with the last dialog, with a message that is on its way,
\* or when the dialog to come is opened and closed, or not opened at all.
RingEnds ==
  ring => \/ Len(dialogs) # 0
          \/ \E i \in 1..Len(queue) : /\ queue[i].type \in Closers
                                      /\ role[queue[i].call] = "in"
          \/ \E i \in 1..Len(queue) : /\ queue[i].type = "create"
                                      /\ \A k \in At(queue[i].slot) : Ringing(k)

\* A far end has one call at a time.
OnePerNumber == \A a, b \in Active : number[a] = number[b] => a = b

\* The last message of a far end's last call is handled before any of its next.
InTurn ==
  \A k \in Active, x \in Calls : x # k /\ number[x] = number[k] /\ ~hidden[x] =>
    \A i, j \in 1..Len(queue) :
      queue[i].call = x /\ IsFinal(queue[i]) /\ queue[j].call = k => i < j

States1 == {"calling", "ringing", "answered"}

\* A call of the number was lost, which may have left its slot in the tab.
LostNumber(n) == \E x \in Calls : IsLost(x) /\ number[x] = n

\* A call that is on has the tab of its number, or a message that gives it to it.
Reaches ==
  \A k \in Active : ~Ringing(k) =>
    \/ tab[number[k]] = slot[k]
    \/ LostNumber(number[k])
    \/ \E i \in 1..Len(queue) : queue[i].call = k /\ queue[i].type \in States1

Windows == /\ OneHere /\ Labelled /\ TabsShow /\ DialogsShow /\ DialogsCome
           /\ Announced /\ RingEnds /\ OnePerNumber /\ InTurn /\ Reaches

WInv == IInv /\ Windows
-----------------------------------------------------------------------------
(* What a step does that handles the first d messages of the queue, one or   *)
(* none.                                                                     *)

New(d, i) == i + d > Len(queue)
Posts(d, m) == \E i \in 1..Len(queue') : New(d, i) /\ queue'[i] = m
First(d, T) == d = 1 /\ Head1.type \in T

\* What is posted goes behind what is there.
Handles(d) ==
  /\ d \in {0, 1} /\ d <= Len(queue)
  /\ queue' \in Seq(Message)
  /\ \A i \in 1..Len(queue) : i > d => i - d \in 1..Len(queue') /\ queue'[i - d] = queue[i]
  /\ \A i \in 1..Len(queue') :
       ~New(d, i) => i + d \in 1..Len(queue) /\ queue'[i] = queue[i + d]

Begins(k) == inv[k] = "none" /\ inv'[k] # "none"

\* A call that begins takes a slot that nothing names, and goes on only when its
\* number has no other.
Born(k) ==
  /\ \A x \in Calls : Begins(x) => x = k
  /\ slot'[k] \in Slots
  /\ \A x \in Enum : slot[x] # slot'[k]
  /\ \A i \in 1..Len(queue) : queue[i].slot # slot'[k]
  /\ \A n \in Numbers : tab[n] # slot'[k]
  /\ inv'[k] \in {"ringing", "calling", "hanging", "over"}
  /\ inv'[k] \in Going => \A x \in Active : number[x] # number'[k]
  /\ inv'[k] = "calling" => Posts(0, Msg("calling", slot'[k], k))

\* Another call goes on, is answered, ends, and the user is told, or is lost.
Lives(d, k) ==
  /\ UNCHANGED <<slot[k], role[k], number[k], hidden[k]>>
  /\ \/ inv'[k] = inv[k]
     \/ inv[k] = "hanging" /\ inv'[k] = "over"
     \/ inv[k] \in {"calling", "connecting"} /\ inv'[k] = "confirmed"
     \/ inv[k] \in {"calling", "connecting", "confirmed"} /\ inv'[k] = "lost"
     \/ /\ inv[k] = "ringing" /\ inv'[k] = "connecting"
        /\ ~hidden[k] /\ Posts(d, Msg("answered", slot[k], k))
        /\ \A i \in 1..Len(queue) : queue[i].type = "incoming" /\ i > d => queue[i].slot # slot[k]
     \/ /\ inv[k] \in Going /\ inv'[k] \in {"hanging", "over"}
        /\ ~hidden[k] => Posts(d, Msg(Ended[k], slot[k], k))

CallsGo(d) == \A k \in Calls : IF Begins(k) THEN d = 0 /\ Born(k) ELSE Lives(d, k)

\* The slot of a call that has begun
Known(s) == \E k \in Calls : inv[k] # "none" /\ slot[k] = s

\* What is posted
News(d, m) ==
  \/ /\ m.call \in Active /\ ~hidden[m.call] /\ m.slot = slot[m.call]
     /\ m.type \in {"ringing", "answered", "media", "ended", "unanswered"}
  \/ /\ m.call \in Calls /\ Begins(m.call) /\ m.slot = slot'[m.call]
     /\ \/ m.type = "unanswered" /\ hidden'[m.call]
        \/ m.type = "calling" /\ ~hidden'[m.call]
        \/ /\ m.type = "incoming" /\ ~hidden'[m.call]
           /\ role'[m.call] = "in" /\ inv'[m.call] = "ringing"
  \/ m.call = NoCall /\ m.type \in {"answer", "reject"} /\ Known(m.slot)
  \/ /\ m.call = NoCall /\ m.type = "create" /\ First(d, {"incoming"})
     /\ m.slot = Head1.slot /\ inv' = inv

Posting(d) ==
  /\ \A i \in 1..Len(queue') : New(d, i) => News(d, queue'[i])
  /\ \A i, j \in 1..Len(queue') :
       /\ New(d, i) /\ New(d, j)
       /\ queue'[i].type \in {"incoming", "create"}
       /\ queue'[i].type = "incoming" \/ queue'[j].type = "create"
       => i = j

Giving == States1 \union {"media"}

\* The tabs: one is given to the call that is dialled or announced, or not any
\* more to one that ends.
TabsGo(d) ==
  /\ \A n \in Numbers : \/ tab'[n] = tab[n] \/ tab'[n] \notin Slots
                        \/ /\ First(d, Giving) /\ number[Head1.call] = n
                           /\ tab'[n] = Head1.slot
                        \/ \E k \in Calls : /\ Begins(k) /\ inv'[k] = "calling" /\ ~hidden'[k]
                                            /\ number'[k] = n /\ slot'[k] = tab'[n]
  /\ \A k \in Active : tab[number[k]] = slot[k] /\ tab'[number[k]] # slot[k] => k \notin Active'
  /\ First(d, {"ended", "unanswered"}) => \A n \in Numbers : tab'[n] # Head1.slot
  /\ First(d, States1) /\ Head1.call \in Active =>
       tab'[number[Head1.call]] = Head1.slot \/ LostNumber(number[Head1.call])

\* The dialogs: one is opened, or those of a call that does not ring any more
\* close.
DialogsGo(d) ==
  /\ \A i \in 1..Len(dialogs') :
       \/ \E j \in 1..Len(dialogs) : dialogs'[i] = dialogs[j]
       \/ /\ First(d, {"create"}) /\ dialogs'[i] = Head1.slot
          /\ \E k \in At(Head1.slot) : data[k] = "attached"
  /\ \A i, j \in 1..Len(dialogs') : dialogs'[i] = dialogs'[j] => i = j
  /\ First(d, Closers) /\ role[Head1.call] = "in" =>
       \A i \in 1..Len(dialogs') : dialogs'[i] # Head1.slot

\* The ringtone starts with a dialog to come, and stops with the last one.
RingGoes(d) ==
  ring' =>
    /\ \/ ring
       \/ First(d, {"incoming"}) /\ Posts(d, Msg("create", Head1.slot, NoCall))
    /\ Len(dialogs) # 0 => Len(dialogs') # 0
    /\ First(d, Closers) /\ role[Head1.call] = "in" => Len(dialogs') # 0
    /\ First(d, {"create"}) =>
         Len(dialogs') # 0 \/ \E k \in At(Head1.slot) : data[k] # "attached"

Steps(d) == Handles(d) /\ CallsGo(d) /\ Posting(d) /\ TabsGo(d) /\ DialogsGo(d) /\ RingGoes(d)
-----------------------------------------------------------------------------
(* What a step leaves of the queue and the calls *)

Lasting == {"ended", "unanswered"}

LEMMA QueueIs ==
  ASSUME IInv
  PROVE  /\ queue \in Seq(Message) /\ Len(queue) \in Nat
         /\ \A i \in 1..Len(queue) : /\ queue[i].type \in Types /\ queue[i].slot \in Slots
                                     /\ queue[i].call \in Calls \union {NoCall}
<1>1. queue \in Seq(Message) /\ Len(queue) \in Nat
  BY LenProperties DEF IInv, CoreInv, QueueInv
<1> QED BY <1>1, CallOfMessage DEF Message

\* A message of a call is of one that has begun, and that goes on unless its last
\* message is to come or it was lost.
LEMMA MessageOf ==
  ASSUME IInv, NEW i \in 1..Len(queue), queue[i].call # NoCall
  PROVE  /\ queue[i].call \in Calls
         /\ inv[queue[i].call] # "none"
         /\ IsFinal(queue[i]) => queue[i].call \notin Active
         /\ queue[i].call \in Active \/ Ends(queue[i].call) \/ IsLost(queue[i].call)
<1> DEFINE k == queue[i].call
<1>1. k \in Calls
  BY QueueIs
<1>2. data[k] \in {"attached", "detached", "leaked"}
  BY DEF IInv, CoreInv, QueueInv, Carried
<1>3. /\ data[k] = "attached" <=> k \in Active
      /\ data[k] = "none" <=> inv[k] = "none"
      /\ data[k] = "leaked" <=> IsLost(k)
  BY <1>1 DEF IInv, CoreInv, Mirror, IsLost
<1>4. data[k] = "detached" => Ends(k)
  BY <1>1 DEF IInv, CoreInv, QueueInv, FinalComes, Ends
<1>5. IsFinal(queue[i]) => data[k] = "detached"
  BY DEF IInv, CoreInv, QueueInv, FinalIsLast
<1> QED BY <1>1, <1>2, <1>3, <1>4, <1>5

LEMMA EndsNotActive ==
  ASSUME IInv, NEW k \in Calls, Ends(k) PROVE k \notin Active
<1>1. PICK i \in 1..Len(queue) : queue[i].call = k /\ IsFinal(queue[i])
  BY DEF Ends
<1>2. k # NoCall
  BY CallsFinite
<1> QED BY <1>1, <1>2, MessageOf

\* Nothing of a call is behind its last message.
LEMMA LastIsLast ==
  ASSUME IInv, NEW i \in 1..Len(queue), NEW j \in 1..Len(queue),
         IsFinal(queue[i]), queue[j].call = queue[i].call
  PROVE  j <= i
BY DEF IInv, CoreInv, QueueInv, FinalIsLast

LEMMA HereIs ==
  ASSUME IInv, NEW k \in Calls
  PROVE  /\ k \in Active => Here(k)
         /\ Ends(k) => Here(k)
         /\ Here(k) => inv[k] # "none"
<1>1. k \in Enum => inv[k] # "none"
  BY EnumIs DEF Going
<1>2. k # NoCall
  BY CallsFinite
<1>3. Here(k) => inv[k] # "none"
  BY <1>1, <1>2, MessageOf DEF Here
<1> QED BY <1>3 DEF Here, Ends, Enum

LEMMA ActiveNext ==
  /\ \A k \in Calls : k \in Active' <=> inv'[k] \in Going
  /\ \A k \in Calls : k \in Enum' <=> inv'[k] \in Going \union {"hanging"}
BY DEF Enum, Active, Talks, Going

\* What becomes of a call
LEMMA CallGoes ==
  ASSUME IInv, NEW d, CallsGo(d), NEW k \in Calls
  PROVE  /\ k \in Enum' => k \in Enum \/ Begins(k)
         /\ k \in Active' => k \in Active \/ Begins(k)
         /\ Begins(k) => d = 0 /\ Born(k) /\ ~Here(k) /\ inv[k] = "none"
         /\ ~Begins(k) => Lives(d, k)
         /\ ~Begins(k) => UNCHANGED <<slot[k], role[k], number[k], hidden[k]>>
         /\ k \in Active /\ ~hidden[k] /\ k \notin Active' =>
              Posts(d, Msg(Ended[k], slot[k], k)) \/ IsLost(k)'
         /\ IsLost(k) => IsLost(k)'
         /\ Ringing(k) /\ ~hidden[k] /\ ~Ringing(k)' =>
              \/ Posts(d, Msg("answered", slot[k], k))
              \/ Posts(d, Msg("unanswered", slot[k], k)) /\ k \notin Active'
         /\ Ringing(k)' => Ringing(k) \/ Begins(k)
<1>1. Begins(k) => d = 0 /\ Born(k) /\ ~Here(k) /\ inv[k] = "none"
  BY HereIs DEF CallsGo, Begins
<1>2. ~Begins(k) => Lives(d, k)
  BY DEF CallsGo
<1>3. inv[k] = "none" => Begins(k) \/ inv'[k] = "none"
  BY DEF Begins
<1>4. inv[k] \in States
  BY DEF IInv, CoreInv, CoreType, States
<1>5. ~Begins(k) => \/ inv'[k] = inv[k]
                    \/ inv[k] = "hanging" /\ inv'[k] = "over"
                    \/ inv[k] \in {"calling", "connecting"} /\ inv'[k] = "confirmed"
                    \/ inv[k] \in {"calling", "connecting", "confirmed"} /\ inv'[k] = "lost"
                    \/ inv[k] = "ringing" /\ inv'[k] = "connecting"
                    \/ inv[k] \in Going /\ inv'[k] \in {"hanging", "over"}
  BY <1>2 DEF Lives
<1>6. Begins(k) => k \notin Active /\ k \notin Enum /\ ~Ringing(k)
  BY ActiveIs, EnumIs DEF Begins, Going, Ringing
<1>7. k \in Enum' => k \in Enum \/ Begins(k)
  BY <1>5, EnumIs, ActiveNext DEF Going
<1>8. k \in Active' => k \in Active \/ Begins(k)
  BY <1>5, ActiveIs, ActiveNext DEF Going
<1>9. k \in Active /\ ~hidden[k] /\ k \notin Active' =>
        Posts(d, Msg(Ended[k], slot[k], k)) \/ IsLost(k)'
  BY <1>2, <1>6, ActiveIs, ActiveNext DEF Lives, Going, IsLost
<1>14. IsLost(k) => IsLost(k)'
  BY <1>2, <1>5 DEF IsLost, Begins, Going
<1>10. Ringing(k) => Ended[k] = "unanswered"
  BY DEF Ringing, Ended
<1>11. Ringing(k) /\ ~hidden[k] /\ ~Ringing(k)' =>
         \/ Posts(d, Msg("answered", slot[k], k))
         \/ Posts(d, Msg("unanswered", slot[k], k)) /\ k \notin Active'
  BY <1>2, <1>6, <1>10, ActiveNext DEF Lives, Ringing, Going
<1>12. Ringing(k)' => Ringing(k) \/ Begins(k)
  BY <1>5 DEF Ringing
<1>13. ~Begins(k) => UNCHANGED <<slot[k], role[k], number[k], hidden[k]>>
  BY <1>2 DEF Lives
<1> QED BY <1>1, <1>2, <1>7, <1>8, <1>9, <1>11, <1>12, <1>13, <1>14

\* Messages move up, and what is posted is behind them.
LEMMA QueueGoes ==
  ASSUME IInv, NEW d, Handles(d)
  PROVE  /\ d \in {0, 1} /\ Len(queue) \in Nat /\ Len(queue') \in Nat
         /\ \A i \in 1..Len(queue) :
              \/ i > d /\ i - d \in 1..Len(queue') /\ queue'[i - d] = queue[i] /\ ~New(d, i - d)
              \/ i = 1 /\ d = 1 /\ queue[i] = Head1
         /\ \A i \in 1..Len(queue') :
              \/ New(d, i)
              \/ ~New(d, i) /\ i + d \in 1..Len(queue) /\ i + d > d /\ queue'[i] = queue[i + d]
         /\ \A i, j \in 1..Len(queue') : New(d, j) /\ ~New(d, i) => i < j
<1>1. Len(queue) \in Nat /\ Len(queue') \in Nat /\ d \in {0, 1}
  BY QueueIs, LenProperties DEF Handles
<1> QED BY <1>1 DEF Handles, New, Head1

LEMMA HeadHere ==
  ASSUME IInv, NEW d, Handles(d), d = 1
  PROVE  1 \in 1..Len(queue) /\ Head1 = queue[1]
BY QueueIs DEF Handles, Head1

\* No message names the slot of the call that begins.
LEMMA BornApart ==
  ASSUME IInv, Labelled, NEW d, CallsGo(d), NEW k \in Calls, Begins(k)
  PROVE  /\ \A x \in Calls : Here(x) => slot[x] # slot'[k]
         /\ \A n \in Numbers : tab[n] # slot'[k]
         /\ \A i \in 1..Len(queue) : queue[i].slot # slot'[k]
         /\ \A x \in Calls : x # k => ~Begins(x)
         /\ d = 0
<1>1. Born(k) /\ d = 0
  BY CallGoes
<1>2. ASSUME NEW x \in Calls, Here(x) PROVE slot[x] # slot'[k]
  <2>1. CASE x \in Enum
    BY <1>1, <2>1 DEF Born
  <2>2. CASE \E i \in 1..Len(queue) : queue[i].call = x
    <3>1. PICK i \in 1..Len(queue) : queue[i].call = x
      BY <2>2
    <3>2. x # NoCall
      BY CallsFinite
    <3>3. queue[i].slot = slot[x]
      BY <3>1, <3>2 DEF Labelled
    <3> QED BY <1>1, <3>3 DEF Born
  <2> QED BY <1>2, <2>1, <2>2 DEF Here
<1> QED BY <1>1, <1>2 DEF Born

-----------------------------------------------------------------------------
(* Each part of the invariant is kept. *)

\* What is there next was there, or begins.
LEMMA HereGoes ==
  ASSUME IInv, NEW d, Handles(d), CallsGo(d), Posting(d), NEW k \in Calls, Here(k)'
  PROVE  Begins(k) \/ Here(k)
<1>1. CASE k \in Enum'
  BY <1>1, CallGoes DEF Here
<1>2. CASE \E i \in 1..Len(queue') : queue'[i].call = k
  <2>1. PICK i \in 1..Len(queue') : queue'[i].call = k
    BY <1>2
  <2>2. k # NoCall
    BY CallsFinite
  <2>3. CASE New(d, i)
    <3>1. News(d, queue'[i])
      BY <2>3 DEF Posting
    <3>2. k \in Active \/ Begins(k)
      BY <2>1, <2>2, <3>1 DEF News
    <3> QED BY <3>2, HereIs
  <2>4. CASE ~New(d, i)
    BY <2>1, <2>4, QueueGoes DEF Here
  <2> QED BY <2>3, <2>4
<1> QED BY <1>1, <1>2 DEF Here

LEMMA OneHereKept ==
  ASSUME IInv, OneHere, Labelled, NEW d, Handles(d), CallsGo(d), Posting(d)
  PROVE  OneHere'
<1>1. ASSUME NEW a \in Calls, NEW b \in Calls, Here(a)', Here(b)', slot'[a] = slot'[b]
      PROVE  a = b
  <2>1. CASE Begins(a) /\ ~Begins(b)
    BY HereGoes, <1>1, <2>1, BornApart, CallGoes
  <2>2. CASE Begins(b) /\ ~Begins(a)
    BY HereGoes, <1>1, <2>2, BornApart, CallGoes
  <2>3. CASE Begins(a) /\ Begins(b)
    BY <2>3, BornApart
  <2>4. CASE ~Begins(a) /\ ~Begins(b)
    BY HereGoes, <1>1, <2>4, CallGoes DEF OneHere
  <2> QED BY <2>1, <2>2, <2>3, <2>4
<1> QED BY <1>1 DEF OneHere

LEMMA LabelledKept ==
  ASSUME IInv, Labelled, NEW d, Handles(d), CallsGo(d), Posting(d)
  PROVE  Labelled'
<1> SUFFICES ASSUME NEW i \in 1..Len(queue')
             PROVE  /\ queue'[i].call = NoCall <=> queue'[i].type \in Unlabelled
                    /\ queue'[i].call # NoCall => queue'[i].slot = slot'[queue'[i].call]
                    /\ queue'[i].call # NoCall /\ hidden'[queue'[i].call]
                         => queue'[i].type = "unanswered"
  BY DEF Labelled
<1>m. PICK m : m = queue'[i]
  OBVIOUS
<1>1. CASE New(d, i)
  <2>1. News(d, m)
    BY <1>1, <1>m DEF Posting
  <2>2. CASE m.call = NoCall
    <3>1. m.call \notin Calls /\ m.call \notin Active
      BY <2>2, CallsFinite DEF Active
    <3> QED BY <1>m, <2>1, <2>2, <3>1 DEF News, Unlabelled
  <2>3. CASE m.call \in Active
    <3>1. m.call \in Calls /\ m.call # NoCall
      BY <2>3, CallsFinite DEF Active
    <3>2. ~Begins(m.call)
      BY <3>1, <2>3, CallGoes, ActiveIs DEF Going
    <3>3. UNCHANGED <<slot[m.call], hidden[m.call]>>
      BY <3>1, <3>2, CallGoes
    <3> QED BY <1>m, <2>1, <2>3, <3>1, <3>2, <3>3 DEF News, Unlabelled
  <2>4. CASE m.call \in Calls /\ Begins(m.call)
    <3>1. m.call # NoCall /\ m.call \notin Active
      BY <2>4, CallsFinite, CallGoes, ActiveIs DEF Going
    <3> QED BY <1>m, <2>1, <2>4, <3>1 DEF News, Unlabelled
  <2> QED BY <2>1, <2>2, <2>3, <2>4 DEF News
<1>2. CASE ~New(d, i)
  <2>1. i + d \in 1..Len(queue) /\ m = queue[i + d]
    BY <1>2, <1>m, QueueGoes
  <2>2. CASE m.call # NoCall
    <3>1. m.call \in Calls /\ ~Begins(m.call)
      BY <2>1, <2>2, MessageOf DEF Begins
    <3>2. UNCHANGED <<slot[m.call], hidden[m.call]>>
      BY <3>1, CallGoes
    <3> QED BY <1>m, <2>1, <2>2, <3>2 DEF Labelled
  <2>3. CASE m.call = NoCall
    BY <1>m, <2>1, <2>3 DEF Labelled
  <2> QED BY <2>2, <2>3
<1> QED BY <1>m, <1>1, <1>2

\* A call goes on, or has begun to end, or was lost, until its last message is handled.
LEMMA LastsOn ==
  ASSUME IInv, NEW d, Handles(d), CallsGo(d), NEW k \in Calls, ~hidden[k],
         k \in Active \/ Ends(k) \/ IsLost(k), ~(First(d, Lasting) /\ Head1.call = k)
  PROVE  k \in Active' \/ Ends(k)' \/ IsLost(k)'
<1>1. CASE k \in Active
  <2>1. CASE Posts(d, Msg(Ended[k], slot[k], k))
    <3>1. PICK i \in 1..Len(queue') : queue'[i] = Msg(Ended[k], slot[k], k)
      BY <2>1 DEF Posts
    <3>2. IsFinal(queue'[i]) /\ queue'[i].call = k
      BY <3>1, EndedType DEF Msg, IsFinal
    <3> QED BY <3>2 DEF Ends
  <2> QED BY <1>1, <2>1, CallGoes
<1>2. CASE Ends(k)
  <2>1. PICK i \in 1..Len(queue) : queue[i].call = k /\ IsFinal(queue[i])
    BY <1>2 DEF Ends
  <2>2. ~(i = 1 /\ d = 1 /\ queue[i] = Head1)
    BY <2>1 DEF First, Lasting, IsFinal
  <2>3. i - d \in 1..Len(queue') /\ queue'[i - d] = queue[i]
    BY <2>2, QueueGoes
  <2> QED BY <2>1, <2>3 DEF Ends, IsFinal
<1>3. CASE IsLost(k)
  BY <1>3, CallGoes
<1> QED BY <1>1, <1>2, <1>3

\* The slot that a call has alone stays its own as long as something names it.
LEMMA SoleOn ==
  ASSUME IInv, Labelled, NEW d, Handles(d), CallsGo(d), Posting(d), NEW k \in Calls,
         Sole(k), ~Begins(k), Here(k) \/ \E n \in Numbers : tab[n] = slot[k]
  PROVE  Sole(k)'
<1> SUFFICES ASSUME NEW x \in Calls, Here(x)', slot'[x] = slot'[k] PROVE x = k
  BY DEF Sole
<1>1. slot'[k] = slot[k]
  BY CallGoes
<1>2. CASE Begins(x)
  <2>1. /\ \A y \in Calls : Here(y) => slot[y] # slot'[x]
        /\ \A n \in Numbers : tab[n] # slot'[x]
    BY <1>2, BornApart
  <2> QED BY <1>1, <2>1
<1>3. CASE ~Begins(x)
  <2>1. Here(x) /\ slot'[x] = slot[x]
    BY <1>3, HereGoes, CallGoes
  <2> QED BY <1>1, <2>1 DEF Sole
<1> QED BY <1>2, <1>3

\* What was shown by a tab still is, or its call has begun to end.
LEMMA ShownOn ==
  ASSUME IInv, Labelled, NEW d, Handles(d), CallsGo(d), Posting(d),
         NEW n \in Numbers, NEW k \in Calls, Shown(n, k), tab'[n] = tab[n],
         ~(First(d, Lasting) /\ Head1.call = k)
  PROVE  Shown(n, k)'
<1>1. /\ slot[k] = tab[n] /\ number[k] = n /\ ~hidden[k] /\ Sole(k)
      /\ k \in Active \/ Ends(k) \/ IsLost(k)
  BY DEF Shown
<1>2. ~Begins(k)
  BY <1>1, HereIs, CallGoes DEF Begins, IsLost
<1>3. UNCHANGED <<slot[k], number[k], hidden[k]>>
  BY <1>2, CallGoes
<1>4. k \in Active' \/ Ends(k)' \/ IsLost(k)'
  BY <1>1, LastsOn
<1>5. Sole(k)'
  BY <1>1, <1>2, SoleOn
<1> QED BY <1>1, <1>3, <1>4, <1>5 DEF Shown

LEMMA TabsShowKept ==
  ASSUME IInv, OneHere, Labelled, TabsShow, NEW d, Handles(d), CallsGo(d), Posting(d),
         TabsGo(d)
  PROVE  TabsShow'
<1> SUFFICES ASSUME NEW n \in Numbers, tab'[n] \in Slots PROVE \E k \in Calls : Shown(n, k)'
  BY DEF TabsShow
<1>1. CASE tab'[n] = tab[n]
  <2>1. PICK k \in Calls : Shown(n, k)
    BY <1>1 DEF TabsShow
  <2>2. ~(First(d, Lasting) /\ Head1.call = k)
    <3> SUFFICES ASSUME First(d, Lasting), Head1.call = k PROVE FALSE
      OBVIOUS
    <3>1. 1 \in 1..Len(queue) /\ Head1 = queue[1] /\ k # NoCall
      BY HeadHere, CallsFinite DEF First
    <3>2. Head1.slot = slot[k]
      BY <3>1 DEF Labelled
    <3> QED BY <1>1, <2>1, <3>2 DEF TabsGo, Shown, Lasting
  <2> QED BY <1>1, <2>1, <2>2, ShownOn
<1>2. CASE First(d, Giving) /\ number[Head1.call] = n /\ tab'[n] = Head1.slot
  <2>1. 1 \in 1..Len(queue) /\ Head1 = queue[1] /\ d = 1
    BY <1>2, HeadHere DEF First
  <2>2. PICK k : k = Head1.call
    OBVIOUS
  <2>3. k # NoCall /\ ~IsFinal(queue[1])
    BY <1>2, <2>1, <2>2 DEF Labelled, First, Giving, States1, Unlabelled, IsFinal
  <2>4. k \in Active \/ Ends(k) \/ IsLost(k)
    BY <2>1, <2>2, <2>3, MessageOf
  <2>5. k \in Calls /\ inv[k] # "none"
    BY <2>1, <2>2, <2>3, MessageOf
  <2>6. Head1.slot = slot[k] /\ ~hidden[k]
    BY <1>2, <2>1, <2>2, <2>3, <2>5, <1>2 DEF Labelled, First, Giving, States1, IInv, CoreInv, CoreType
  <2>7. ~Begins(k) /\ UNCHANGED <<slot[k], number[k], hidden[k]>>
    BY <2>5, CallGoes DEF Begins
  <2>8. k \in Active' \/ Ends(k)' \/ IsLost(k)'
    <3>1. ~(First(d, Lasting) /\ Head1.call = k)
      BY <1>2 DEF First, Giving, States1, Lasting
    <3> QED BY <2>4, <2>5, <2>6, <3>1, LastsOn
  <2>9. Sole(k)'
    <3>1. Here(k)
      BY <2>1, <2>2 DEF Here
    <3>2. Sole(k)
      BY <2>5, <3>1 DEF OneHere, Sole
    <3> QED BY <2>5, <2>7, <3>1, <3>2, SoleOn
  <2> QED BY <1>2, <2>2, <2>5, <2>6, <2>7, <2>8, <2>9 DEF Shown
<1>3. CASE \E k \in Calls : /\ Begins(k) /\ inv'[k] = "calling" /\ ~hidden'[k]
                            /\ number'[k] = n /\ slot'[k] = tab'[n]
  <2>1. PICK k \in Calls : /\ Begins(k) /\ inv'[k] = "calling" /\ ~hidden'[k]
                           /\ number'[k] = n /\ slot'[k] = tab'[n]
    BY <1>3
  <2>2. k \in Active'
    BY <2>1, ActiveNext DEF Going
  <2>3. Sole(k)'
    <3>1. OneHere' /\ Here(k)'
      BY <2>2, OneHereKept DEF Here, Enum
    <3> QED BY <3>1 DEF OneHere, Sole
  <2> QED BY <2>1, <2>2, <2>3 DEF Shown
<1> QED BY <1>1, <1>2, <1>3 DEF TabsGo

-----------------------------------------------------------------------------
LEMMA OnePerNumberKept ==
  ASSUME IInv, OnePerNumber, NEW d, CallsGo(d)
  PROVE  OnePerNumber'
<1> SUFFICES ASSUME NEW a \in Active', NEW b \in Active', number'[a] = number'[b]
             PROVE  a = b
  BY DEF OnePerNumber
<1>1. a \in Calls /\ b \in Calls
  BY DEF Active
<1>2. /\ (a \in Active /\ ~Begins(a)) \/ Begins(a)
      /\ (b \in Active /\ ~Begins(b)) \/ Begins(b)
  BY <1>1, CallGoes, ActiveIs DEF Begins, Going
<1>3. inv'[a] \in Going /\ inv'[b] \in Going
  BY <1>1, ActiveNext
<1>4. CASE Begins(a) /\ Begins(b)
  BY <1>1, <1>4, CallGoes DEF Born
<1>5. CASE Begins(a) /\ b \in Active /\ ~Begins(b)
  <2>1. number[b] # number'[a] /\ number'[b] = number[b]
    BY <1>1, <1>3, <1>5, CallGoes DEF Born
  <2> QED BY <2>1
<1>6. CASE Begins(b) /\ a \in Active /\ ~Begins(a)
  <2>1. number[a] # number'[b] /\ number'[a] = number[a]
    BY <1>1, <1>3, <1>6, CallGoes DEF Born
  <2> QED BY <2>1
<1>7. CASE a \in Active /\ b \in Active /\ ~Begins(a) /\ ~Begins(b)
  BY <1>1, <1>7, CallGoes DEF OnePerNumber
<1> QED BY <1>2, <1>4, <1>5, <1>6, <1>7

LEMMA InTurnKept ==
  ASSUME IInv, Labelled, OnePerNumber, InTurn, NEW d, Handles(d), CallsGo(d), Posting(d)
  PROVE  InTurn'
<1> SUFFICES ASSUME NEW k \in Active', NEW x \in Calls, x # k, number'[x] = number'[k], ~hidden'[x],
                    NEW i \in 1..Len(queue'), NEW j \in 1..Len(queue'),
                    queue'[i].call = x, IsFinal(queue'[i]), queue'[j].call = k
             PROVE  i < j
  BY DEF InTurn, IsFinal
<1>1. k \in Calls /\ k # NoCall /\ x # NoCall /\ inv'[k] \in Going
  BY CallsFinite, ActiveNext DEF Active
<1>2. ~New(d, i) => /\ ~Begins(x) /\ i + d \in 1..Len(queue) /\ queue[i + d].call = x
                    /\ IsFinal(queue[i + d])
  <2> SUFFICES ASSUME ~New(d, i)
               PROVE  /\ ~Begins(x) /\ i + d \in 1..Len(queue) /\ queue[i + d].call = x
                      /\ IsFinal(queue[i + d])
    OBVIOUS
  <2>1. i + d \in 1..Len(queue) /\ queue'[i] = queue[i + d]
    BY QueueGoes
  <2> QED BY <1>1, <2>1, MessageOf DEF Begins
<1>3. ~New(d, j) => /\ ~Begins(k) /\ j + d \in 1..Len(queue) /\ queue[j + d].call = k
  <2> SUFFICES ASSUME ~New(d, j)
               PROVE  ~Begins(k) /\ j + d \in 1..Len(queue) /\ queue[j + d].call = k
    OBVIOUS
  <2>1. j + d \in 1..Len(queue) /\ queue'[j] = queue[j + d]
    BY QueueGoes
  <2> QED BY <1>1, <2>1, MessageOf DEF Begins
<1>4. New(d, i) => x \in Active /\ ~Begins(x)
  <2>1. New(d, i) => News(d, queue'[i])
    BY DEF Posting
  <2>2. x \in Active => ~Begins(x)
    BY CallGoes, ActiveIs DEF Going
  <2> QED BY <1>1, <2>1, <2>2 DEF News, IsFinal
<1>5. ~Begins(x) /\ number'[x] = number[x] /\ hidden'[x] = hidden[x]
  BY <1>2, <1>4, CallGoes
<1>6. CASE New(d, i)
  <2>1. CASE Begins(k)
    <3>1. number[x] # number'[k]
      BY <1>1, <1>4, <1>6, <2>1, CallGoes DEF Born
    <3> QED BY <1>5, <3>1
  <2>2. CASE ~Begins(k)
    <3>1. k \in Active /\ number'[k] = number[k]
      BY <1>1, <2>2, CallGoes
    <3> QED BY <1>4, <1>5, <1>6, <3>1 DEF OnePerNumber
  <2> QED BY <2>1, <2>2
<1>7. CASE ~New(d, i) /\ New(d, j)
  BY <1>7, QueueGoes
<1>8. CASE ~New(d, i) /\ ~New(d, j)
  <2>1. k \in Active /\ number'[k] = number[k]
    BY <1>1, <1>3, <1>8, CallGoes
  <2>2. i + d < j + d
    BY <1>2, <1>3, <1>5, <1>8, <2>1 DEF InTurn
  <2> QED BY <2>2, QueueGoes
<1> QED BY <1>6, <1>7, <1>8

LEMMA LostNumberOn ==
  ASSUME IInv, NEW d, CallsGo(d), NEW n \in Numbers, LostNumber(n)
  PROVE  LostNumber(n)'
<1>1. PICK x \in Calls : IsLost(x) /\ number[x] = n
  BY DEF LostNumber
<1>2. IsLost(x)' /\ ~Begins(x)
  BY <1>1, CallGoes DEF IsLost, Begins
<1>3. number'[x] = n
  BY <1>1, <1>2, CallGoes
<1> QED BY <1>2, <1>3 DEF LostNumber

LEMMA ReachesKept ==
  ASSUME IInv, OneHere, Labelled, TabsShow, OnePerNumber, InTurn, Reaches,
         NEW d, Handles(d), CallsGo(d), Posting(d), TabsGo(d)
  PROVE  Reaches'
<1> SUFFICES ASSUME NEW k \in Active', ~Ringing(k)'
             PROVE  \/ tab'[number'[k]] = slot'[k]
                    \/ LostNumber(number[k])'
                    \/ \E i \in 1..Len(queue') : queue'[i].call = k /\ queue'[i].type \in States1
  BY DEF Reaches
<1>1. k \in Calls /\ inv'[k] \in Going /\ k # NoCall
  BY CallsFinite, ActiveNext DEF Active
<1>2. CASE Begins(k)
  <2>1. inv'[k] = "calling"
    BY <1>1, <1>2, CallGoes DEF Born, Going, Ringing
  <2>2. PICK i \in 1..Len(queue') : queue'[i] = Msg("calling", slot'[k], k)
    BY <1>1, <1>2, <2>1, CallGoes DEF Born, Posts
  <2>3. queue'[i].call = k /\ queue'[i].type \in States1
    BY <2>2 DEF Msg, States1
  <2> QED BY <2>3
<1>3. CASE ~Begins(k) /\ Ringing(k)
  <2>1. Posts(d, Msg("answered", slot[k], k))
    BY <1>1, <1>3, CallGoes DEF Lives, Ringing, Going
  <2>2. PICK i \in 1..Len(queue') : queue'[i] = Msg("answered", slot[k], k)
    BY <2>1 DEF Posts
  <2>3. queue'[i].call = k /\ queue'[i].type \in States1
    BY <2>2 DEF Msg, States1
  <2> QED BY <2>3
<1>4. CASE ~Begins(k) /\ ~Ringing(k)
  <2>1. k \in Active /\ UNCHANGED <<slot[k], number[k]>>
    BY <1>1, <1>4, CallGoes
  <2>4. CASE LostNumber(number[k])
    <3>1. PICK n \in Numbers : n = number[k] /\ LostNumber(n)
      BY <1>1, <2>4 DEF IInv, UIType
    <3>2. LostNumber(n)' /\ number'[k] = n
      BY <2>1, <3>1, LostNumberOn
    <3> QED BY <3>2 DEF LostNumber
  <2>2. CASE tab[number[k]] = slot[k]
    BY <2>1, <2>2 DEF TabsGo
  <2>3. CASE \E i \in 1..Len(queue) : queue[i].call = k /\ queue[i].type \in States1
    <3>1. PICK i \in 1..Len(queue) : queue[i].call = k /\ queue[i].type \in States1
      BY <2>3
    <3>2. CASE i = 1 /\ d = 1 /\ queue[i] = Head1
      <4>1. First(d, States1) /\ Head1.call = k
        BY <3>1, <3>2 DEF First
      <4>2. Head1.slot = slot[k]
        BY <1>1, <3>1, <3>2 DEF Labelled
      <4>3. tab'[number[k]] = slot[k] \/ LostNumber(number[k])
        BY <2>1, <4>1, <4>2 DEF TabsGo
      <4> QED BY <2>1, <2>4, <4>3
    <3>3. CASE i - d \in 1..Len(queue') /\ queue'[i - d] = queue[i]
      BY <3>1, <3>3
    <3> QED BY <3>2, <3>3, QueueGoes
  <2> QED BY <1>4, <2>1, <2>2, <2>3, <2>4 DEF Reaches
<1> QED BY <1>2, <1>3, <1>4

-----------------------------------------------------------------------------
\* A message that closes a dialog stays in the queue.
LEMMA ClosedOn ==
  ASSUME IInv, NEW d, Handles(d), NEW k \in Calls, NEW from \in Nat, NEW to \in Nat,
         from = to + d, Closed(k, from)
  PROVE  Closed(k, to)'
<1>1. PICK i \in 1..Len(queue) : i > from /\ queue[i].call = k /\ queue[i].type \in Closers
  BY DEF Closed
<1>2. d \in {0, 1} /\ i \in Nat /\ i > d /\ i - d > to
  BY <1>1, QueueGoes
<1>3. PICK j \in 1..Len(queue') : j = i - d /\ queue'[j] = queue[i]
  BY <1>1, <1>2, QueueGoes
<1> QED BY <1>1, <1>2, <1>3 DEF Closed

LEMMA ClosedNow ==
  ASSUME IInv, NEW d, Handles(d), NEW k \in Calls, NEW t \in Closers, NEW s,
         Posts(d, Msg(t, s, k)), NEW to \in Nat, to + d <= Len(queue)
  PROVE  Closed(k, to)'
<1>1. PICK i \in 1..Len(queue') : New(d, i) /\ queue'[i] = Msg(t, s, k)
  BY DEF Posts
<1>2. i > to
  BY <1>1, QueueGoes DEF New
<1> QED BY <1>1, <1>2 DEF Closed, Msg

\* A call that rings, to which a dialog belongs, goes on ringing, or its closing
\* message is posted.
LEMMA RingsOn ==
  ASSUME IInv, NEW d, Handles(d), CallsGo(d), NEW k \in Calls, ~Begins(k), ~hidden[k],
         Ringing(k), NEW to \in Nat, to + d <= Len(queue)
  PROVE  Ringing(k)' \/ Closed(k, to)'
<1>1. \/ Ringing(k)' \/ Posts(d, Msg("answered", slot[k], k))
      \/ Posts(d, Msg("unanswered", slot[k], k))
  BY CallGoes
<1> QED BY <1>1, ClosedNow DEF Closers

\* Where the dialogs, or the closing messages, of a call are
LEMMA RungIs ==
  ASSUME IInv, NEW s, NEW k \in Calls, Rung(s, k)
  PROVE  Here(k)
<1>1. CASE Ringing(k)
  BY <1>1, HereIs, ActiveIs DEF Ringing, Going
<1>2. CASE Closed(k, 0)
  BY <1>2 DEF Closed, Here
<1> QED BY <1>1, <1>2 DEF Rung

LEMMA DialogsShowKept ==
  ASSUME IInv, OneHere, Labelled, DialogsShow, DialogsCome,
         NEW d, Handles(d), CallsGo(d), DialogsGo(d)
  PROVE  DialogsShow'
<1>1. ASSUME NEW i \in 1..Len(dialogs'), NEW s, s = dialogs'[i] PROVE \E k \in Calls : Rung(s, k)'
  <2>1. ASSUME NEW k \in Calls, slot[k] = s, role[k] = "in", ~hidden[k], ~Begins(k),
               Ringing(k)' \/ Closed(k, 0)'
        PROVE  Rung(s, k)'
    <3>1. UNCHANGED <<slot[k], role[k], hidden[k]>>
      BY <2>1, CallGoes
    <3> QED BY <2>1, <3>1 DEF Rung
  <2>2. CASE \E j \in 1..Len(dialogs) : s = dialogs[j]
    <3>1. PICK k \in Calls : Rung(s, k)
      BY <2>2 DEF DialogsShow
    <3>2. Here(k) /\ ~Begins(k)
      BY <3>1, RungIs, CallGoes
    <3>3. CASE Ringing(k)
      <4>1. 0 + d <= Len(queue)
        BY QueueGoes DEF Handles
      <4>2. Ringing(k)' \/ Closed(k, 0)'
        BY <3>1, <3>2, <3>3, <4>1, RingsOn DEF Rung
      <4> QED BY <2>1, <3>1, <3>2, <4>2 DEF Rung
    <3>4. CASE Closed(k, 0)
      <4>1. PICK h \in 1..Len(queue) : queue[h].call = k /\ queue[h].type \in Closers
        BY <3>4 DEF Closed
      <4>2. CASE h = 1 /\ d = 1 /\ queue[h] = Head1
        <5>1. First(d, Closers) /\ Head1.call = k
          BY <4>1, <4>2 DEF First
        <5>2. Head1.slot = s
          <6>1. k # NoCall
            BY CallsFinite
          <6> QED BY <3>1, <4>1, <4>2, <6>1 DEF Labelled, Rung
        <5> QED BY <1>1, <3>1, <5>1, <5>2 DEF DialogsGo, Rung
      <4>3. CASE h - d \in 1..Len(queue') /\ queue'[h - d] = queue[h]
        <5>1. PICK j \in 1..Len(queue') : j > 0 /\ queue'[j] = queue[h]
          BY <4>3
        <5>2. Closed(k, 0)'
          BY <4>1, <5>1 DEF Closed
        <5> QED BY <2>1, <3>1, <3>2, <5>2 DEF Rung
      <4> QED BY <4>2, <4>3, QueueGoes
    <3> QED BY <3>1, <3>3, <3>4 DEF Rung
  <2>3. CASE /\ First(d, {"create"}) /\ s = Head1.slot
             /\ \E k \in At(Head1.slot) : data[k] = "attached"
    <3>1. 1 \in 1..Len(queue) /\ Head1 = queue[1] /\ d = 1
      BY <2>3, HeadHere DEF First
    <3>2. PICK k \in At(s) : data[k] = "attached"
      BY <2>3
    <3>3. k \in Enum /\ k \in Calls /\ slot[k] = s /\ k \in Active
      BY <3>2 DEF At, Enum, Active, IInv, CoreInv, Mirror
    <3>4. role[k] = "in" /\ ~hidden[k] /\ (Ringing(k) \/ Closed(k, 1))
      BY <2>3, <3>1, <3>2, <3>3 DEF DialogsCome, First
    <3>5. role[k] = "in" /\ ~hidden[k]
      BY <2>3, <3>1, <3>2, <3>3 DEF DialogsCome, First
    <3>6. ~Begins(k)
      BY <3>3, HereIs, CallGoes
    <3>7. 0 + d <= Len(queue) /\ 1 = 0 + d
      BY <3>1, QueueGoes
    <3>8. Ringing(k)' \/ Closed(k, 0)'
      BY <3>1, <3>3, <3>4, <3>5, <3>6, <3>7, RingsOn, ClosedOn
    <3> QED BY <2>1, <3>1, <3>3, <3>5, <3>6, <3>8
  <2> QED BY <1>1, <2>2, <2>3 DEF DialogsGo
<1> QED BY <1>1 DEF DialogsShow, DialogsGo

LEMMA DialogsComeKept ==
  ASSUME IInv, OneHere, Labelled, DialogsShow, DialogsCome, Announced,
         NEW d, Handles(d), CallsGo(d), Posting(d), DialogsGo(d)
  PROVE  DialogsCome'
<1> SUFFICES ASSUME NEW i \in 1..Len(queue'), queue'[i].type = "create", NEW s, s = queue'[i].slot
             PROVE  /\ \A k \in At(s)' :
                         /\ role'[k] = "in" /\ ~hidden'[k]
                         /\ Ringing(k)' \/ k \notin Active' \/ Closed(k, i)'
                    /\ \A j \in 1..Len(dialogs') : dialogs'[j] # s
                    /\ \A j \in 1..Len(queue') :
                         queue'[j].type = "create" /\ queue'[j].slot = s => j = i
  BY DEF DialogsCome
<1>1. i \in Nat /\ Len(queue) \in Nat /\ Len(queue') \in Nat /\ d \in {0, 1}
  BY QueueGoes
<1>2. CASE ~New(d, i)
  <2>1. /\ i + d \in 1..Len(queue) /\ queue[i + d].type = "create" /\ queue[i + d].slot = s
        /\ i + d > d
    BY <1>2, QueueGoes
  <2>2. ASSUME NEW k \in At(s)'
        PROVE  /\ role'[k] = "in" /\ ~hidden'[k]
               /\ Ringing(k)' \/ k \notin Active' \/ Closed(k, i)'
    <3>1. k \in Calls /\ k \in Enum' /\ slot'[k] = s
      BY DEF At, Enum, Active
    <3>2. ~Begins(k)
      BY <2>1, <3>1, CallGoes DEF Born
    <3>3. k \in At(s) /\ UNCHANGED <<slot[k], role[k], hidden[k]>>
      BY <3>1, <3>2, CallGoes DEF At
    <3>4. /\ role[k] = "in" /\ ~hidden[k]
          /\ Ringing(k) \/ k \notin Active \/ Closed(k, i + d)
      BY <2>1, <3>3 DEF DialogsCome
    <3>5. CASE k \notin Active
      BY <3>1, <3>2, <3>3, <3>4, <3>5, CallGoes
    <3>6. CASE Ringing(k) \/ Closed(k, i + d)
      <4>1. i + d \in Nat /\ i + d <= Len(queue)
        BY <1>1, <2>1
      <4>2. Ringing(k)' \/ Closed(k, i)'
        BY <1>1, <3>1, <3>2, <3>4, <3>6, <4>1, RingsOn, ClosedOn
      <4> QED BY <3>3, <3>4, <4>2
    <3> QED BY <3>4, <3>5, <3>6
  <2>3. ASSUME NEW j \in 1..Len(dialogs') PROVE dialogs'[j] # s
    <3>1. CASE \E h \in 1..Len(dialogs) : dialogs'[j] = dialogs[h]
      BY <2>1, <3>1 DEF DialogsCome
    <3>2. CASE First(d, {"create"}) /\ dialogs'[j] = Head1.slot
      <4>1. 1 \in 1..Len(queue) /\ Head1 = queue[1] /\ d = 1 /\ Head1.type = "create"
        BY <3>2, HeadHere DEF First
      <4>2. i + d # 1
        BY <1>1, <4>1
      <4>3. Head1.slot # s
        BY <2>1, <4>1, <4>2 DEF DialogsCome
      <4> QED BY <3>2, <4>3
    <3> QED BY <3>1, <3>2 DEF DialogsGo
  <2>4. ASSUME NEW j \in 1..Len(queue'), queue'[j].type = "create", queue'[j].slot = s
        PROVE  j = i
    <3>1. CASE ~New(d, j)
      <4>1. j + d \in 1..Len(queue) /\ queue[j + d] = queue'[j]
        BY <3>1, QueueGoes
      <4>2. j + d = i + d
        BY <2>1, <2>4, <4>1 DEF DialogsCome
      <4> QED BY <1>1, <4>2
    <3>2. CASE New(d, j)
      <4>1. News(d, queue'[j])
        BY <3>2 DEF Posting
      <4>2. First(d, {"incoming"}) /\ s = Head1.slot
        BY <2>4, <4>1 DEF News
      <4>3. 1 \in 1..Len(queue) /\ Head1 = queue[1] /\ Head1.type = "incoming"
        BY <4>2, HeadHere DEF First
      <4>4. Head1.call # NoCall /\ Head1.slot = slot[Head1.call]
        BY <4>3 DEF Labelled, Unlabelled
      <4> QED BY <2>1, <4>2, <4>3, <4>4 DEF Announced
    <3> QED BY <3>1, <3>2
  <2> QED BY <2>2, <2>3, <2>4
<1>3. CASE New(d, i)
  <2>1. News(d, queue'[i])
    BY <1>3 DEF Posting
  <2>2. First(d, {"incoming"}) /\ s = Head1.slot /\ d = 1
    BY <2>1 DEF News, First
  <2>3. 1 \in 1..Len(queue) /\ Head1 = queue[1] /\ Head1.type = "incoming"
    BY <2>2, HeadHere DEF First
  <2> PICK c : c = Head1.call
    OBVIOUS
  <2>4. c # NoCall /\ s = slot[c]
    BY <2>2, <2>3 DEF Labelled, Unlabelled
  <2>5. c \in Calls /\ Here(c)
    BY <2>3, <2>4, MessageOf DEF Here
  <2>6. /\ role[c] = "in" /\ ~hidden[c]
        /\ \/ Ringing(c)
           \/ \E j \in 1..Len(queue) : queue[j].call = c /\ queue[j].type = "unanswered"
        /\ \A j \in 1..Len(queue) : queue[j].slot = slot[c] => queue[j].type # "create"
        /\ \A j \in 1..Len(dialogs) : dialogs[j] # slot[c]
    BY <2>3 DEF Announced
  <2>7. ASSUME NEW k \in At(s)'
        PROVE  /\ role'[k] = "in" /\ ~hidden'[k]
               /\ Ringing(k)' \/ k \notin Active' \/ Closed(k, i)'
    <3>1. k \in Calls /\ k \in Enum' /\ slot'[k] = s
      BY DEF At, Enum, Active
    <3>2. ~Begins(k)
      BY <2>2, <3>1, CallGoes
    <3>3. Here(k) /\ UNCHANGED <<slot[k], role[k], hidden[k]>>
      BY <3>1, <3>2, CallGoes DEF Here
    <3>4. k = c
      BY <2>4, <2>5, <3>1, <3>3 DEF OneHere
    <3>5. CASE Ringing(c)
      <4>1. inv' = inv
        BY <2>1, <2>2 DEF News
      <4>2. Ringing(k)'
        BY <3>4, <3>5, <4>1 DEF Ringing
      <4> QED BY <2>6, <3>3, <3>4, <4>2
    <3>6. CASE \E j \in 1..Len(queue) : queue[j].call = c /\ queue[j].type = "unanswered"
      <4>1. c \notin Active
        BY <2>4, <3>6, MessageOf DEF IsFinal
      <4>2. k \notin Active'
        BY <3>1, <3>2, <3>4, <4>1, CallGoes
      <4> QED BY <2>6, <3>3, <3>4, <4>2
    <3> QED BY <2>6, <3>5, <3>6
  <2>8. ASSUME NEW j \in 1..Len(dialogs') PROVE dialogs'[j] # s
    <3>1. ~First(d, {"create"})
      BY <2>3 DEF First
    <3> QED BY <2>4, <2>6, <3>1 DEF DialogsGo
  <2>9. ASSUME NEW j \in 1..Len(queue'), queue'[j].type = "create", queue'[j].slot = s
        PROVE  j = i
    <3>1. CASE ~New(d, j)
      <4>1. j + d \in 1..Len(queue) /\ queue[j + d] = queue'[j]
        BY <3>1, QueueGoes
      <4> QED BY <2>4, <2>6, <2>9, <4>1
    <3>2. CASE New(d, j)
      BY <1>3, <2>9, <3>2 DEF Posting
    <3> QED BY <3>1, <3>2
  <2> QED BY <2>7, <2>8, <2>9
<1> QED BY <1>2, <1>3

-----------------------------------------------------------------------------
LEMMA AnnouncedKept ==
  ASSUME IInv, OneHere, Labelled, TabsShow, DialogsShow, Announced,
         NEW d, Handles(d), CallsGo(d), Posting(d), TabsGo(d), DialogsGo(d)
  PROVE  Announced'
<1> SUFFICES ASSUME NEW i \in 1..Len(queue'), queue'[i].type = "incoming",
                    NEW k, k = queue'[i].call
             PROVE  /\ role'[k] = "in" /\ ~hidden'[k]
                    /\ \/ Ringing(k)'
                       \/ \E j \in 1..Len(queue') :
                            queue'[j].call = k /\ queue'[j].type = "unanswered"
                    /\ \A j \in 1..Len(queue') :
                         queue'[j].slot = slot'[k] => j >= i /\ queue'[j].type # "create"
                    /\ \A j \in 1..Len(dialogs') : dialogs'[j] # slot'[k]
                    /\ \A n \in Numbers : tab'[n] # slot'[k]
  BY DEF Announced
<1>1. i \in Nat /\ Len(queue) \in Nat /\ Len(queue') \in Nat /\ d \in {0, 1}
  BY QueueGoes
<1>2. CASE ~New(d, i)
  <2> DEFINE g == i + d
  <2>1. /\ g \in 1..Len(queue) /\ queue[g].type = "incoming" /\ queue[g].call = k
        /\ d = 1 => g > 1
    BY <1>1, <1>2, QueueGoes
  <2>2. k # NoCall /\ queue[g].slot = slot[k]
    BY <2>1 DEF Labelled, Unlabelled
  <2>3. k \in Calls /\ ~Begins(k)
    BY <2>1, <2>2, MessageOf DEF Begins
  <2>4. UNCHANGED <<slot[k], role[k], hidden[k]>>
    BY <2>3, CallGoes
  <2> HIDE DEF g
  <2>5. /\ role[k] = "in" /\ ~hidden[k]
        /\ \/ Ringing(k)
           \/ \E j \in 1..Len(queue) : queue[j].call = k /\ queue[j].type = "unanswered"
        /\ \A j \in 1..Len(queue) : queue[j].slot = slot[k] => j >= g /\ queue[j].type # "create"
        /\ \A j \in 1..Len(dialogs) : dialogs[j] # slot[k]
        /\ \A n \in Numbers : tab[n] # slot[k]
    BY <2>1 DEF Announced
  \* The message that is handled is not of this slot.
  <2>6. d = 1 => Head1.slot # slot[k]
    <3>1. d = 1 => 1 \in 1..Len(queue) /\ Head1 = queue[1] /\ ~(1 >= g)
      BY <2>1, HeadHere
    <3> QED BY <2>5, <3>1
  <2>7. \/ Ringing(k)'
        \/ \E j \in 1..Len(queue') : queue'[j].call = k /\ queue'[j].type = "unanswered"
    <3>1. CASE Ringing(k)
      <4>1. ~(inv[k] = "ringing" /\ inv'[k] = "connecting")
        <5>1. g > d
          BY <1>1, <2>1
        <5> QED BY <2>1, <2>2, <2>3, <5>1, CallGoes DEF Lives
      <4>2. Ringing(k)' \/ Posts(d, Msg(Ended[k], slot[k], k))
        BY <2>3, <2>5, <3>1, <4>1, CallGoes DEF Lives, Ringing
      <4>3. CASE Posts(d, Msg(Ended[k], slot[k], k))
        <5>1. PICK j \in 1..Len(queue') : queue'[j] = Msg(Ended[k], slot[k], k)
          BY <4>3 DEF Posts
        <5>2. Ended[k] = "unanswered"
          BY <2>3, <3>1 DEF Ringing, Ended
        <5>3. queue'[j].call = k /\ queue'[j].type = "unanswered"
          BY <5>1, <5>2 DEF Msg
        <5> QED BY <5>3
      <4> QED BY <4>2, <4>3
    <3>2. CASE \E j \in 1..Len(queue) : queue[j].call = k /\ queue[j].type = "unanswered"
      <4>1. PICK j \in 1..Len(queue) : queue[j].call = k /\ queue[j].type = "unanswered"
        BY <3>2
      <4>2. ~(j = 1 /\ d = 1)
        <5>1. g <= j
          BY <2>1, <4>1, LastIsLast DEF IsFinal
        <5> QED BY <2>1, <5>1
      <4>3. j - d \in 1..Len(queue') /\ queue'[j - d] = queue[j]
        BY <4>2, QueueGoes
      <4> QED BY <4>1, <4>3
    <3> QED BY <2>5, <3>1, <3>2
  <2>8. ASSUME NEW j \in 1..Len(queue'), queue'[j].slot = slot[k]
        PROVE  j >= i /\ queue'[j].type # "create"
    <3>1. CASE ~New(d, j)
      <4>1. j + d \in 1..Len(queue) /\ queue'[j] = queue[j + d]
        BY <3>1, QueueGoes
      <4>2. j + d >= g /\ queue'[j].type # "create"
        BY <2>5, <2>8, <4>1
      <4> QED BY <1>1, <4>1, <4>2 DEF g
    <3>2. CASE New(d, j)
      <4>1. j >= i
        BY <1>1, <1>2, <3>2, QueueGoes
      <4>2. News(d, queue'[j])
        BY <3>2 DEF Posting
      <4>3. queue'[j].type = "create" => d = 1 /\ queue'[j].slot = Head1.slot
        BY <4>2 DEF News, First
      <4> QED BY <2>6, <2>8, <4>1, <4>3
    <3> QED BY <3>1, <3>2
  <2>9. ASSUME NEW j \in 1..Len(dialogs') PROVE dialogs'[j] # slot[k]
    BY <2>5, <2>6 DEF DialogsGo, First
  <2>10. ASSUME NEW n \in Numbers PROVE tab'[n] # slot[k]
    <3>1. slot[k] \in Slots
      BY <2>1, <2>2, QueueIs
    <3>2. \A x \in Calls : Begins(x) => slot'[x] # slot[k]
      BY <2>1, <2>2, CallGoes DEF Born
    <3>3. ~(First(d, Giving) /\ tab'[n] = Head1.slot) \/ tab'[n] # slot[k]
      BY <2>6 DEF First
    <3> QED BY <2>5, <3>1, <3>2, <3>3 DEF TabsGo
  <2> QED BY <2>4, <2>5, <2>7, <2>8, <2>9, <2>10
<1>3. CASE New(d, i)
  <2>1. News(d, queue'[i])
    BY <1>3 DEF Posting
  <2>2. k \in Calls /\ Begins(k) /\ ~hidden'[k] /\ role'[k] = "in" /\ inv'[k] = "ringing"
    BY <2>1 DEF News
  <2>3. Ringing(k)'
    BY <2>2 DEF Ringing
  <2>4. d = 0 /\ Born(k)
    BY <2>2, CallGoes
  <2>5. /\ \A x \in Calls : Here(x) => slot[x] # slot'[k]
        /\ \A j \in 1..Len(queue) : queue[j].slot # slot'[k]
        /\ \A x \in Calls : x # k => ~Begins(x)
    BY <2>2, BornApart
  <2>6. ASSUME NEW j \in 1..Len(queue'), queue'[j].slot = slot'[k]
        PROVE  j >= i /\ queue'[j].type # "create"
    <3>1. CASE ~New(d, j)
      <4>1. j + d \in 1..Len(queue) /\ queue'[j] = queue[j + d]
        BY <3>1, QueueGoes
      <4> QED BY <2>5, <2>6, <4>1
    <3>2. CASE New(d, j)
      <4>1. j = i
        BY <1>3, <3>2 DEF Posting
      <4> QED BY <1>1, <4>1
    <3> QED BY <3>1, <3>2
  <2>7. ASSUME NEW j \in 1..Len(dialogs') PROVE dialogs'[j] # slot'[k]
    <3>1. PICK h \in 1..Len(dialogs) : dialogs'[j] = dialogs[h]
      BY <2>4 DEF DialogsGo, First
    <3>2. PICK x \in Calls : Rung(dialogs[h], x)
      BY DEF DialogsShow
    <3>3. Here(x) /\ slot[x] = dialogs[h]
      BY <3>2, RungIs DEF Rung
    <3> QED BY <2>5, <3>1, <3>3
  <2>8. ASSUME NEW n \in Numbers PROVE tab'[n] # slot'[k]
    <3>1. slot'[k] \in Slots
      BY <2>4 DEF Born
    <3>2. CASE tab'[n] = tab[n] /\ tab[n] \in Slots
      BY <2>4, <3>2 DEF Born
    <3>3. CASE \E x \in Calls : Begins(x) /\ inv'[x] = "calling" /\ slot'[x] = tab'[n]
      BY <2>2, <2>5, <3>3
    <3> QED BY <2>4, <3>1, <3>2, <3>3 DEF TabsGo, First
  <2> QED BY <2>2, <2>3, <2>6, <2>7, <2>8
<1> QED BY <1>2, <1>3

LEMMA RingEndsKept ==
  ASSUME IInv, OneHere, Labelled, DialogsCome, Announced, RingEnds,
         NEW d, Handles(d), CallsGo(d), Posting(d), DialogsGo(d), RingGoes(d)
  PROVE  RingEnds'
<1> DEFINE Silences(i) == /\ queue'[i].type \in Closers
                          /\ role'[queue'[i].call] = "in"
           Opens(i) == /\ queue'[i].type = "create"
                       /\ \A k \in Enum' : slot'[k] = queue'[i].slot => Ringing(k)'
<1> SUFFICES ASSUME ring', Len(dialogs') = 0
             PROVE  \/ \E i \in 1..Len(queue') : Silences(i)
                    \/ \E i \in 1..Len(queue') : Opens(i)
  BY DEF RingEnds, At
<1>1. Len(queue) \in Nat /\ Len(queue') \in Nat /\ d \in {0, 1}
  BY QueueGoes
\* A closing message of an incoming call that is still to come
<1>2. ASSUME NEW i \in 1..Len(queue), queue[i].type \in Closers,
             role[queue[i].call] = "in", ~(i = 1 /\ d = 1)
      PROVE  \E j \in 1..Len(queue') : Silences(j)
  <2>1. i - d \in 1..Len(queue') /\ queue'[i - d] = queue[i]
    BY <1>2, QueueGoes
  <2>2. queue[i].call # NoCall
    BY <1>2 DEF Labelled, Unlabelled, Closers
  <2>3. PICK k \in Calls : k = queue[i].call /\ ~Begins(k)
    BY <2>2, MessageOf DEF Begins
  <2>4. role'[k] = role[k]
    BY <2>3, CallGoes
  <2>5. Silences(i - d)
    BY <1>2, <2>1, <2>3, <2>4
  <2> QED BY <2>1, <2>5
\* A dialog to come of calls that ring
<1>3. ASSUME NEW i \in 1..Len(queue), queue[i].type = "create", ~(i = 1 /\ d = 1),
             NEW s, s = queue[i].slot, \A k \in At(s) : Ringing(k)
      PROVE  \/ \E j \in 1..Len(queue') : Silences(j)
             \/ \E j \in 1..Len(queue') : Opens(j)
  <2>1. PICK h \in 1..Len(queue') : h = i - d /\ queue'[h] = queue[i]
    BY <1>3, QueueGoes
  <2>2. ASSUME NEW k \in At(s)'
        PROVE  k \in At(s) /\ ~Begins(k) /\ k \in Calls
    <3>1. k \in Calls /\ k \in Enum' /\ slot'[k] = s
      BY DEF At, Enum, Active
    <3>2. ~Begins(k)
      BY <1>3, <3>1, CallGoes DEF Born
    <3> QED BY <3>1, <3>2, CallGoes DEF At
  <2>3. CASE \A k \in At(s)' : Ringing(k)'
    <3>1. Opens(h)
      BY <1>3, <2>1, <2>3 DEF At
    <3> QED BY <3>1
  <2>4. CASE ~\A k \in At(s)' : Ringing(k)'
    <3>1. PICK k \in At(s)' : ~Ringing(k)'
      BY <2>4
    <3>2. k \in At(s) /\ ~Begins(k) /\ k \in Calls
      BY <2>2
    <3>3. role[k] = "in" /\ ~hidden[k] /\ Ringing(k)
      BY <1>3, <3>2 DEF DialogsCome
    <3>4. role'[k] = "in"
      BY <3>2, <3>3, CallGoes
    <3>5. PICK t \in Closers : Posts(d, Msg(t, slot[k], k))
      BY <3>1, <3>2, <3>3, CallGoes DEF Closers
    <3>6. PICK j \in 1..Len(queue') : queue'[j] = Msg(t, slot[k], k)
      BY <3>5 DEF Posts
    <3>7. Silences(j)
      BY <3>4, <3>6 DEF Msg
    <3> QED BY <3>7
  <2> QED BY <2>3, <2>4
<1>4. CASE ring
  <2>1. Len(dialogs) = 0
    BY <1>4 DEF RingGoes
  <2>2. CASE \E i \in 1..Len(queue) : queue[i].type \in Closers /\ role[queue[i].call] = "in"
    <3>1. PICK i \in 1..Len(queue) : queue[i].type \in Closers /\ role[queue[i].call] = "in"
      BY <2>2
    <3>2. ~(i = 1 /\ d = 1)
      <4>1. i = 1 /\ d = 1 => First(d, Closers) /\ role[Head1.call] = "in"
        BY <3>1 DEF First, Head1
      <4> QED BY <4>1 DEF RingGoes
    <3> QED BY <1>2, <3>1, <3>2
  <2>3. CASE \E i \in 1..Len(queue) : /\ queue[i].type = "create"
                                      /\ \A k \in At(queue[i].slot) : Ringing(k)
    <3>1. PICK i \in 1..Len(queue) : /\ queue[i].type = "create"
                                     /\ \A k \in At(queue[i].slot) : Ringing(k)
      BY <2>3
    <3>2. ~(i = 1 /\ d = 1)
      <4> SUFFICES ASSUME i = 1, d = 1 PROVE FALSE
        OBVIOUS
      <4>1. First(d, {"create"}) /\ Head1 = queue[i]
        BY <3>1 DEF First, Head1
      <4>2. PICK k \in At(Head1.slot) : data[k] # "attached"
        BY <4>1 DEF RingGoes
      <4>3. k \in Calls /\ Ringing(k)
        BY <3>1, <4>1, <4>2 DEF At, Enum, Active
      <4>4. k \in Active
        BY <4>3, ActiveIs DEF Ringing, Going
      <4> QED BY <4>2, <4>3, <4>4 DEF IInv, CoreInv, Mirror
    <3> QED BY <1>3, <3>1, <3>2
  <2> QED BY <1>4, <2>1, <2>2, <2>3 DEF RingEnds
<1>5. CASE First(d, {"incoming"}) /\ Posts(d, Msg("create", Head1.slot, NoCall))
  <2>1. 1 \in 1..Len(queue) /\ Head1 = queue[1] /\ Head1.type = "incoming" /\ d = 1
    BY <1>5, HeadHere DEF First
  <2> PICK c, s : c = Head1.call /\ s = Head1.slot
    OBVIOUS
  <2>2. c # NoCall /\ s = slot[c]
    BY <2>1 DEF Labelled, Unlabelled
  <2>3. c \in Calls /\ Here(c)
    BY <2>1, <2>2, MessageOf DEF Here
  <2>4. /\ role[c] = "in"
        /\ \/ Ringing(c)
           \/ \E j \in 1..Len(queue) : queue[j].call = c /\ queue[j].type = "unanswered"
    BY <2>1 DEF Announced
  <2>5. CASE Ringing(c)
    <3>1. PICK i \in 1..Len(queue') : New(d, i) /\ queue'[i] = Msg("create", s, NoCall)
      BY <1>5 DEF Posts
    <3>2. queue'[i].type = "create" /\ queue'[i].slot = s
      BY <3>1 DEF Msg
    <3>3. News(d, queue'[i])
      BY <3>1 DEF Posting
    <3>4. inv' = inv
      BY <3>2, <3>3 DEF News
    <3>5. ASSUME NEW k \in At(s)' PROVE Ringing(k)'
      <4>1. k \in Calls /\ k \in Enum' /\ slot'[k] = s
        BY DEF At, Enum, Active
      <4>2. ~Begins(k)
        BY <3>4 DEF Begins
      <4>3. Here(k) /\ slot[k] = s
        BY <4>1, <4>2, CallGoes DEF Here
      <4>4. k = c
        BY <2>2, <2>3, <4>1, <4>3 DEF OneHere
      <4> QED BY <2>5, <3>4, <4>4 DEF Ringing
    <3>6. Opens(i)
      BY <3>2, <3>5 DEF At
    <3> QED BY <3>6
  <2>6. CASE \E j \in 1..Len(queue) : queue[j].call = c /\ queue[j].type = "unanswered"
    <3>1. PICK j \in 1..Len(queue) : queue[j].call = c /\ queue[j].type = "unanswered"
      BY <2>6
    <3>2. j # 1
      BY <2>1, <3>1
    <3> QED BY <1>2, <2>4, <3>1, <3>2 DEF Closers
  <2> QED BY <2>4, <2>5, <2>6
<1> QED BY <1>4, <1>5 DEF RingGoes

-----------------------------------------------------------------------------
(* The step as a whole *)

LEMMA WindowsKept ==
  ASSUME WInv, NEW d, Steps(d)
  PROVE  Windows'
BY OneHereKept, LabelledKept, TabsShowKept, DialogsShowKept, DialogsComeKept,
   AnnouncedKept, RingEndsKept, OnePerNumberKept, InTurnKept, ReachesKept
   DEF WInv, Windows, Steps

-----------------------------------------------------------------------------
(* What the actions do to the queue *)

\* What a handler that has taken the first d messages leaves
Left(d) == IF d = 0 THEN queue ELSE Rest

\* Its message is there.
Takeable(d) == d = 0 \/ (d = 1 /\ queue # <<>>)

LEMMA LeftIs ==
  ASSUME IInv, NEW d, Takeable(d)
  PROVE  /\ d \in {0, 1} /\ d <= Len(queue) /\ Left(d) \in Seq(Message)
         /\ Len(Left(d)) \in Nat /\ Len(Left(d)) + d = Len(queue)
         /\ \A i \in 1..Len(Left(d)) : i + d \in 1..Len(queue) /\ Left(d)[i] = queue[i + d]
<1>1. queue \in Seq(Message) /\ Len(queue) \in Nat
  BY QueueIs
<1>2. CASE d = 0
  <2>1. Left(d) = queue
    BY <1>2 DEF Left
  <2>2. d \in {0, 1} /\ d <= Len(queue) /\ Len(queue) + d = Len(queue)
    BY <1>1, <1>2
  <2>3. ASSUME NEW i \in 1..Len(Left(d)) PROVE i + d \in 1..Len(queue) /\ Left(d)[i] = queue[i + d]
    <3>1. i + d = i
      BY <1>1, <1>2, <2>1
    <3> QED BY <2>1, <3>1
  <2> QED BY <1>1, <2>1, <2>2, <2>3
<1>3. CASE d = 1 /\ queue # <<>>
  <2>1. /\ Tail(queue) \in Seq(Message)
        /\ Len(Tail(queue)) = Len(queue) - 1
        /\ \A i \in 1..Len(Tail(queue)) : Tail(queue)[i] = queue[i + 1]
    BY <1>1, <1>3, HeadTailProperties
  <2>2. Len(queue) # 0
    BY <1>1, <1>3, EmptySeq
  <2>3. Left(d) = Tail(queue)
    BY <1>3 DEF Left, Rest
  <2>4. Left(d) \in Seq(Message) /\ Len(Left(d)) = Len(queue) - 1
    BY <2>1, <2>3
  <2>5. d \in {0, 1} /\ d <= Len(queue) /\ Len(Left(d)) \in Nat /\ Len(Left(d)) + d = Len(queue)
    BY <1>1, <1>3, <2>2, <2>4
  <2>6. ASSUME NEW i \in 1..Len(Left(d)) PROVE i + d \in 1..Len(queue) /\ Left(d)[i] = queue[i + d]
    <3>1. i + d = i + 1 /\ Left(d)[i] = queue[i + 1]
      BY <1>3, <2>1, <2>3
    <3> QED BY <1>1, <2>4, <3>1
  <2> QED BY <2>4, <2>5, <2>6
<1> QED BY <1>2, <1>3 DEF Takeable

\* The messages m are posted behind what is left.
Adds(d, m) == m \in Seq(Message) /\ queue' = Left(d) \o m

LEMMA AddsIs ==
  ASSUME IInv, NEW d, Takeable(d), NEW m, Adds(d, m)
  PROVE  /\ Handles(d) /\ Len(m) \in Nat
         /\ \A i \in 1..Len(queue') : New(d, i) =>
              \E j \in 1..Len(m) : i + d = Len(queue) + j /\ queue'[i] = m[j]
         /\ \A j \in 1..Len(m) : Posts(d, m[j])
<1> DEFINE q == Left(d)
           n == Len(q)
<1>1. /\ d \in {0, 1} /\ d <= Len(queue) /\ q \in Seq(Message) /\ m \in Seq(Message)
      /\ n \in Nat /\ n + d = Len(queue) /\ Len(queue) \in Nat
      /\ \A i \in 1..n : i + d \in 1..Len(queue) /\ q[i] = queue[i + d]
  BY LeftIs, QueueIs DEF Adds
<1>2. queue' = q \o m
  BY DEF Adds
<1> HIDE DEF q
<1>3. /\ queue' \in Seq(Message) /\ Len(m) \in Nat /\ Len(queue') \in Nat
      /\ \A i \in 1..n : i \in 1..Len(queue') /\ queue'[i] = q[i]
      /\ \A i \in 1..Len(m) : n + i \in 1..Len(queue') /\ queue'[n + i] = m[i]
      /\ \A i \in 1..Len(queue') :
           \/ i \in 1..n /\ queue'[i] = q[i]
           \/ i > n /\ i - n \in 1..Len(m) /\ queue'[i] = m[i - n]
  <2>1. /\ q \o m \in Seq(Message) /\ Len(m) \in Nat
        /\ \A i \in 1..n : i \in 1..Len(q \o m) /\ (q \o m)[i] = q[i]
        /\ \A i \in 1..Len(m) : n + i \in 1..Len(q \o m) /\ (q \o m)[n + i] = m[i]
        /\ \A i \in 1..Len(q \o m) :
             \/ i \in 1..n /\ (q \o m)[i] = q[i]
             \/ i > n /\ i - n \in 1..Len(m) /\ (q \o m)[i] = m[i - n]
    BY <1>1, ConcatIs
  <2>2. Len(queue') \in Nat
    BY <1>2, <2>1, LenProperties
  <2> QED BY <1>2, <2>1, <2>2
<1> HIDE DEF n
<1>4. ASSUME NEW i \in 1..Len(queue') PROVE New(d, i) <=> i > n
  BY <1>1, <1>3 DEF New
<1>5. ASSUME NEW i \in 1..Len(queue), i > d
      PROVE  i - d \in 1..Len(queue') /\ queue'[i - d] = queue[i]
  <2>1. i - d \in 1..n /\ (i - d) + d = i
    BY <1>1, <1>5
  <2> QED BY <1>1, <1>3, <2>1
<1>6. ASSUME NEW i \in 1..Len(queue'), ~New(d, i)
      PROVE  i + d \in 1..Len(queue) /\ queue'[i] = queue[i + d]
  <2>1. i \in 1..n
    BY <1>3, <1>4, <1>6
  <2> QED BY <1>1, <1>3, <2>1
<1>7. ASSUME NEW i \in 1..Len(queue'), New(d, i)
      PROVE  \E j \in 1..Len(m) : i + d = Len(queue) + j /\ queue'[i] = m[j]
  <2>1. i > n /\ i \in Nat
    BY <1>3, <1>4, <1>7
  <2>2. ~(i \in 1..n)
    BY <1>1, <2>1
  <2>3. i - n \in 1..Len(m) /\ queue'[i] = m[i - n]
    BY <1>3, <2>2
  <2>4. i + d = Len(queue) + (i - n)
    BY <1>1, <2>1
  <2> QED BY <2>3, <2>4
<1>8. ASSUME NEW j \in 1..Len(m) PROVE Posts(d, m[j])
  <2>1. PICK i \in 1..Len(queue') : i = n + j /\ queue'[i] = m[j]
    BY <1>3
  <2>2. i > n
    BY <1>1, <1>3, <2>1
  <2> QED BY <1>4, <2>1, <2>2 DEF Posts
<1> QED BY <1>1, <1>3, <1>5, <1>6, <1>7, <1>8 DEF Handles

\* Nothing is posted.
LEMMA NothingAdded ==
  ASSUME IInv, NEW d, Takeable(d), queue' = Left(d)
  PROVE  Adds(d, <<>>) /\ Len(<<>>) = 0
<1>1. Left(d) \in Seq(Message)
  BY LeftIs
<1>2. Left(d) \o <<>> = Left(d) /\ <<>> \in Seq(Message) /\ Len(<<>>) = 0
  BY <1>1, ConcatEmptySeq, EmptySeq
<1> QED BY <1>2 DEF Adds

\* One message is posted.
LEMMA OneAdded ==
  ASSUME IInv, NEW d, Takeable(d), NEW m \in Message, queue' = Append(Left(d), m)
  PROVE  Adds(d, <<m>>) /\ Len(<<m>>) = 1 /\ <<m>>[1] = m
<1>1. Left(d) \in Seq(Message)
  BY LeftIs
<1>2. Append(Left(d), m) = Left(d) \o <<m>>
  BY <1>1, AppendIsConcat
<1> QED BY <1>2 DEF Adds

\* What is told to the calls S
LEMMA ToldIs ==
  ASSUME IInv, NEW S \in SUBSET Enum, NEW type \in [Calls -> Types]
  PROVE  /\ Told(S, type) \in Seq(Message)
         /\ \A i \in 1..Len(Told(S, type)) :
              \E k \in S : ~hidden[k] /\ Told(S, type)[i] = Msg(type[k], slot[k], k)
         /\ \A k \in S : ~hidden[k] =>
              \E i \in 1..Len(Told(S, type)) : Told(S, type)[i] = Msg(type[k], slot[k], k)
<1> DEFINE q == Told(S, type)
<1>1. IsTold(q, {k \in S : ~hidden[k]}, type)
  BY ToldIsTold DEF IInv, CoreInv
<1> HIDE DEF q
<1>2. /\ q \in Seq(Message)
      /\ \A i \in 1..Len(q) : /\ q[i].call \in S /\ ~hidden[q[i].call]
                              /\ q[i].type = type[q[i].call] /\ q[i].slot = slot[q[i].call]
      /\ \A k \in S : ~hidden[k] => \E i \in 1..Len(q) : q[i].call = k
  BY <1>1 DEF IsTold
<1>3. ASSUME NEW i \in 1..Len(q) PROVE q[i] = Msg(type[q[i].call], slot[q[i].call], q[i].call)
  <2>1. q[i] \in Message
    BY <1>2, CallOfMessage
  <2>2. q[i] = [type |-> q[i].type, slot |-> q[i].slot, call |-> q[i].call]
    BY <2>1 DEF Message
  <2> QED BY <1>2, <2>2 DEF Msg
<1> QED BY <1>2, <1>3 DEF q

-----------------------------------------------------------------------------
(* What is posted *)

\* News that neither announce a call nor ask for a dialog
Plain(d, m) ==
  /\ m \in Seq(Message)
  /\ \A j \in 1..Len(m) : News(d, m[j]) /\ m[j].type \notin {"incoming", "create"}

LEMMA PostingIs ==
  ASSUME IInv, NEW d, Takeable(d), NEW m, Adds(d, m),
         \A j \in 1..Len(m) : News(d, m[j]),
         \A i, j \in 1..Len(m) :
           /\ m[i].type \in {"incoming", "create"}
           /\ m[i].type = "incoming" \/ m[j].type = "create"
           => i = j
  PROVE  Posting(d)
<1>1. d \in Nat /\ Len(queue) \in Nat /\ Len(m) \in Nat
  BY LeftIs, AddsIs
<1>2. \A i \in 1..Len(queue') : New(d, i) =>
        \E j \in 1..Len(m) : i + d = Len(queue) + j /\ queue'[i] = m[j]
  BY AddsIs
<1>3. Len(queue') \in Nat
  BY AddsIs, LenProperties DEF Handles
<1>4. \A i \in 1..Len(queue') : New(d, i) => News(d, queue'[i])
  BY <1>2
<1>5. ASSUME NEW i \in 1..Len(queue'), NEW j \in 1..Len(queue'), New(d, i), New(d, j),
             queue'[i].type \in {"incoming", "create"},
             queue'[i].type = "incoming" \/ queue'[j].type = "create"
      PROVE  i = j
  <2>1. PICK x \in 1..Len(m) : i + d = Len(queue) + x /\ queue'[i] = m[x]
    BY <1>2, <1>5
  <2>2. PICK y \in 1..Len(m) : j + d = Len(queue) + y /\ queue'[j] = m[y]
    BY <1>2, <1>5
  <2>3. x = y
    BY <1>5, <2>1, <2>2
  <2> QED BY <1>1, <1>3, <2>1, <2>2, <2>3
<1> QED BY <1>4, <1>5 DEF Posting

LEMMA PlainPosts ==
  ASSUME IInv, NEW d, Takeable(d), NEW m, Adds(d, m), Plain(d, m)
  PROVE  Handles(d) /\ Posting(d) /\ \A j \in 1..Len(m) : Posts(d, m[j])
<1>1. Posting(d)
  BY PostingIs DEF Plain
<1> QED BY <1>1, AddsIs

\* The messages a are among the messages m.
Among(a, m) == \A i \in 1..Len(a) : \E j \in 1..Len(m) : m[j] = a[i]

LEMMA PlainJoined ==
  ASSUME NEW d, NEW a, NEW b, Plain(d, a), Plain(d, b)
  PROVE  Plain(d, a \o b) /\ Among(a, a \o b) /\ Among(b, a \o b)
<1>1. a \in Seq(Message) /\ b \in Seq(Message)
  BY DEF Plain
<1>2. /\ a \o b \in Seq(Message)
      /\ \A i \in 1..Len(a) : i \in 1..Len(a \o b) /\ (a \o b)[i] = a[i]
      /\ \A i \in 1..Len(b) : Len(a) + i \in 1..Len(a \o b) /\ (a \o b)[Len(a) + i] = b[i]
      /\ \A i \in 1..Len(a \o b) :
           \/ i \in 1..Len(a) /\ (a \o b)[i] = a[i]
           \/ i - Len(a) \in 1..Len(b) /\ (a \o b)[i] = b[i - Len(a)]
  BY <1>1, ConcatIs
<1>3. ASSUME NEW i \in 1..Len(a \o b)
      PROVE  News(d, (a \o b)[i]) /\ (a \o b)[i].type \notin {"incoming", "create"}
  BY <1>2 DEF Plain
<1> QED BY <1>2, <1>3 DEF Plain, Among

\* The calls S are told of something else than that they have come.
LEMMA PlainTold ==
  ASSUME IInv, NEW d, NEW S \in SUBSET Active, NEW type \in [Calls -> Types],
         \A k \in S : type[k] \in {"ringing", "answered", "ended", "unanswered"},
         NEW m, m = Told(S, type)
  PROVE  /\ Plain(d, m)
         /\ \A k \in S : ~hidden[k] =>
              \E i \in 1..Len(m) : m[i] = Msg(type[k], slot[k], k)
<1>1. S \in SUBSET Enum
  BY DEF Enum
<1>2. /\ m \in Seq(Message)
      /\ \A i \in 1..Len(m) : \E k \in S : ~hidden[k] /\ m[i] = Msg(type[k], slot[k], k)
      /\ \A k \in S : ~hidden[k] => \E i \in 1..Len(m) : m[i] = Msg(type[k], slot[k], k)
  BY <1>1, ToldIs
<1>3. ASSUME NEW i \in 1..Len(m)
      PROVE  News(d, m[i]) /\ m[i].type \notin {"incoming", "create"}
  <2>1. PICK k \in S : ~hidden[k] /\ m[i] = Msg(type[k], slot[k], k)
    BY <1>2
  <2>2. m[i].call = k /\ m[i].slot = slot[k] /\ m[i].type = type[k]
    BY <2>1 DEF Msg
  <2> QED BY <2>1, <2>2 DEF News
<1> QED BY <1>2, <1>3 DEF Plain

\* One message
LEMMA PlainOne ==
  ASSUME NEW d, NEW x \in Message, News(d, x), x.type \notin {"incoming", "create"}
  PROVE  Plain(d, <<x>>) /\ Len(<<x>>) = 1 /\ <<x>>[1] = x
<1>1. <<x>> \in Seq(Message) /\ Len(<<x>>) = 1 /\ <<x>>[1] = x
  OBVIOUS
<1> QED BY <1>1 DEF Plain

LEMMA NothingPosted ==
  ASSUME IInv, NEW d, Takeable(d), queue' = Left(d)
  PROVE  Handles(d) /\ Posting(d)
<1>1. Adds(d, <<>>) /\ Len(<<>>) = 0
  BY NothingAdded
<1>2. Plain(d, <<>>)
  BY <1>1 DEF Plain, Adds
<1> QED BY <1>1, <1>2, PlainPosts

LEMMA OnePosted ==
  ASSUME IInv, NEW d, Takeable(d), NEW x \in Message, News(d, x),
         x.type \notin {"incoming", "create"}, queue' = Append(Left(d), x)
  PROVE  Handles(d) /\ Posting(d) /\ Posts(d, x)
<1>1. Adds(d, <<x>>) /\ Len(<<x>>) = 1 /\ <<x>>[1] = x
  BY OneAdded
<1>2. Plain(d, <<x>>)
  BY PlainOne
<1>3. 1 \in 1..Len(<<x>>)
  BY <1>1
<1> QED BY <1>1, <1>2, <1>3, PlainPosts

LEMMA AutoAnswerIs ==
  ASSUME IInv, NEW d, Takeable(d), NEW s, AutoAnswer(s, Left(d))
  PROVE  Handles(d) /\ Posting(d)
<1>1. CASE \E k \in At(s) : Ringing(k)
  <2>1. s \in Slots
    BY <1>1 DEF At, IInv, CoreInv, SlotsApart
  <2> DEFINE x == Msg("answer", s, NoCall)
  <2>2. x \in Message
    BY <2>1, MsgIs DEF Types
  <2>5. Known(s)
    BY <1>1 DEF Known, At, Ringing, Enum, Active
  <2>3. News(d, x) /\ x.type \notin {"incoming", "create"}
    BY <2>5 DEF News, Msg
  <2>4. queue' = Append(Left(d), x)
    BY <1>1 DEF AutoAnswer
  <2> HIDE DEF x
  <2> QED BY <2>2, <2>3, <2>4, OnePosted
<1>2. CASE ~\E k \in At(s) : Ringing(k)
  <2>1. queue' = Left(d)
    BY <1>2 DEF AutoAnswer
  <2> QED BY <2>1, NothingPosted
<1> QED BY <1>1, <1>2

\* The calls S are told, and nothing else is posted.
LEMMA ToldPosted ==
  ASSUME IInv, NEW d, Takeable(d), NEW S \in SUBSET Active, NEW type \in [Calls -> Types],
         \A k \in S : type[k] \in {"ringing", "answered", "ended", "unanswered"},
         queue' = Left(d) \o Told(S, type)
  PROVE  /\ Handles(d) /\ Posting(d)
         /\ \A k \in S : ~hidden[k] => Posts(d, Msg(type[k], slot[k], k))
<1>0. PICK m : m = Told(S, type)
  OBVIOUS
<1>1. /\ Plain(d, m)
      /\ \A k \in S : ~hidden[k] => \E i \in 1..Len(m) : m[i] = Msg(type[k], slot[k], k)
  BY <1>0, PlainTold
<1>2. queue' = Left(d) \o m
  BY <1>0
<1>3. Adds(d, m)
  BY <1>1, <1>2 DEF Adds, Plain
<1>4. Handles(d) /\ Posting(d) /\ \A j \in 1..Len(m) : Posts(d, m[j])
  BY <1>1, <1>3, PlainPosts
<1> QED BY <1>1, <1>4

-----------------------------------------------------------------------------
(* What becomes of the calls and the windows *)

LEMMA CallsStay ==
  ASSUME NEW d, UNCHANGED <<inv, role, number, slot, hidden>>
  PROVE  CallsGo(d)
BY DEF CallsGo, Begins, Lives

\* The calls S end, and are told so.
LEMMA EndPosted ==
  ASSUME IInv, NEW d, Takeable(d), NEW S \in SUBSET Active, NEW state \in {"hanging", "over"},
         inv' = [k \in Calls |-> IF k \in S THEN state ELSE inv[k]],
         UNCHANGED <<role, number, slot, hidden>>,
         queue' = Left(d) \o Told(S, Ended)
  PROVE  Handles(d) /\ Posting(d) /\ CallsGo(d)
<1>1. \A k \in S : k \in Calls /\ inv[k] \in Going
  BY ActiveIs DEF Active
<1>2. /\ Handles(d) /\ Posting(d)
      /\ \A k \in S : ~hidden[k] => Posts(d, Msg(Ended[k], slot[k], k))
  BY <1>1, ToldPosted, EndedType
<1>3. ASSUME NEW k \in Calls
      PROVE  IF Begins(k) THEN d = 0 /\ Born(k) ELSE Lives(d, k)
  <2>1. inv'[k] = IF k \in S THEN state ELSE inv[k]
    OBVIOUS
  <2>2. ~Begins(k)
    BY <1>1, <2>1 DEF Begins, Going
  <2>3. Lives(d, k)
    BY <1>1, <1>2, <2>1 DEF Lives
  <2> QED BY <2>2, <2>3
<1> QED BY <1>2, <1>3 DEF CallsGo

\* A handler that has nothing to do with tabs and dialogs, or none
Quiet(d) == d = 0 \/ (d = 1 /\ Head1.type \in {"incoming", "answer", "reject"})

LEMMA QuietIs ==
  ASSUME NEW d, Quiet(d)
  PROVE  /\ ~First(d, States1) /\ ~First(d, Giving) /\ ~First(d, Lasting)
         /\ ~First(d, Closers) /\ ~First(d, {"create"})
BY DEF Quiet, First, States1, Giving, Lasting, Closers

LEMMA QuietTabs ==
  ASSUME NEW d, Quiet(d), tab' = tab
  PROVE  TabsGo(d)
BY QuietIs DEF TabsGo, Lasting

LEMMA QuietDialogs ==
  ASSUME DialogsShow, NEW d, Quiet(d), dialogs' = dialogs
  PROVE  DialogsGo(d)
BY QuietIs DEF DialogsGo, DialogsShow

LEMMA QuietRing ==
  ASSUME NEW d, Quiet(d), dialogs' = dialogs,
         ring' => ring \/ (First(d, {"incoming"}) /\ Posts(d, Msg("create", Head1.slot, NoCall)))
  PROVE  RingGoes(d)
BY QuietIs DEF RingGoes

\* The calls S are hung up from their tabs.
LEMMA TabAfterIs ==
  ASSUME NEW S, NEW n \in Numbers
  PROVE  \/ TabAfter(S)[n] = tab[n]
         \/ TabAfter(S)[n] = NoSlot /\ \E y \in S : tab[n] = slot[y]
<1>1. TabAfter(S)[n] = IF n \in TabsOf(S) THEN NoSlot ELSE tab[n]
  BY DEF TabAfter
<1>2. n \in TabsOf(S) => \E y \in S : n \in FirstTab(slot[y])
  BY DEF TabsOf
<1>3. \A y \in S : n \in FirstTab(slot[y]) => tab[n] = slot[y]
  BY DEF FirstTab
<1> QED BY <1>1, <1>2, <1>3

\* No slot is the mark of a tab without a call.
LEMMA NoSlotIs == NoSlot \notin Slots /\ NoTab \notin Slots
BY NSlotsAssumption DEF NoSlot, NoTab, Slots

LEMMA HungUpTabs ==
  ASSUME IInv, NEW d, Quiet(d), NEW S \in SUBSET Enum, tab' = TabAfter(S),
         \A k \in S \intersect Active : k \notin Active'
  PROVE  TabsGo(d)
<1>1. \A n \in Numbers : tab'[n] = tab[n] \/ tab'[n] \notin Slots
  BY TabAfterIs, NoSlotIs
<1>2. ASSUME NEW k \in Active, tab[number[k]] = slot[k], tab'[number[k]] # slot[k]
      PROVE  k \notin Active'
  <2>1. number[k] \in Numbers /\ k \in Enum
    BY DEF IInv, UIType, Enum, Active
  <2>2. PICK y \in S : tab[number[k]] = slot[y]
    BY <1>2, <2>1, TabAfterIs
  <2>3. y = k
    BY <1>2, <2>1, <2>2 DEF IInv, CoreInv, SlotsApart
  <2> QED BY <2>2, <2>3
<1> QED BY <1>1, <1>2, QuietIs DEF TabsGo, Lasting

-----------------------------------------------------------------------------
(* Dialogs that close *)

LEMMA FoundIs ==
  ASSUME UIType, NEW s
  PROVE  /\ Len(dialogs) \in Nat
         /\ FoundAt(s) # 0 => FoundAt(s) \in 1..Len(dialogs) /\ dialogs[FoundAt(s)] = s
         /\ FoundAt(s) = 0 => \A i \in 1..Len(dialogs) : dialogs[i] # s
<1> DEFINE I == {i \in 1..Len(dialogs) : dialogs[i] = s}
<1>1. Len(dialogs) \in Nat
  BY LenProperties DEF UIType
<1>2. I \in SUBSET Nat /\ 0 \notin I
  BY <1>1
<1>3. FoundAt(s) = IF I # {} THEN Min(I) ELSE 0
  BY DEF FoundAt
<1>4. I # {} => Min(I) \in I
  <2> HIDE DEF I
  <2> QED BY <1>2, MinIsIn
<1>5. FoundAt(s) # 0 => FoundAt(s) \in I
  <2> HIDE DEF I
  <2> QED BY <1>3, <1>4
<1>6. FoundAt(s) = 0 => I = {}
  <2> HIDE DEF I
  <2> QED BY <1>2, <1>3, <1>4
<1> QED BY <1>1, <1>5, <1>6

Distinct(q) == \A a, b \in 1..Len(q) : q[a] = q[b] => a = b

\* r is q without its element i.
Without(r, q, i) ==
  /\ Len(r) = Len(q) - 1
  /\ \A j \in 1..Len(r) : r[j] # q[i] /\ \E a \in 1..Len(q) : r[j] = q[a]
  /\ Distinct(r)

LEMMA RemoveIs ==
  ASSUME NEW q \in Seq(Slots), NEW i \in 1..Len(q), Distinct(q)
  PROVE  Without(RemoveAt(q, i), q, i)
<1> USE DEF Distinct
<1>r. PICK r : r = RemoveAt(q, i)
  OBVIOUS
<1>1. Len(q) \in Nat /\ i \in Nat
  BY LenProperties
<1> DEFINE x == SubSeq(q, 1, i - 1)
           y == SubSeq(q, i + 1, Len(q))
<1>2. /\ x \in Seq(Slots) /\ Len(x) = i - 1
      /\ \A j \in 1..(i - 1) : x[j] = q[j]
  <2>1. /\ x \in Seq(Slots) /\ Len(x) = IF 1 <= i - 1 THEN (i - 1) - 1 + 1 ELSE 0
        /\ \A j \in 1..((i - 1) - 1 + 1) : x[j] = q[1 + j - 1]
    BY <1>1, SubSeqProperties
  <2> HIDE DEF x
  <2>2. Len(x) = i - 1
    BY <1>1, <2>1
  <2>3. ASSUME NEW j \in 1..(i - 1) PROVE x[j] = q[j]
    <3>1. j \in 1..((i - 1) - 1 + 1) /\ 1 + j - 1 = j
      BY <1>1
    <3> QED BY <2>1, <3>1
  <2> QED BY <2>1, <2>2, <2>3
<1>3. /\ y \in Seq(Slots) /\ Len(y) = Len(q) - i
      /\ \A j \in 1..(Len(q) - i) : y[j] = q[i + j]
  <2>1. /\ y \in Seq(Slots)
        /\ Len(y) = IF i + 1 <= Len(q) THEN Len(q) - (i + 1) + 1 ELSE 0
        /\ \A j \in 1..(Len(q) - (i + 1) + 1) : y[j] = q[(i + 1) + j - 1]
    BY <1>1, SubSeqProperties
  <2> HIDE DEF y
  <2>2. Len(y) = Len(q) - i
    BY <1>1, <2>1
  <2>3. ASSUME NEW j \in 1..(Len(q) - i) PROVE y[j] = q[i + j]
    <3>1. j \in 1..(Len(q) - (i + 1) + 1) /\ (i + 1) + j - 1 = i + j
      BY <1>1
    <3> QED BY <2>1, <3>1
  <2> QED BY <2>1, <2>2, <2>3
<1>4. r = x \o y
  BY <1>r DEF RemoveAt
<1> HIDE DEF x, y
<1>5. /\ r \in Seq(Slots) /\ Len(r) = Len(x) + Len(y)
      /\ \A j \in 1..(Len(x) + Len(y)) : r[j] = IF j <= Len(x) THEN x[j] ELSE y[j - Len(x)]
  <2>1. x \in Seq(Slots) /\ y \in Seq(Slots)
    BY <1>2, <1>3
  <2>2. /\ x \o y \in Seq(Slots) /\ Len(x \o y) = Len(x) + Len(y)
        /\ \A j \in 1..(Len(x) + Len(y)) :
             (x \o y)[j] = IF j <= Len(x) THEN x[j] ELSE y[j - Len(x)]
    BY <2>1, ConcatProperties
  <2> QED BY <1>4, <2>2
<1>6. Len(r) = Len(q) - 1
  BY <1>1, <1>2, <1>3, <1>5
<1>7. ASSUME NEW j \in 1..Len(r)
      PROVE  \E a \in 1..Len(q) : a = (IF j < i THEN j ELSE j + 1) /\ r[j] = q[a]
  <2>1. j \in Nat /\ j \in 1..(Len(x) + Len(y))
    BY <1>5, <1>6, <1>1
  <2>2. CASE j < i
    <3>1. j \in 1..(i - 1) /\ j <= Len(x) /\ j \in 1..Len(q)
      BY <1>1, <1>2, <2>1, <2>2
    <3> QED BY <1>2, <1>5, <2>1, <2>2, <3>1
  <2>3. CASE ~(j < i)
    <3>1. j - Len(x) \in 1..(Len(q) - i) /\ ~(j <= Len(x)) /\ i + (j - Len(x)) = j + 1
      BY <1>1, <1>2, <1>3, <2>1, <2>3
    <3>2. r[j] = q[j + 1] /\ j + 1 \in 1..Len(q)
      BY <1>1, <1>3, <1>5, <1>6, <2>1, <3>1
    <3> QED BY <2>3, <3>2
  <2> QED BY <2>2, <2>3
<1>8. ASSUME NEW j \in 1..Len(r) PROVE r[j] # q[i] /\ \E a \in 1..Len(q) : r[j] = q[a]
  <2>1. PICK a \in 1..Len(q) : a = (IF j < i THEN j ELSE j + 1) /\ r[j] = q[a]
    BY <1>7
  <2>2. a # i
    BY <1>1, <1>6, <2>1
  <2> QED BY <2>1, <2>2
<1>9. ASSUME NEW a \in 1..Len(r), NEW b \in 1..Len(r), r[a] = r[b] PROVE a = b
  <2>1. PICK c \in 1..Len(q) : c = (IF a < i THEN a ELSE a + 1) /\ r[a] = q[c]
    BY <1>7
  <2>2. PICK e \in 1..Len(q) : e = (IF b < i THEN b ELSE b + 1) /\ r[b] = q[e]
    BY <1>7
  <2>3. c = e
    BY <1>9, <2>1, <2>2
  <2> QED BY <1>1, <1>6, <2>1, <2>2, <2>3
<1> QED BY <1>r, <1>6, <1>8, <1>9 DEF Without

\* RinginDlg::Close
LEMMA CloseGoes ==
  ASSUME IInv, DialogsShow, NEW s, Close(s)
  PROVE  DialogsGo(0) /\ RingGoes(0)
<1>1. /\ FoundAt(s) # 0 /\ dialogs' = RemoveAt(dialogs, FoundAt(s))
      /\ ring' = (ring /\ Len(dialogs) # 1)
  BY DEF Close, SelectInSeq, FoundAt
<1>2. /\ FoundAt(s) \in 1..Len(dialogs) /\ Len(dialogs) \in Nat /\ dialogs \in Seq(Slots)
      /\ \A a, b \in 1..Len(dialogs) : dialogs[a] = dialogs[b] => a = b
  BY <1>1, FoundIs DEF IInv, UIType, DialogsShow
<1>3. PICK r : r = dialogs'
  OBVIOUS
<1>4. /\ Len(r) = Len(dialogs) - 1
      /\ \A j \in 1..Len(r) : \E a \in 1..Len(dialogs) : r[j] = dialogs[a]
      /\ \A a, b \in 1..Len(r) : r[a] = r[b] => a = b
  <2>1. PICK at \in 1..Len(dialogs) : at = FoundAt(s)
    BY <1>2
  <2>2. Without(r, dialogs, at)
    BY <1>1, <1>2, <1>3, <2>1, RemoveIs DEF Distinct
  <2> QED BY <2>2 DEF Without, Distinct
<1>5. DialogsGo(0)
  BY <1>3, <1>4 DEF DialogsGo, First
<1>6. RingGoes(0)
  <2>1. ring' => ring /\ Len(dialogs) # 1
    BY <1>1, Zenon
  <2>2. Len(dialogs) # 0 /\ Len(dialogs) # 1 => Len(dialogs') # 0
    BY <1>2, <1>3, <1>4
  <2> QED BY <2>1, <2>2, Zenon DEF RingGoes, First
<1> QED BY <1>5, <1>6

\* onCallState of a call that does not ring any more
LEMMA DropGoes ==
  ASSUME IInv, DialogsShow, NEW c, DropDialog(Head1.slot, c), ~First(1, {"create"}),
         First(1, Closers) => ~c
  PROVE  DialogsGo(1) /\ RingGoes(1)
<1> DEFINE at == FoundAt(Head1.slot)
<1>1. /\ dialogs' = IF at = 0 THEN dialogs ELSE RemoveAt(dialogs, at)
      /\ ring' = (ring /\ ~(dialogs = <<>> /\ ~c) /\ ~(at # 0 /\ Len(dialogs) = 1))
  BY DEF DropDialog, SelectInSeq, FoundAt
<1>2. /\ Len(dialogs) \in Nat /\ dialogs \in Seq(Slots)
      /\ at # 0 => at \in 1..Len(dialogs) /\ dialogs[at] = Head1.slot
      /\ at = 0 => \A i \in 1..Len(dialogs) : dialogs[i] # Head1.slot
      /\ \A a, b \in 1..Len(dialogs) : dialogs[a] = dialogs[b] => a = b
  BY FoundIs DEF IInv, UIType, DialogsShow
<1>3. Len(dialogs) = 0 => dialogs = <<>>
  BY <1>2, EmptySeq
<1>4. PICK r : r = dialogs'
  OBVIOUS
<1> HIDE DEF at
<1>5. CASE at = 0
  <2>1. dialogs' = dialogs
    BY <1>1, <1>5
  <2>2. DialogsGo(1)
    BY <1>2, <1>5, <2>1 DEF DialogsGo
  <2>3. RingGoes(1)
    BY <1>1, <1>3, <2>1 DEF RingGoes
  <2> QED BY <2>2, <2>3
<1>6. CASE at # 0
  <2>1. /\ Len(r) = Len(dialogs) - 1
        /\ \A j \in 1..Len(r) : r[j] # Head1.slot /\ \E a \in 1..Len(dialogs) : r[j] = dialogs[a]
        /\ \A a, b \in 1..Len(r) : r[a] = r[b] => a = b
    <3>1. at \in 1..Len(dialogs) /\ dialogs[at] = Head1.slot
      BY <1>2, <1>6
    <3>2. dialogs \in Seq(Slots) /\ Distinct(dialogs)
      BY <1>2 DEF Distinct
    <3>3. Without(r, dialogs, at)
      BY <1>1, <1>4, <1>6, <3>1, <3>2, RemoveIs
    <3> QED BY <3>1, <3>3 DEF Without, Distinct
  <2>2. DialogsGo(1)
    BY <1>4, <2>1 DEF DialogsGo
  <2>3. ring' => ring /\ Len(dialogs) # 1
    BY <1>1, <1>6, Zenon
  <2>5. Len(dialogs) # 0 /\ (Len(dialogs) # 1 => Len(dialogs') # 0)
    BY <1>2, <1>4, <1>6, <2>1
  <2>4. RingGoes(1)
    BY <2>3, <2>5, Zenon DEF RingGoes, First
  <2> QED BY <2>2, <2>4
<1> QED BY <1>5, <1>6

-----------------------------------------------------------------------------
(* Every action is such a step. *)

LEMMA AtOnce == Takeable(0) /\ Left(0) = queue /\ Quiet(0)
<1>1. Takeable(0)
  BY DEF Takeable
<1>2. Left(0) = queue
  BY DEF Left
<1>3. Quiet(0)
  BY DEF Quiet
<1> QED BY <1>1, <1>2, <1>3

LEMMA Taking == queue # <<>> => Takeable(1) /\ Left(1) = Rest
BY DEF Takeable, Left

LEMMA QuietScreen ==
  ASSUME DialogsShow, NEW d, Quiet(d), dialogs' = dialogs, ring' => ring
  PROVE  DialogsGo(d) /\ RingGoes(d)
<1>1. DialogsGo(d)
  BY QuietDialogs
<1>2. RingGoes(d)
  BY QuietRing, Zenon
<1> QED BY <1>1, <1>2

\* The calls stay and the tabs and dialogs do.
LEMMA QuietStep ==
  ASSUME WInv, NEW d, Quiet(d), Handles(d), Posting(d), CallsGo(d),
         tab' = tab, dialogs' = dialogs, ring' => ring
  PROVE  Steps(d)
<1>1. DialogsGo(d) /\ RingGoes(d)
  <2>1. DialogsShow
    BY DEF WInv, Windows
  <2> QED BY <2>1, QuietScreen, Zenon
<1>2. TabsGo(d)
  BY QuietTabs
<1> QED BY <1>1, <1>2 DEF Steps

LEMMA ConfirmSteps ==
  ASSUME WInv, NEW k \in Calls, Confirm(k)
  PROVE  Steps(0)
<1> USE DEF WInv
<1>1. {k} \in SUBSET Active /\ inv[k] \in {"calling", "connecting"}
  BY DEF Confirm, Active, Talks
<1>2. All("answered") \in [Calls -> Types] /\ All("answered")[k] = "answered"
  BY DEF All, Types
<1>3. queue' = Left(0) \o Told({k}, All("answered"))
  BY AtOnce DEF Confirm
<1>4. Handles(0) /\ Posting(0)
  BY <1>1, <1>2, <1>3, AtOnce, ToldPosted
<1>5. \A x \in Calls : inv'[x] = IF x = k THEN "confirmed" ELSE inv[x]
  BY DEF Confirm, IInv, CoreInv, CoreType
<1>6. UNCHANGED <<role, number, slot, hidden, tab, dialogs, ring>>
  BY DEF Confirm
<1>7. CallsGo(0)
  BY <1>1, <1>5, <1>6 DEF CallsGo, Begins, Lives
<1> QED BY <1>4, <1>6, <1>7, AtOnce, QuietStep

\* A call or more end, and nothing else happens.
LEMMA EndSteps ==
  ASSUME WInv, NEW d, Takeable(d), Quiet(d), NEW S \in SUBSET Active,
         NEW state \in {"hanging", "over"},
         inv' = [k \in Calls |-> IF k \in S THEN state ELSE inv[k]],
         UNCHANGED <<role, number, slot, hidden, tab, dialogs, ring>>,
         queue' = Left(d) \o Told(S, Ended)
  PROVE  Steps(d)
<1>1. Handles(d) /\ Posting(d) /\ CallsGo(d)
  BY EndPosted DEF WInv
<1> QED BY <1>1, QuietStep

LEMMA RefuseSteps ==
  ASSUME WInv, NEW d, Takeable(d), Quiet(d), NEW s, Refuse(s, Left(d)),
         UNCHANGED <<tab, dialogs, ring>>
  PROVE  Steps(d)
<1>1. Answerable(s) \in SUBSET Active
  BY AnswerableIs DEF WInv, IInv
<1>2. /\ inv' = [k \in Calls |-> IF k \in Answerable(s) THEN "over" ELSE inv[k]]
      /\ UNCHANGED <<role, number, slot, hidden>>
      /\ queue' = Left(d) \o Told(Answerable(s), Ended)
  BY DEF Refuse, End
<1> QED BY <1>1, <1>2, EndSteps

LEMMA RemoteEndSteps ==
  ASSUME WInv, NEW k \in Calls, RemoteEnd(k)
  PROVE  Steps(0)
<1>1. /\ {k} \in SUBSET Active
      /\ inv' = [x \in Calls |-> IF x \in {k} THEN "over" ELSE inv[x]]
      /\ UNCHANGED <<role, number, slot, hidden, tab, dialogs, ring>>
      /\ queue' = Left(0) \o Told({k}, Ended)
  BY AtOnce DEF RemoteEnd, End
<1> QED BY <1>1, AtOnce, EndSteps

LEMMA TimeOutSteps ==
  ASSUME WInv, NEW k \in Calls, TimeOut(k)
  PROVE  Steps(0)
<1> DEFINE S == At(slot[k]) \intersect Active
<1>1. /\ S \in SUBSET Active
      /\ inv' = [x \in Calls |-> IF x \in S THEN "hanging" ELSE inv[x]]
      /\ UNCHANGED <<role, number, slot, hidden, tab, dialogs, ring>>
      /\ queue' = Left(0) \o Told(S, Ended)
  BY AtOnce DEF TimeOut
<1> HIDE DEF S
<1> QED BY <1>1, AtOnce, EndSteps

LEMMA LostSteps ==
  ASSUME WInv, NEW k \in Calls, Lost(k)
  PROVE  Steps(0)
<1>1. /\ inv[k] \in {"calling", "connecting", "confirmed"} /\ queue' = Left(0)
      /\ UNCHANGED <<role, number, slot, hidden, tab, dialogs, ring>>
  BY AtOnce DEF Lost, Talks
<1>2. \A x \in Calls : inv'[x] = IF x = k THEN "lost" ELSE inv[x]
  BY DEF Lost, WInv, IInv, CoreInv, CoreType
<1>3. CallsGo(0)
  BY <1>1, <1>2 DEF CallsGo, Begins, Lives
<1>4. Handles(0) /\ Posting(0)
  BY <1>1, AtOnce, NothingPosted DEF WInv
<1> QED BY <1>1, <1>3, <1>4, AtOnce, QuietStep

LEMMA MediaStateSteps ==
  ASSUME WInv, NEW k \in Calls, MediaState(k)
  PROVE  Steps(0)
<1>1. inv[k] \in {"calling", "connecting", "confirmed"} /\ queue' = Append(queue, Msg("media", slot[k], k))
  BY DEF MediaState, Talks
<1>2. k \in Active /\ ~hidden[k] /\ slot[k] \in Slots
  <2>1. k \in Active /\ k \in Enum
    BY <1>1, ActiveIs DEF Going, Enum
  <2>2. ~hidden[k]
    BY <1>1 DEF WInv, IInv, CoreInv, Mirror, Open
  <2> QED BY <2>1, <2>2 DEF WInv, IInv, CoreInv, SlotsApart
<1> DEFINE x == Msg("media", slot[k], k)
<1>3. x \in Message /\ x.type = "media" /\ x.call = k /\ x.slot = slot[k]
  BY <1>2, MsgIs DEF Msg, Types
<1>4. News(0, x) /\ x.type \notin {"incoming", "create"}
  BY <1>2, <1>3 DEF News
<1>5. queue' = Append(Left(0), x)
  BY <1>1, AtOnce
<1> HIDE DEF x
<1>6. Handles(0) /\ Posting(0)
  BY <1>3, <1>4, <1>5, AtOnce, OnePosted DEF WInv
<1>7. UNCHANGED <<pjsua, users, tab, dialogs, ring>>
  BY DEF MediaState
<1>8. CallsGo(0)
  BY <1>7, CallsStay DEF pjsua, users
<1> QED BY <1>6, <1>7, <1>8, AtOnce, QuietStep

LEMMA ByeDoneSteps ==
  ASSUME WInv, NEW k \in Calls, ByeDone(k)
  PROVE  Steps(0)
<1>1. /\ inv[k] = "hanging" /\ queue' = Left(0)
      /\ UNCHANGED <<role, number, slot, hidden, tab, dialogs, ring>>
  BY AtOnce DEF ByeDone, users
<1>2. \A x \in Calls : inv'[x] = IF x = k THEN "over" ELSE inv[x]
  BY DEF ByeDone, WInv, IInv, CoreInv, CoreType
<1>3. CallsGo(0)
  BY <1>1, <1>2 DEF CallsGo, Begins, Lives
<1>4. Handles(0) /\ Posting(0)
  BY <1>1, AtOnce, NothingPosted DEF WInv
<1> QED BY <1>1, <1>3, <1>4, AtOnce, QuietStep

LEMMA DeclineSteps ==
  ASSUME WInv, NEW s, Decline(s)
  PROVE  Steps(0)
<1> DEFINE S == At(s) \intersect Active
<1>1. /\ S \in SUBSET Active
      /\ inv' = [x \in Calls |-> IF x \in S THEN "hanging" ELSE inv[x]]
      /\ UNCHANGED <<role, number, slot, hidden, tab>>
      /\ queue' = Left(0) \o Told(S, Ended)
      /\ Close(s)
  BY AtOnce DEF Decline, End
<1> HIDE DEF S
<1>2. Handles(0) /\ Posting(0) /\ CallsGo(0)
  BY <1>1, AtOnce, EndPosted DEF WInv
<1>3. DialogsGo(0) /\ RingGoes(0)
  BY <1>1, CloseGoes DEF WInv, Windows
<1> QED BY <1>1, <1>2, <1>3, AtOnce, QuietTabs DEF Steps

LEMMA HangupFastSteps ==
  ASSUME WInv, NEW S \in SUBSET Enum, HangupFast(S)
  PROVE  Steps(0)
<1> DEFINE T == S \intersect Active
<1>1. /\ T \in SUBSET Active
      /\ inv' = [x \in Calls |-> IF x \in T THEN "hanging" ELSE inv[x]]
      /\ UNCHANGED <<role, number, slot, hidden, dialogs, ring>>
      /\ queue' = Left(0) \o Told(T, Ended)
      /\ tab' = TabAfter(S)
  BY AtOnce DEF HangupFast, InvAfter, ToldAfter
<1>2. \A x \in T : x \notin Active'
  <2>1. T \in SUBSET Calls
    BY DEF Active
  <2> HIDE DEF T
  <2> QED BY <1>1, <2>1, ActiveNext DEF Going
<1>3. Handles(0) /\ Posting(0) /\ CallsGo(0)
  <2> HIDE DEF T
  <2> QED BY <1>1, AtOnce, EndPosted DEF WInv
<1>4. TabsGo(0)
  BY <1>1, <1>2, AtOnce, HungUpTabs DEF WInv
<1>5. DialogsGo(0) /\ RingGoes(0)
  <2>1. DialogsShow /\ dialogs' = dialogs /\ (ring' => ring)
    BY <1>1, Zenon DEF WInv, Windows
  <2> QED BY <2>1, AtOnce, QuietScreen, Zenon
<1> QED BY <1>3, <1>4, <1>5 DEF Steps

\* Steps of the timers, the sounds and the user that leave the calls alone
LEMMA CallsAlone ==
  ASSUME WInv, NEW d, Takeable(d), Quiet(d), Handles(d), Posting(d),
         UNCHANGED <<pjsua, users, tab, dialogs>>, ring' => ring
  PROVE  Steps(d)
<1>1. CallsGo(d)
  BY CallsStay DEF pjsua, users
<1> QED BY <1>1, QuietStep

LEMMA AutoAnswerTimerSteps ==
  ASSUME WInv, AutoAnswerTimer
  PROVE  Steps(0)
<1>1. Handles(0) /\ Posting(0)
  <2>1. AutoAnswer(aaTimer, Left(0)) \/ queue' = Left(0)
    BY AtOnce DEF AutoAnswerTimer
  <2> QED BY <2>1, AtOnce, AutoAnswerIs, NothingPosted DEF WInv
<1>2. UNCHANGED <<pjsua, users, tab, dialogs>> /\ (ring' => ring)
  BY DEF AutoAnswerTimer
<1> QED BY <1>1, <1>2, AtOnce, CallsAlone

LEMMA SoundDoneSteps ==
  ASSUME WInv, SoundDone
  PROVE  Steps(0)
<1>1. Handles(0) /\ Posting(0)
  <2>1. AutoAnswer(aaPlay, Left(0)) \/ queue' = Left(0)
    BY AtOnce DEF SoundDone
  <2> QED BY <2>1, AtOnce, AutoAnswerIs, NothingPosted DEF WInv
<1>2. UNCHANGED <<pjsua, users, tab, dialogs>> /\ (ring' => ring)
  BY DEF SoundDone
<1> QED BY <1>1, <1>2, AtOnce, CallsAlone

LEMMA AnswerCommandSteps ==
  ASSUME WInv, AnswerCommand
  PROVE  Steps(0)
<1>1. PICK s \in Slots : Known(s) /\ queue' = Append(queue, Msg("answer", s, NoCall))
  <2>1. CASE \E k \in Active : queue' = Append(queue, Msg("answer", slot[k], NoCall))
    <3>1. PICK k \in Active : queue' = Append(queue, Msg("answer", slot[k], NoCall))
      BY <2>1
    <3>2. Known(slot[k]) /\ slot[k] \in Slots
      BY ActiveIs DEF Known, Active, Going, WInv, IInv, CoreInv, SlotsApart, Enum
    <3> QED BY <3>1, <3>2
  <2>2. CASE dialogs # <<>> /\ queue' = Append(queue, Msg("answer", dialogs[1], NoCall))
    <3>1. dialogs[1] \in Slots /\ Known(dialogs[1])
      <4>1. Len(dialogs) \in Nat /\ Len(dialogs) # 0
        BY <2>2, EmptySeq, LenProperties DEF WInv, IInv, UIType
      <4>2. PICK k \in Calls : Rung(dialogs[1], k)
        BY <4>1 DEF WInv, Windows, DialogsShow
      <4>3. inv[k] # "none"
        BY <4>2, CallsFinite, MessageOf DEF WInv, Rung, Closed, Ringing
      <4> QED BY <4>1, <4>2, <4>3, ElementOfSeq DEF WInv, IInv, UIType, Known, Rung
    <3> QED BY <2>2, <3>1
  <2> QED BY <2>1, <2>2 DEF AnswerCommand
<1> DEFINE x == Msg("answer", s, NoCall)
<1>2. x \in Message /\ News(0, x) /\ x.type \notin {"incoming", "create"}
  BY <1>1, MsgIs DEF Types, News, Msg
<1>3. queue' = Append(Left(0), x)
  BY <1>1, AtOnce
<1> HIDE DEF x
<1>4. Handles(0) /\ Posting(0)
  BY <1>2, <1>3, AtOnce, OnePosted DEF WInv
<1>5. UNCHANGED <<pjsua, users, tab, dialogs, ring>>
  BY DEF AnswerCommand
<1> QED BY <1>4, <1>5, AtOnce, CallsAlone

LEMMA CloseDialogSteps ==
  ASSUME WInv, NEW s, CloseDialog(s)
  PROVE  Steps(0)
<1>1. queue' = Left(0) /\ Close(s) /\ tab' = tab /\ UNCHANGED <<inv, role, number, slot, hidden>>
  BY AtOnce DEF CloseDialog, pjsua, users
<1>2. Handles(0) /\ Posting(0)
  BY <1>1, AtOnce, NothingPosted DEF WInv
<1>3. DialogsGo(0) /\ RingGoes(0)
  BY <1>1, CloseGoes DEF WInv, Windows
<1> QED BY <1>1, <1>2, <1>3, AtOnce, QuietTabs, CallsStay DEF Steps

LEMMA CloseTabSteps ==
  ASSUME WInv, NEW n \in Numbers, CloseTab(n)
  PROVE  Steps(0)
<1>1. /\ queue' = Left(0) /\ UNCHANGED <<inv, role, number, slot, hidden, dialogs, ring>>
      /\ At(tab[n]) = {}
  BY AtOnce DEF CloseTab, pjsua, users
<1>2. Handles(0) /\ Posting(0)
  BY <1>1, AtOnce, NothingPosted DEF WInv
<1>3. \A x \in Numbers : tab'[x] = IF x = n THEN NoTab ELSE tab[x]
  BY DEF CloseTab, WInv, IInv, UIType
<1>4. TabsGo(0)
  <2>1. \A x \in Numbers : tab'[x] = tab[x] \/ tab'[x] \notin Slots
    BY <1>3, NoSlotIs
  <2>2. \A k \in Active : number[k] \in Numbers /\ slot[k] \in Slots
    BY DEF WInv, IInv, UIType, CoreInv, SlotsApart, Enum, Active
  <2>3. \A k \in Active : tab[number[k]] = slot[k] => tab'[number[k]] = slot[k]
    <3>1. \A k \in Active : tab[n] # slot[k]
      BY <1>1 DEF At, Enum
    <3> QED BY <1>3, <2>2, <3>1
  <2> QED BY <2>1, <2>3, AtOnce, QuietIs DEF TabsGo, Lasting
<1>5. DialogsGo(0) /\ RingGoes(0)
  <2>1. DialogsShow /\ dialogs' = dialogs /\ (ring' => ring)
    BY <1>1, Zenon DEF WInv, Windows
  <2> QED BY <2>1, AtOnce, QuietScreen, Zenon
<1> QED BY <1>1, <1>2, <1>4, <1>5, CallsStay DEF Steps

-----------------------------------------------------------------------------
(* The handlers *)

\* The message that is handled
LEMMA HeadMessage ==
  ASSUME IInv, queue # <<>>
  PROVE  1 \in 1..Len(queue) /\ Head1 = queue[1] /\ Head1.slot \in Slots
<1>1. Head1.slot \in Slots
  BY HeadIs DEF IInv
<1>2. Len(queue) \in Nat /\ Len(queue) # 0
  BY QueueIs, EmptySeq
<1> QED BY <1>1, <1>2 DEF Head1

\* The dialog of a call is to come.
LEMMA CreatePosted ==
  ASSUME WInv, queue # <<>>, Head1.type = "incoming", inv' = inv,
         queue' = Append(Rest, Msg("create", Head1.slot, NoCall))
                    \o Told(Answerable(Head1.slot), All("ringing"))
  PROVE  Handles(1) /\ Posting(1) /\ Posts(1, Msg("create", Head1.slot, NoCall))
<1> USE DEF WInv
<1> DEFINE c == Msg("create", Head1.slot, NoCall)
<1>t. PICK t : t = Told(Answerable(Head1.slot), All("ringing"))
  OBVIOUS
<1> DEFINE m == <<c>> \o t
<1>1. Takeable(1) /\ Left(1) = Rest /\ Left(1) \in Seq(Message)
  BY Taking, LeftIs
<1>2. c \in Message /\ c.type = "create" /\ News(1, c)
  <2>1. c \in Message
    BY HeadMessage, MsgIs DEF Types
  <2>2. c.type = "create" /\ c.call = NoCall /\ c.slot = Head1.slot
    BY DEF Msg
  <2>3. First(1, {"incoming"})
    BY DEF First
  <2> QED BY <2>1, <2>2, <2>3 DEF News
<1>3. Plain(1, t)
  <2>1. All("ringing") \in [Calls -> Types] /\ \A k \in Calls : All("ringing")[k] = "ringing"
    BY DEF All, Types
  <2>2. Answerable(Head1.slot) \in SUBSET Active /\ \A k \in Answerable(Head1.slot) : k \in Calls
    BY AnswerableIs DEF IInv
  <2> QED BY <1>t, <2>1, <2>2, PlainTold
<1>4. queue' = Append(Left(1), c) \o t
  BY <1>1, <1>t
<1> HIDE DEF c
<1>5. t \in Seq(Message) /\ <<c>> \in Seq(Message) /\ Len(<<c>>) = 1 /\ <<c>>[1] = c
  BY <1>2, <1>3 DEF Plain
<1>6. queue' = Left(1) \o m
  <2>1. Append(Left(1), c) = Left(1) \o <<c>>
    BY <1>1, <1>2, AppendIsConcat
  <2>2. (Left(1) \o <<c>>) \o t = Left(1) \o (<<c>> \o t)
    BY <1>1, <1>5, ConcatAssociative
  <2> QED BY <1>4, <2>1, <2>2
<1>7. /\ m \in Seq(Message)
      /\ 1 \in 1..Len(m) /\ m[1] = c
      /\ \A i \in 1..Len(m) : i = 1 \/ \E j \in 1..Len(t) : m[i] = t[j]
  <2>1. /\ m \in Seq(Message)
        /\ \A i \in 1..Len(<<c>>) : i \in 1..Len(m) /\ m[i] = <<c>>[i]
        /\ \A i \in 1..Len(m) :
             \/ i \in 1..Len(<<c>>) /\ m[i] = <<c>>[i]
             \/ i > Len(<<c>>) /\ i - Len(<<c>>) \in 1..Len(t) /\ m[i] = t[i - Len(<<c>>)]
    BY <1>5, ConcatIs
  <2>2. 1 \in 1..Len(m) /\ m[1] = c
    BY <1>5, <2>1
  <2>3. ASSUME NEW i \in 1..Len(m), i # 1 PROVE \E j \in 1..Len(t) : m[i] = t[j]
    <3>1. ~(i \in 1..Len(<<c>>))
      BY <1>5, <2>3
    <3> QED BY <2>1, <3>1
  <2> QED BY <2>1, <2>2, <2>3
<1> HIDE DEF m
<1>8. Adds(1, m)
  BY <1>6, <1>7 DEF Adds
<1>9. \A i \in 1..Len(m) : News(1, m[i]) /\ (i # 1 => m[i].type \notin {"incoming", "create"})
  BY <1>2, <1>3, <1>7 DEF Plain
<1>10. Posting(1)
  <2>1. m[1].type = "create"
    BY <1>2, <1>7
  <2>2. ASSUME NEW i \in 1..Len(m), NEW j \in 1..Len(m),
               m[i].type \in {"incoming", "create"},
               m[i].type = "incoming" \/ m[j].type = "create"
        PROVE  i = j
    BY <1>9, <2>1, <2>2
  <2> QED BY <1>1, <1>8, <1>9, <2>2, PostingIs
<1>11. Handles(1) /\ Posts(1, c)
  BY <1>1, <1>7, <1>8, AddsIs
<1> QED BY <1>10, <1>11 DEF c

LEMMA HandleIncomingSteps ==
  ASSUME WInv, queue # <<>>, HandleIncoming
  PROVE  Steps(1)
<1> USE DEF WInv
<1>1. Takeable(1) /\ Left(1) = Rest
  BY Taking
<1>2. Head1.type = "incoming" /\ UNCHANGED <<tab, dialogs>>
  BY DEF HandleIncoming
<1>3. Quiet(1)
  BY <1>2 DEF Quiet
<1>4. CASE Refuse(Head1.slot, Rest) /\ ring' = ring
  BY <1>1, <1>2, <1>3, <1>4, RefuseSteps
<1>5. CASE ring' = FALSE /\ queue' = Rest /\ UNCHANGED <<pjsua, users>>
  <2>1. Handles(1) /\ Posting(1)
    BY <1>1, <1>5, NothingPosted
  <2> QED BY <1>1, <1>2, <1>3, <1>5, <2>1, CallsAlone
<1>6. CASE AutoAnswer(Head1.slot, Rest) /\ UNCHANGED <<pjsua, users, ring>>
  <2>1. Handles(1) /\ Posting(1)
    BY <1>1, <1>6, AutoAnswerIs
  <2> QED BY <1>1, <1>2, <1>3, <1>6, <2>1, CallsAlone
<1>7. CASE /\ queue' = Append(Rest, Msg("create", Head1.slot, NoCall))
                         \o Told(Answerable(Head1.slot), All("ringing"))
           /\ UNCHANGED <<pjsua, users>>
  <2>1. UNCHANGED <<inv, role, number, slot, hidden>>
    BY <1>7 DEF pjsua, users
  <2>2. Handles(1) /\ Posting(1) /\ Posts(1, Msg("create", Head1.slot, NoCall))
    BY <1>2, <1>7, <2>1, CreatePosted
  <2>3. First(1, {"incoming"})
    BY <1>2 DEF First
  <2>4. RingGoes(1)
    BY <1>2, <1>3, <2>2, <2>3, QuietRing
  <2>5. TabsGo(1) /\ DialogsGo(1)
    BY <1>2, <1>3, QuietTabs, QuietDialogs DEF Windows
  <2> QED BY <2>1, <2>2, <2>4, <2>5, CallsStay DEF Steps
<1> QED BY <1>4, <1>5, <1>6, <1>7 DEF HandleIncoming

LEMMA HandleCreateSteps ==
  ASSUME WInv, queue # <<>>, HandleCreate
  PROVE  Steps(1)
<1> USE DEF WInv
<1>1. Takeable(1) /\ Left(1) = Rest /\ 1 \in 1..Len(queue) /\ Head1 = queue[1]
  BY Taking, HeadMessage
<1>2. /\ Head1.type = "create" /\ queue' = Rest /\ tab' = tab
      /\ ring' = (ring /\ (At(Head1.slot) # {} \/ dialogs # <<>>))
      /\ dialogs' = IF \E k \in At(Head1.slot) : data[k] = "attached"
                    THEN Append(dialogs, Head1.slot) ELSE dialogs
      /\ UNCHANGED <<inv, role, number, slot, hidden>>
  BY DEF HandleCreate, pjsua, users
<1>3. Handles(1) /\ Posting(1) /\ CallsGo(1)
  BY <1>1, <1>2, NothingPosted, CallsStay
<1>4. /\ ~First(1, States1) /\ ~First(1, Giving) /\ ~First(1, Lasting) /\ ~First(1, Closers)
      /\ ~First(1, {"incoming"}) /\ First(1, {"create"})
  BY <1>2 DEF First, States1, Giving, Lasting, Closers
<1>5. TabsGo(1)
  BY <1>2, <1>4 DEF TabsGo, Lasting
<1>6. Len(dialogs) \in Nat /\ dialogs \in Seq(Slots) /\ (Len(dialogs) = 0 => dialogs = <<>>)
  BY LenProperties, EmptySeq DEF IInv, UIType
<1>7. CASE \E k \in At(Head1.slot) : data[k] = "attached"
  <2>1. Head1.slot \in Slots /\ \A j \in 1..Len(dialogs) : dialogs[j] # Head1.slot
    BY <1>1, <1>2, HeadMessage DEF Windows, DialogsCome
  <2>2. PICK r : r = dialogs'
    OBVIOUS
  <2>3. /\ Len(r) = Len(dialogs) + 1
        /\ \A i \in 1..Len(dialogs) : r[i] = dialogs[i]
        /\ r[Len(dialogs) + 1] = Head1.slot
    BY <1>2, <1>6, <1>7, <2>1, <2>2, AppendProperties
  <2>4. ASSUME NEW i \in 1..Len(r)
        PROVE  \/ i = Len(dialogs) + 1 /\ r[i] = Head1.slot
               \/ i \in 1..Len(dialogs) /\ r[i] = dialogs[i]
    <3>1. i = Len(dialogs) + 1 \/ i \in 1..Len(dialogs)
      BY <1>6, <2>3
    <3> QED BY <2>3, <3>1
  <2>5. ASSUME NEW i \in 1..Len(r), NEW j \in 1..Len(r), r[i] = r[j] PROVE i = j
    <3>1. \A a, b \in 1..Len(dialogs) : dialogs[a] = dialogs[b] => a = b
      BY DEF Windows, DialogsShow
    <3> QED BY <2>1, <2>4, <2>5, <3>1
  <2>6. DialogsGo(1)
    <3>1. \A i \in 1..Len(r) :
            \/ \E j \in 1..Len(dialogs) : r[i] = dialogs[j]
            \/ r[i] = Head1.slot
      BY <2>4
    <3> QED BY <1>4, <1>7, <2>2, <2>5, <3>1 DEF DialogsGo
  <2>7. Len(dialogs') # 0
    BY <1>6, <2>2, <2>3
  <2>8. RingGoes(1)
    <3>1. ring' => ring
      BY <1>2, Zenon
    <3> QED BY <1>4, <2>7, <3>1, Zenon DEF RingGoes
  <2> QED BY <1>3, <1>5, <2>6, <2>8 DEF Steps
<1>8. CASE ~\E k \in At(Head1.slot) : data[k] = "attached"
  <2>1. dialogs' = dialogs
    BY <1>2, <1>8
  <2>2. DialogsGo(1)
    BY <1>4, <2>1 DEF DialogsGo, Windows, DialogsShow
  <2>3. ring' => ring /\ (At(Head1.slot) # {} \/ dialogs # <<>>)
    BY <1>2, Zenon
  <2>4. ring' => Len(dialogs') # 0 \/ \E k \in At(Head1.slot) : data[k] # "attached"
    <3>1. At(Head1.slot) # {} => \E k \in At(Head1.slot) : data[k] # "attached"
      BY <1>8
    <3>2. dialogs # <<>> => Len(dialogs') # 0
      BY <1>6, <2>1
    <3> QED BY <2>3, <3>1, <3>2, Zenon
  <2>5. RingGoes(1)
    BY <1>4, <2>1, <2>3, <2>4, Zenon DEF RingGoes
  <2> QED BY <1>3, <1>5, <2>2, <2>5 DEF Steps
<1> QED BY <1>7, <1>8

LEMMA HandleStateSteps ==
  ASSUME WInv, queue # <<>>, HandleState
  PROVE  Steps(1)
<1> USE DEF WInv
<1>k. PICK k : k = Head1.call
  OBVIOUS
<1>s. PICK s : s = Head1.slot
  OBVIOUS
<1>1. Takeable(1) /\ Left(1) = Rest /\ 1 \in 1..Len(queue) /\ Head1 = queue[1] /\ s \in Slots
  BY <1>s, Taking, HeadMessage
<1>2. /\ Head1.type \in Giving
      /\ tab' = IF Taken(number[k], s) \/ (Head1.type = "media" /\ tab[number[k]] = NoTab)
                THEN tab ELSE [tab EXCEPT ![number[k]] = s]
      /\ queue' = IF Taken(number[k], s) /\ Head1.type = "ringing"
                  THEN Append(Rest, Msg("reject", s, NoCall)) ELSE Rest
      /\ IF role[k] = "in" /\ Head1.type = "answered"
         THEN DropDialog(s, FALSE) ELSE UNCHANGED <<dialogs, ring>>
      /\ UNCHANGED <<inv, role, number, slot, hidden>>
  BY <1>k, <1>s DEF HandleState, Giving, States1, pjsua, users
<1>3. /\ k \in Calls /\ s = slot[k] /\ number[k] \in Numbers /\ inv[k] # "none"
      /\ ~First(1, Lasting) /\ First(1, Giving) /\ ~First(1, {"create"})
  <2>1. k # NoCall
    BY <1>k, <1>1, <1>2 DEF Windows, Labelled, Unlabelled, Giving, States1
  <2>2. k \in Calls /\ s = slot[k] /\ inv[k] # "none"
    BY <1>k, <1>s, <1>1, <2>1, MessageOf DEF Windows, Labelled
  <2> QED BY <1>2, <2>2 DEF IInv, UIType, First, Lasting, Giving, States1
<1>4. Handles(1) /\ Posting(1)
  <2>1. CASE queue' = Rest
    BY <1>1, <2>1, NothingPosted
  <2>2. CASE queue' = Append(Rest, Msg("reject", s, NoCall))
    <3> DEFINE x == Msg("reject", s, NoCall)
    <3>1. x \in Message /\ News(1, x) /\ x.type \notin {"incoming", "create"}
      BY <1>1, <1>3, MsgIs DEF Types, News, Msg, Known
    <3>2. queue' = Append(Left(1), x)
      BY <1>1, <2>2
    <3> HIDE DEF x
    <3> QED BY <1>1, <3>1, <3>2, OnePosted
  <2> QED BY <1>2, <2>1, <2>2
<1>5. CallsGo(1)
  BY <1>2, CallsStay
\* No other call of the number has the tab still, unless it was lost: its last
\* message is behind.
<1>6. k \in Active /\ Taken(number[k], s) => LostNumber(number[k])
  <2> SUFFICES ASSUME k \in Active, tab[number[k]] \in Slots, tab[number[k]] # s,
                      ~LostNumber(number[k])
               PROVE  FALSE
    BY DEF Taken
  <2>1. PICK x \in Calls : Shown(number[k], x)
    BY <1>3 DEF Windows, TabsShow
  <2>2. x # k /\ number[x] = number[k] /\ ~hidden[x]
    BY <1>3, <2>1 DEF Shown
  <2>3. x \notin Active
    BY <1>3, <2>2 DEF Windows, OnePerNumber
  <2>6. ~IsLost(x)
    BY <2>2 DEF LostNumber
  <2>4. PICK i \in 1..Len(queue) : queue[i].call = x /\ IsFinal(queue[i])
    BY <2>1, <2>3, <2>6 DEF Shown, Ends
  <2>5. i < 1
    BY <1>k, <1>1, <2>2, <2>4 DEF Windows, InTurn
  <2> QED BY <2>4, <2>5, QueueIs
<1>7. \A n \in Numbers : \/ tab'[n] = tab[n]
                         \/ n = number[k] /\ tab'[n] = s /\ ~Taken(n, s)
  BY <1>2, <1>3 DEF IInv, UIType
<1>8. TabsGo(1)
  <2>1. ASSUME NEW n \in Numbers
        PROVE  \/ tab'[n] = tab[n]
               \/ First(1, Giving) /\ number[Head1.call] = n /\ tab'[n] = Head1.slot
    BY <1>k, <1>s, <1>3, <1>7
  <2>2. ASSUME NEW x \in Active, tab[number[x]] = slot[x], tab'[number[x]] # slot[x]
        PROVE  x \notin Active'
    <3>1. number[x] \in Numbers /\ slot[x] \in Slots
      BY DEF IInv, UIType, CoreInv, SlotsApart, Enum, Active
    <3>2. tab'[number[x]] # tab[number[x]]
      BY <2>2
    <3>3. number[x] = number[k] /\ tab'[number[x]] = s /\ tab[number[x]] \notin Slots \ {s}
      BY <1>7, <3>1, <3>2 DEF Taken
    <3> QED BY <2>2, <3>1, <3>3
  <2>3. k \in Active /\ Head1.type # "media" => tab'[number[k]] = s \/ LostNumber(number[k])
    BY <1>2, <1>3, <1>6 DEF IInv, UIType
  <2>4. First(1, States1) /\ Head1.call \in Active =>
          tab'[number[Head1.call]] = Head1.slot \/ LostNumber(number[Head1.call])
    BY <1>k, <1>s, <2>3 DEF First, States1
  <2>5. ~First(1, {"ended", "unanswered"})
    BY <1>3 DEF Lasting
  <2>6. \A x \in Active : tab[number[x]] = slot[x] /\ tab'[number[x]] # slot[x] => x \notin Active'
    BY <2>2
  <2> QED BY <2>1, <2>4, <2>5, <2>6 DEF TabsGo
<1>9. DialogsGo(1) /\ RingGoes(1)
  <2>1. CASE role[k] = "in" /\ Head1.type = "answered"
    <3>1. DropDialog(Head1.slot, FALSE)
      BY <1>s, <1>2, <2>1
    <3> QED BY <1>3, <3>1, DropGoes DEF Windows
  <2>2. CASE ~(role[k] = "in" /\ Head1.type = "answered")
    <3>1. UNCHANGED <<dialogs, ring>>
      BY <1>2, <2>2
    <3>2. ~(First(1, Closers) /\ role[k] = "in")
      BY <1>2, <2>2 DEF First, Closers, Giving, States1
    <3>3. DialogsGo(1)
      BY <1>k, <3>1, <3>2 DEF DialogsGo, Windows, DialogsShow
    <3>4. RingGoes(1)
      BY <1>k, <1>3, <3>1, <3>2, Zenon DEF RingGoes
    <3> QED BY <3>3, <3>4
  <2> QED BY <2>1, <2>2
<1> QED BY <1>4, <1>5, <1>8, <1>9 DEF Steps

LEMMA HandleEndedSteps ==
  ASSUME WInv, queue # <<>>, HandleEnded
  PROVE  Steps(1)
<1> USE DEF WInv
<1>k. PICK k : k = Head1.call
  OBVIOUS
<1>s. PICK s : s = Head1.slot
  OBVIOUS
<1>1. Takeable(1) /\ Left(1) = Rest /\ 1 \in 1..Len(queue) /\ Head1 = queue[1] /\ s \in Slots
  BY <1>s, Taking, HeadMessage
<1>2. /\ Head1.type \in Lasting /\ queue' = Rest
      /\ tab' = [n \in Numbers |-> IF n \in FirstTab(s) THEN NoSlot ELSE tab[n]]
      /\ IF role[k] = "in" THEN DropDialog(s, Head1.type = "ended") ELSE UNCHANGED <<dialogs, ring>>
      /\ UNCHANGED <<inv, role, number, slot, hidden>>
  BY <1>k, <1>s DEF HandleEnded, Lasting, pjsua
<1>3. /\ k \in Calls /\ s = slot[k] /\ Here(k) /\ k \notin Active
      /\ First(1, Lasting) /\ ~First(1, States1) /\ ~First(1, Giving) /\ ~First(1, {"create"})
  <2>1. k # NoCall
    BY <1>k, <1>1, <1>2 DEF Windows, Labelled, Unlabelled, Lasting
  <2>2. k \in Calls /\ k \notin Active
    BY <1>k, <1>1, <1>2, <2>1, MessageOf DEF IsFinal, Lasting
  <2>3. s = slot[k] /\ Here(k)
    BY <1>k, <1>s, <1>1, <2>1 DEF Windows, Labelled, Here
  <2> QED BY <1>2, <2>2, <2>3 DEF First, Lasting, Giving, States1
<1>4. Handles(1) /\ Posting(1) /\ CallsGo(1)
  BY <1>1, <1>2, NothingPosted, CallsStay
<1>5. \A n \in Numbers : tab'[n] = IF n \in FirstTab(s) THEN NoSlot ELSE tab[n]
  BY <1>2
\* One tab at most shows the slot.
<1>6. ASSUME NEW n \in Numbers, NEW m \in Numbers, tab[n] = s, tab[m] = s
      PROVE  n = m
  <2>1. PICK a \in Calls : Shown(n, a)
    BY <1>1, <1>6 DEF Windows, TabsShow
  <2>2. PICK b \in Calls : Shown(m, b)
    BY <1>1, <1>6 DEF Windows, TabsShow
  <2>3. a = k
    BY <1>3, <1>6, <2>1 DEF Shown, Sole
  <2>4. a = b
    BY <1>3, <1>6, <2>2, <2>3 DEF Shown, Sole
  <2> QED BY <2>1, <2>2, <2>4 DEF Shown
<1>7. \A n \in Numbers : tab[n] = s => n \in FirstTab(s)
  <2> SUFFICES ASSUME NEW n \in Numbers, tab[n] = s, NEW m \in Numbers, m < n, tab[m] = s
               PROVE  FALSE
    BY DEF FirstTab
  <2>1. n = m
    BY <1>6
  <2>2. n \in Nat
    BY NumbersAssumption
  <2> QED BY <2>1, <2>2
<1>8. TabsGo(1)
  <2>1. \A n \in Numbers : tab'[n] = tab[n] \/ tab'[n] \notin Slots
    BY <1>5, NoSlotIs
  <2>2. \A n \in Numbers : tab'[n] # s
    BY <1>1, <1>5, <1>7, NoSlotIs
  <2>3. ASSUME NEW x \in Active, tab[number[x]] = slot[x], tab'[number[x]] # slot[x]
        PROVE  FALSE
    <3>1. number[x] \in Numbers /\ x \in Calls
      BY DEF IInv, UIType, Active
    <3>2. slot[x] = s
      BY <1>5, <2>3, <3>1 DEF FirstTab
    <3>3. x = k
      BY <1>3, <3>1, <3>2, HereIs DEF Windows, OneHere
    <3> QED BY <1>3, <3>3
  <2> QED BY <1>s, <1>3, <2>1, <2>2, <2>3 DEF TabsGo, Lasting
<1>9. DialogsGo(1) /\ RingGoes(1)
  <2>1. CASE role[k] = "in"
    <3>1. DropDialog(Head1.slot, Head1.type = "ended")
      BY <1>s, <1>2, <2>1
    <3>2. First(1, Closers) => ~(Head1.type = "ended")
      BY DEF First, Closers
    <3> QED BY <1>3, <3>1, <3>2, DropGoes DEF Windows
  <2>2. CASE role[k] # "in"
    <3>1. UNCHANGED <<dialogs, ring>>
      BY <1>2, <2>2
    <3>3. DialogsGo(1)
      BY <1>k, <2>2, <3>1 DEF DialogsGo, Windows, DialogsShow
    <3>4. RingGoes(1)
      BY <1>k, <1>3, <2>2, <3>1, Zenon DEF RingGoes
    <3> QED BY <3>3, <3>4
  <2> QED BY <2>1, <2>2
<1> QED BY <1>4, <1>8, <1>9 DEF Steps

\* Calls are answered, and the others hung up before in single mode.
LEMMA OnCallAnswerSteps ==
  ASSUME WInv, NEW d, Takeable(d), Quiet(d), NEW s, OnCallAnswer(s, Left(d)),
         \A i \in 1..Len(queue) : queue[i].type = "incoming" /\ i > d => queue[i].slot # s
  PROVE  Steps(d)
<1> USE DEF WInv
<1>1. CASE \E k \in At(s) : Ringing(k)
  <2> DEFINE S == IF SingleMode THEN NotIncoming ELSE {}
             T == S \intersect Active
             A == Answerable(s)
  <2>a. PICK a : a = Told(T, Ended)
    OBVIOUS
  <2>b. PICK b : b = Told(A, All("answered"))
    OBVIOUS
  <2>1. /\ inv' = [k \in Calls |-> IF k \in A THEN "connecting" ELSE InvAfter(S)[k]]
        /\ queue' = (Left(d) \o a) \o b
        /\ tab' = TabAfter(S)
        /\ ring' = FALSE
        /\ UNCHANGED <<role, number, slot, hidden, dialogs>>
    BY <1>1, <2>a, <2>b DEF OnCallAnswer, ToldAfter
  <2>2. /\ T \in SUBSET Active /\ S \in SUBSET Enum
        /\ \A k \in T : k \in Calls /\ inv[k] \in Going /\ inv[k] # "ringing"
    BY ActiveIs DEF NotIncoming, Ringing, Active
  <2>3. /\ A \in SUBSET Active
        /\ \A k \in A : k \in Calls /\ inv[k] = "ringing" /\ ~hidden[k] /\ slot[k] = s
    BY AnswerableIs DEF Answerable, At, IInv
  <2>4. \A k \in Calls : inv'[k] = IF k \in A THEN "connecting"
                                  ELSE IF k \in T THEN "hanging" ELSE inv[k]
    BY <2>1 DEF InvAfter
  <2>5. \A k \in S \intersect Active : k \notin Active'
    BY <2>2, <2>3, <2>4, ActiveNext DEF Going
  <2> HIDE DEF S, T, A
  <2>6. /\ Plain(d, a)
        /\ \A k \in T : ~hidden[k] => \E i \in 1..Len(a) : a[i] = Msg(Ended[k], slot[k], k)
    BY <2>2, <2>a, PlainTold, EndedType
  <2>7. /\ Plain(d, b)
        /\ \A k \in A : \E i \in 1..Len(b) : b[i] = Msg("answered", slot[k], k)
    <3>1. All("answered") \in [Calls -> Types] /\ \A k \in Calls : All("answered")[k] = "answered"
      BY DEF All, Types
    <3>2. /\ Plain(d, b)
          /\ \A k \in A : ~hidden[k] =>
               \E i \in 1..Len(b) : b[i] = Msg(All("answered")[k], slot[k], k)
      BY <2>3, <2>b, <3>1, PlainTold
    <3> QED BY <2>3, <3>1, <3>2
  <2> DEFINE m == a \o b
  <2>8. Plain(d, m) /\ Among(a, m) /\ Among(b, m)
    <3>1. Plain(d, a) /\ Plain(d, b)
      BY <2>6, <2>7
    <3> QED BY <3>1, PlainJoined
  <2>9. Adds(d, m)
    <3>1. Left(d) \in Seq(Message) /\ a \in Seq(Message) /\ b \in Seq(Message)
      BY <2>6, <2>7, LeftIs DEF Plain
    <3>2. (Left(d) \o a) \o b = Left(d) \o m
      BY <3>1, ConcatAssociative
    <3> QED BY <2>1, <2>8, <3>2 DEF Adds, Plain
  <2> HIDE DEF m
  <2>10. Handles(d) /\ Posting(d) /\ \A j \in 1..Len(m) : Posts(d, m[j])
    BY <2>8, <2>9, PlainPosts
  <2>11. /\ \A k \in T : ~hidden[k] => Posts(d, Msg(Ended[k], slot[k], k))
         /\ \A k \in A : Posts(d, Msg("answered", slot[k], k))
    <3>1. \A i \in 1..Len(a) : Posts(d, a[i])
      BY <2>8, <2>10 DEF Among
    <3>2. \A i \in 1..Len(b) : Posts(d, b[i])
      BY <2>8, <2>10 DEF Among
    <3> QED BY <2>6, <2>7, <3>1, <3>2
  <2>12. ASSUME NEW k \in Calls PROVE ~Begins(k) /\ Lives(d, k)
    <3>1. UNCHANGED <<slot[k], role[k], number[k], hidden[k]>>
      BY <2>1
    <3>2. CASE k \in A
      <4>1. inv[k] = "ringing" /\ inv'[k] = "connecting" /\ ~hidden[k] /\ slot[k] = s
        BY <2>3, <2>4, <3>2
      <4>2. Posts(d, Msg("answered", slot[k], k))
        BY <2>11, <3>2
      <4> QED BY <3>1, <4>1, <4>2 DEF Begins, Lives
    <3>3. CASE k \notin A /\ k \in T
      <4>1. inv[k] \in Going /\ inv'[k] = "hanging"
        BY <2>2, <2>4, <3>3
      <4>2. ~hidden[k] => Posts(d, Msg(Ended[k], slot[k], k))
        BY <2>11, <3>3
      <4> QED BY <3>1, <4>1, <4>2 DEF Begins, Lives, Going
    <3>4. CASE k \notin A /\ k \notin T
      BY <2>4, <3>1, <3>4 DEF Begins, Lives
    <3> QED BY <3>2, <3>3, <3>4
  <2>13. CallsGo(d)
    BY <2>12 DEF CallsGo
  <2>14. TabsGo(d)
    BY <2>1, <2>2, <2>5, HungUpTabs
  <2>15. DialogsGo(d) /\ RingGoes(d)
    <3>1. DialogsGo(d)
      BY <2>1, QuietDialogs DEF Windows
    <3>2. ~ring'
      BY <2>1, Zenon
    <3> QED BY <3>1, <3>2, Zenon DEF RingGoes
  <2> QED BY <2>10, <2>13, <2>14, <2>15 DEF Steps
<1>2. CASE ~\E k \in At(s) : Ringing(k)
  <2>1. queue' = Left(d) /\ UNCHANGED <<pjsua, users, tab, dialogs, ring>>
    BY <1>2 DEF OnCallAnswer
  <2>2. Handles(d) /\ Posting(d)
    BY <2>1, NothingPosted
  <2> QED BY <2>1, <2>2, CallsAlone
<1> QED BY <1>1, <1>2

\* A call that is announced has no tab and no dialog yet, and its announcement is
\* in front of whatever has its slot.
LEMMA HandleAnswerSteps ==
  ASSUME WInv, queue # <<>>, HandleAnswer
  PROVE  Steps(1)
<1> USE DEF WInv
<1>1. Takeable(1) /\ Left(1) = Rest /\ 1 \in 1..Len(queue) /\ Head1 = queue[1]
  BY Taking, HeadMessage
<1>2. CASE Head1.type = "answer" /\ OnCallAnswer(Head1.slot, Rest)
  <2>1. ASSUME NEW i \in 1..Len(queue), queue[i].type = "incoming", i > 1
        PROVE  queue[i].slot # Head1.slot
    <3> SUFFICES ASSUME queue[i].slot = queue[1].slot PROVE FALSE
      BY <1>1
    <3>1. queue[i].slot = slot[queue[i].call]
      BY <2>1 DEF Windows, Labelled, Unlabelled
    <3>2. 1 >= i
      BY <1>1, <2>1, <3>1 DEF Windows, Announced
    <3> QED BY <2>1, <3>2, QueueIs
  <2>2. Quiet(1)
    BY <1>2 DEF Quiet
  <2> QED BY <1>1, <1>2, <2>1, <2>2, OnCallAnswerSteps
<1>3. CASE Head1.type = "reject" /\ Refuse(Head1.slot, Rest) /\ UNCHANGED <<tab, dialogs, ring>>
  <2>1. Quiet(1)
    BY <1>3 DEF Quiet
  <2> QED BY <1>1, <1>3, <2>1, RefuseSteps
<1> QED BY <1>2, <1>3 DEF HandleAnswer

LEMMA AnswerSteps ==
  ASSUME WInv, NEW s, Answer(s)
  PROVE  Steps(0)
<1> USE DEF WInv
<1>1. ASSUME NEW i \in 1..Len(queue), queue[i].type = "incoming"
      PROVE  queue[i].slot # s
  <2>1. queue[i].slot = slot[queue[i].call]
    BY <1>1 DEF Windows, Labelled, Unlabelled
  <2>2. /\ \A j \in 1..Len(dialogs) : dialogs[j] # queue[i].slot
        /\ \A n \in Numbers : tab[n] # queue[i].slot
    BY <1>1, <2>1 DEF Windows, Announced
  <2>3. s \in {tab[n] : n \in Numbers} \union {dialogs[j] : j \in 1..Len(dialogs)}
    <3>1. DOMAIN dialogs = 1..Len(dialogs)
      BY LenProperties DEF IInv, UIType
    <3> QED BY <3>1 DEF Answer, ToSet
  <2> QED BY <2>2, <2>3
<1>2. OnCallAnswer(s, Left(0))
  BY AtOnce DEF Answer
<1> QED BY <1>1, <1>2, AtOnce, OnCallAnswerSteps

-----------------------------------------------------------------------------
(* Calls that begin *)

LEMMA NewPosted ==
  ASSUME IInv, NEW x \in Message, News(0, x), queue' = Append(queue, x)
  PROVE  Handles(0) /\ Posting(0) /\ Posts(0, x)
<1>1. queue' = Append(Left(0), x)
  BY AtOnce
<1>2. PICK m : m = <<x>>
  OBVIOUS
<1>3. Adds(0, m) /\ Len(m) = 1 /\ m[1] = x
  BY <1>1, <1>2, AtOnce, OneAdded
<1>4. \A i \in 1..Len(m) : i = 1
  BY <1>3
<1>5. Posting(0)
  <2>1. \A j \in 1..Len(m) : News(0, m[j])
    BY <1>3, <1>4
  <2>2. \A i, j \in 1..Len(m) : i = j
    BY <1>4
  <2>3. \A i, j \in 1..Len(m) :
          /\ m[i].type \in {"incoming", "create"}
          /\ m[i].type = "incoming" \/ m[j].type = "create"
          => i = j
    BY <2>2
  <2> QED BY <1>3, <2>1, <2>3, AtOnce, PostingIs
<1>6. Handles(0) /\ Posts(0, m[1])
  <2>1. 1 \in 1..Len(m)
    BY <1>3
  <2> QED BY <1>3, <2>1, AtOnce, AddsIs
<1> QED BY <1>3, <1>5, <1>6

\* A call that takes its slot
LEMMA TakesIs ==
  ASSUME IInv, NoEarlyReuse, NEW k \in Calls, NEW n \in Numbers, NEW dir, NEW states,
         Takes(k, n, dir, states), inv'[k] # "none"
  PROVE  /\ Begins(k) /\ ~hidden[k] /\ k \notin Enum
         /\ Alloc \in Slots /\ slot'[k] = Alloc /\ role'[k] = dir /\ number'[k] = n
         /\ \A x \in Enum : slot[x] # slot'[k]
         /\ \A i \in 1..Len(queue) : queue[i].slot # slot'[k]
         /\ \A m \in Numbers : tab[m] # slot'[k]
         /\ \A x \in Calls : x # k => UNCHANGED <<slot[x], role[x], number[x]>>
<1>1. /\ inv[k] = "none" /\ FreeSlots # {}
      /\ role' = [role EXCEPT ![k] = dir]
      /\ number' = [number EXCEPT ![k] = n]
      /\ slot' = [slot EXCEPT ![k] = Alloc]
  BY DEF Takes
<1>2. Alloc \in Slots /\ \A x \in Enum : slot[x] # Alloc
  BY <1>1, AllocIs DEF IInv, CoreInv
<1>3. slot'[k] = Alloc /\ role'[k] = dir /\ number'[k] = n
  BY <1>1 DEF IInv, UIType, CoreInv, CoreType
<1>4. \A x \in Calls : x # k => UNCHANGED <<slot[x], role[x], number[x]>>
  BY <1>1 DEF IInv, UIType, CoreInv, CoreType
<1>5. ~hidden[k] /\ k \notin Enum /\ Begins(k)
  BY <1>1, EnumIs DEF IInv, CoreInv, Mirror, Open, Begins, Going
<1>6. \A i \in 1..Len(queue) : queue[i].slot # slot'[k]
  BY <1>1 DEF NoEarlyReuse
<1>7. ASSUME NEW m \in Numbers, tab[m] = slot'[k] PROVE FALSE
  <2>1. tab[m] \in Slots
    BY <1>2, <1>3, <1>7
  <2> QED BY <1>1, <1>7, <2>1 DEF NoEarlyReuse
<1> QED BY <1>2, <1>3, <1>4, <1>5, <1>6, <1>7

LEMMA IncomingSteps ==
  ASSUME WInv, NoEarlyReuse, NEW k \in Calls, NEW n \in Numbers, Incoming(k, n)
  PROVE  Steps(0)
<1> USE DEF WInv
<1>1. PICK state \in {"ringing", "hanging", "over"} :
        /\ inv' = [inv EXCEPT ![k] = state]
        /\ state # "hanging" => \A x \in Enum : number[x] # n
        /\ \/ state = "ringing" /\ hidden' = hidden
              /\ queue' = Append(queue, Msg("incoming", Alloc, k))
           \/ /\ hidden' = [hidden EXCEPT ![k] = TRUE]
              /\ \/ queue' = queue
                 \/ queue' = Append(queue, Msg("unanswered", Alloc, k))
  BY DEF Incoming, Takes
<1>2. UNCHANGED <<tab, dialogs, ring>>
  BY DEF Incoming
<1>3. \A x \in Calls : inv'[x] = IF x = k THEN state ELSE inv[x]
  BY <1>1 DEF IInv, CoreInv, CoreType
<1>4. \A x \in Calls : x # k => hidden'[x] = hidden[x]
  BY <1>1 DEF IInv, CoreInv, CoreType
<1>5. PICK states : Takes(k, n, "in", states)
  BY DEF Incoming
<1>6. /\ Begins(k) /\ ~hidden[k] /\ k \notin Enum
      /\ Alloc \in Slots /\ slot'[k] = Alloc /\ role'[k] = "in" /\ number'[k] = n
      /\ \A x \in Enum : slot[x] # slot'[k]
      /\ \A i \in 1..Len(queue) : queue[i].slot # slot'[k]
      /\ \A m \in Numbers : tab[m] # slot'[k]
      /\ \A x \in Calls : x # k => UNCHANGED <<slot[x], role[x], number[x]>>
  BY <1>3, <1>5, TakesIs
<1>7. CallsGo(0)
  <2>1. \A x \in Calls : Begins(x) => x = k
    BY <1>3 DEF Begins
  <2>2. \A x \in Active : x \in Enum
    BY DEF Enum
  <2>3. Born(k)
    BY <1>1, <1>3, <1>6, <2>1, <2>2 DEF Born, Going
  <2>4. ASSUME NEW x \in Calls, x # k PROVE Lives(0, x)
    BY <1>3, <1>4, <1>6, <2>4 DEF Lives
  <2> QED BY <1>6, <2>1, <2>3, <2>4 DEF CallsGo
<1>8. Handles(0) /\ Posting(0)
  <2>1. CASE queue' = queue
    BY <2>1, AtOnce, NothingPosted
  <2>2. CASE /\ state = "ringing" /\ hidden' = hidden
             /\ queue' = Append(queue, Msg("incoming", Alloc, k))
    <3>1. PICK x : x = Msg("incoming", Alloc, k)
      OBVIOUS
    <3>2. x \in Message /\ x.call = k /\ x.slot = slot'[k] /\ x.type = "incoming"
      BY <1>6, <3>1, MsgIs DEF Msg, Types
    <3>3. News(0, x)
      BY <1>3, <1>6, <2>2, <3>2 DEF News
    <3> QED BY <2>2, <3>1, <3>2, <3>3, NewPosted
  <2>3. CASE /\ hidden' = [hidden EXCEPT ![k] = TRUE]
             /\ queue' = Append(queue, Msg("unanswered", Alloc, k))
    <3>1. PICK x : x = Msg("unanswered", Alloc, k)
      OBVIOUS
    <3>2. x \in Message /\ x.call = k /\ x.slot = slot'[k] /\ x.type = "unanswered"
      BY <1>6, <3>1, MsgIs DEF Msg, Types
    <3>3. hidden'[k]
      BY <2>3 DEF IInv, CoreInv, CoreType
    <3>4. News(0, x)
      BY <1>6, <3>2, <3>3 DEF News
    <3> QED BY <2>3, <3>1, <3>2, <3>4, NewPosted
  <2> QED BY <1>1, <2>1, <2>2, <2>3
<1> QED BY <1>2, <1>7, <1>8, AtOnce, QuietStep

LEMMA DialSteps ==
  ASSUME WInv, NoEarlyReuse, ~Redial, NEW k \in Calls, NEW n \in Numbers, Dial(k, n)
  PROVE  Steps(0)
<1> USE DEF WInv
<1> DEFINE S == IF SingleMode THEN NotIncoming ELSE {}
           T == S \intersect Active
<1>a. PICK a : a = Told(T, Ended)
  OBVIOUS
<1>x. PICK x : x = Msg("calling", Alloc, k)
  OBVIOUS
<1>1. /\ inv' = [InvAfter(S) EXCEPT ![k] = "calling"]
      /\ queue' = Append(queue \o a, x)
      /\ tab' = [TabAfter(S) EXCEPT ![n] = Alloc]
      /\ UNCHANGED <<hidden, dialogs, ring>>
      /\ \A y \in Active : number[y] # n
      /\ inv[k] = "none"
  BY <1>a, <1>x DEF Dial, Takes, ToldAfter
<1>2. S \in SUBSET Enum /\ T \in SUBSET Active
  BY DEF NotIncoming
<1>3. \A y \in Calls : inv'[y] = IF y = k THEN "calling" ELSE IF y \in T THEN "hanging" ELSE inv[y]
  BY <1>1 DEF InvAfter
<1> HIDE DEF S, T
<1>5. PICK states : Takes(k, n, "out", states)
  BY DEF Dial
<1>6. /\ Begins(k) /\ ~hidden[k] /\ k \notin Enum
      /\ Alloc \in Slots /\ slot'[k] = Alloc /\ number'[k] = n
      /\ \A y \in Enum : slot[y] # slot'[k]
      /\ \A i \in 1..Len(queue) : queue[i].slot # slot'[k]
      /\ \A z \in Numbers : tab[z] # slot'[k]
      /\ \A y \in Calls : y # k => UNCHANGED <<slot[y], role[y], number[y]>>
  BY <1>3, <1>5, TakesIs
<1>7. x \in Message /\ x.call = k /\ x.slot = slot'[k] /\ x.type = "calling"
  BY <1>6, <1>x, MsgIs DEF Msg, Types
<1>8. News(0, x)
  BY <1>1, <1>6, <1>7 DEF News
<1>9. \A y \in T : y \in Calls /\ y # k /\ y \in Enum
  BY <1>2, <1>6 DEF Enum, Active
<1>10. /\ Plain(0, a)
       /\ \A y \in T : ~hidden[y] => \E i \in 1..Len(a) : a[i] = Msg(Ended[y], slot[y], y)
  BY <1>2, <1>9, <1>a, PlainTold, EndedType
<1>b. PICK b : b = <<x>>
  OBVIOUS
<1>11. Plain(0, b) /\ Len(b) = 1 /\ b[1] = x
  BY <1>b, <1>7, <1>8, PlainOne
<1>m. PICK m : m = a \o b
  OBVIOUS
<1>12. Plain(0, m) /\ Among(a, m) /\ Among(b, m)
  BY <1>m, <1>10, <1>11, PlainJoined
<1>13. Adds(0, m)
  <2>1. queue \in Seq(Message) /\ a \in Seq(Message) /\ b \in Seq(Message) /\ m \in Seq(Message)
    BY <1>10, <1>11, <1>12, QueueIs DEF Plain
  <2>2. queue \o a \in Seq(Message)
    BY <2>1, ConcatProperties
  <2>3. Append(queue \o a, x) = (queue \o a) \o b
    BY <1>b, <1>7, <2>2, AppendIsConcat
  <2>4. (queue \o a) \o b = queue \o m
    BY <1>m, <2>1, ConcatAssociative
  <2> QED BY <1>1, <2>1, <2>3, <2>4, AtOnce DEF Adds
<1>14. Handles(0) /\ Posting(0) /\ \A j \in 1..Len(m) : Posts(0, m[j])
  BY <1>12, <1>13, AtOnce, PlainPosts
<1>15. /\ \A y \in T : ~hidden[y] => Posts(0, Msg(Ended[y], slot[y], y))
       /\ Posts(0, x)
  <2>1. \A i \in 1..Len(a) : Posts(0, a[i])
    BY <1>12, <1>14 DEF Among
  <2>2. 1 \in 1..Len(b)
    BY <1>11
  <2>3. Posts(0, x)
    BY <1>11, <1>12, <1>14, <2>2 DEF Among
  <2> QED BY <1>10, <2>1, <2>3
<1>16. CallsGo(0)
  <2>1. \A y \in Calls : Begins(y) => y = k
    <3>1. \A y \in T : inv[y] # "none"
      BY <1>2, <1>9, ActiveIs DEF Going
    <3> QED BY <1>3, <3>1 DEF Begins
  <2>2. \A y \in Active : y \in Enum
    BY DEF Enum
  <2>3. Posts(0, Msg("calling", slot'[k], k))
    BY <1>6, <1>x, <1>15 DEF Posts
  <2>6. inv'[k] = "calling" /\ \A y \in Active : number[y] # number'[k]
    BY <1>1, <1>3, <1>6
  <2>4. Born(k)
    BY <1>6, <2>1, <2>3, <2>6 DEF Born
  <2>5. ASSUME NEW y \in Calls, y # k PROVE Lives(0, y)
    <3>1. UNCHANGED <<slot[y], role[y], number[y], hidden[y]>>
      BY <1>1, <1>6, <2>5
    <3>2. CASE y \in T
      <4>1. inv[y] \in Going /\ inv'[y] = "hanging"
        BY <1>2, <1>3, <2>5, <3>2, ActiveIs
      <4>2. ~hidden[y] => Posts(0, Msg(Ended[y], slot[y], y))
        BY <1>15, <3>2
      <4> QED BY <3>1, <4>1, <4>2 DEF Lives
    <3>3. CASE y \notin T
      BY <1>3, <2>5, <3>1, <3>3 DEF Lives
    <3> QED BY <3>2, <3>3
  <2> QED BY <1>6, <2>1, <2>4, <2>5 DEF CallsGo
<1>17. TabsGo(0)
  <2>1. \A z \in Numbers : tab'[z] = IF z = n THEN Alloc ELSE TabAfter(S)[z]
    BY <1>1 DEF TabAfter
  <2>2. ASSUME NEW z \in Numbers
        PROVE  \/ tab'[z] = tab[z] \/ tab'[z] \notin Slots
               \/ \E y \in Calls : /\ Begins(y) /\ inv'[y] = "calling" /\ ~hidden'[y]
                                   /\ number'[y] = z /\ slot'[y] = tab'[z]
    <3>1. CASE z = n
      BY <1>1, <1>3, <1>6, <2>1, <3>1
    <3>2. CASE z # n
      BY <2>1, <3>2, TabAfterIs, NoSlotIs
    <3> QED BY <3>1, <3>2
  <2>3. ASSUME NEW y \in Active, tab[number[y]] = slot[y], tab'[number[y]] # slot[y]
        PROVE  y \notin Active'
    <3>1. number[y] \in Numbers /\ number[y] # n /\ y \in Enum /\ y \in Calls
      BY <1>1 DEF IInv, UIType, Active, Enum
    <3>2. tab'[number[y]] = TabAfter(S)[number[y]]
      BY <2>1, <3>1
    <3>3. PICK w \in S : tab[number[y]] = slot[w]
      BY <2>3, <3>1, <3>2, TabAfterIs
    <3>4. w = y
      BY <1>2, <2>3, <3>1, <3>3 DEF IInv, CoreInv, SlotsApart
    <3>5. y \in T
      BY <3>3, <3>4 DEF T
    <3> QED BY <1>3, <1>9, <3>1, <3>5, ActiveNext DEF Going
  <2> QED BY <2>2, <2>3, AtOnce, QuietIs DEF TabsGo, Lasting
<1>18. DialogsGo(0) /\ RingGoes(0)
  <2>1. DialogsShow /\ dialogs' = dialogs /\ (ring' => ring)
    BY <1>1, Zenon DEF Windows
  <2> QED BY <2>1, AtOnce, QuietScreen, Zenon
<1> QED BY <1>14, <1>16, <1>17, <1>18 DEF Steps

-----------------------------------------------------------------------------
(* The theorems *)

LEMMA StillSteps == ASSUME WInv, UNCHANGED vars PROVE Steps(0)
<1>1. queue' = Left(0) /\ UNCHANGED <<pjsua, users, tab, dialogs, ring>>
  BY AtOnce DEF vars
<1>2. Handles(0) /\ Posting(0)
  BY <1>1, AtOnce, NothingPosted DEF WInv
<1> QED BY <1>1, <1>2, AtOnce, CallsAlone

LEMMA NextSteps ==
  ASSUME WInv, NoEarlyReuse, ~Redial, Next
  PROVE  \E d \in {0, 1} : Steps(d)
<1>1. CASE Worker
  <2>1. PICK k \in Calls : \/ \E n \in Numbers : Incoming(k, n)
                           \/ Confirm(k) \/ RemoteEnd(k) \/ Lost(k) \/ MediaState(k)
                           \/ TimeOut(k) \/ ByeDone(k)
    BY <1>1 DEF Worker
  <2> QED BY <2>1, IncomingSteps, ConfirmSteps, RemoteEndSteps, LostSteps, MediaStateSteps,
             TimeOutSteps, ByeDoneSteps
<1>2. CASE HandleMessage
  BY <1>2, HandleIncomingSteps, HandleCreateSteps, HandleAnswerSteps, HandleStateSteps,
     HandleEndedSteps DEF HandleMessage
<1>3. CASE AutoAnswerTimer
  BY <1>3, AutoAnswerTimerSteps
<1>4. CASE ForwardTimer
  <2>1. Refuse(fwdTimer, Left(0)) /\ UNCHANGED <<tab, dialogs, ring>>
    BY <1>4, AtOnce DEF ForwardTimer
  <2> QED BY <2>1, AtOnce, RefuseSteps
<1>5. CASE SoundDone
  BY <1>5, SoundDoneSteps
<1>6. CASE User
  <2>1. CASE AnswerCommand
    BY <2>1, AnswerCommandSteps
  <2>2. CASE HangupAll
    <3>1. NotIncoming \in SUBSET Enum /\ HangupFast(NotIncoming)
      BY <2>2 DEF HangupAll, NotIncoming
    <3> QED BY <3>1, HangupFastSteps
  <2>3. CASE \E s \in Slots : Answer(s) \/ CloseDialog(s) \/ Decline(s)
    BY <2>3, AnswerSteps, CloseDialogSteps, DeclineSteps
  <2>4. ASSUME NEW n \in Numbers, Hangup(n) PROVE Steps(0)
    <3>1. At(tab[n]) \in SUBSET Enum /\ HangupFast(At(tab[n]))
      BY <2>4 DEF Hangup, At
    <3> QED BY <3>1, HangupFastSteps
  <2>5. ASSUME NEW n \in Numbers, CloseTab(n) PROVE Steps(0)
    BY <2>5, CloseTabSteps
  <2>6. ASSUME NEW n \in Numbers, NEW k \in Calls, Dial(k, n) PROVE Steps(0)
    BY <2>6, DialSteps
  <2> QED BY <1>6, <2>1, <2>2, <2>3, <2>4, <2>5, <2>6 DEF User
<1> QED BY <1>1, <1>2, <1>3, <1>4, <1>5, <1>6 DEF Next

LEMMA InitWInv == ASSUME Init PROVE WInv
<1>1. IInv
  BY InitIInv
<1>2. /\ Len(queue) = 0 /\ Len(dialogs) = 0 /\ ~ring /\ Active = {} /\ Enum = {}
      /\ \A n \in Numbers : tab[n] \notin Slots
  BY NoSlotIs, EmptySeq DEF Init, Active, Enum, Talks
<1>3. \A k \in Calls : ~Here(k)
  BY <1>2 DEF Here
<1>4. OneHere /\ Labelled /\ TabsShow /\ DialogsShow
  BY <1>2, <1>3 DEF OneHere, Labelled, TabsShow, DialogsShow
<1>5. DialogsCome /\ Announced /\ RingEnds
  BY <1>2 DEF DialogsCome, Announced, RingEnds
<1>6. OnePerNumber /\ InTurn /\ Reaches
  BY <1>2 DEF OnePerNumber, InTurn, Reaches
<1> QED BY <1>1, <1>4, <1>5, <1>6 DEF WInv, Windows

LEMMA StepWInv ==
  ASSUME WInv, ~Redial, [Next]_vars, [NoEarlyReuse]_vars
  PROVE  WInv' /\ \E d \in {0, 1} : Steps(d)
<1>1. \E d \in {0, 1} : Steps(d)
  <2>1. CASE UNCHANGED vars
    BY <2>1, StillSteps
  <2>2. CASE ~UNCHANGED vars
    BY <2>2, NextSteps
  <2> QED BY <2>1, <2>2
<1>2. Windows'
  BY <1>1, WindowsKept
<1>3. IInv'
  BY StepIInv DEF WInv
<1> QED BY <1>1, <1>2, <1>3 DEF WInv

LEMMA WindowsInvariance ==
  ASSUME ~Redial
  PROVE  Spec /\ [][NoEarlyReuse]_vars => []WInv
<1>1. Init => WInv
  BY InitWInv
<1>2. WInv /\ [Next]_vars /\ [NoEarlyReuse]_vars => WInv'
  BY StepWInv
<1> QED BY <1>1, <1>2, PTL DEF Spec

\* No tab is left with a call that is gone, other than those that were lost:
\* OnEndCall finds the tab of every call whose end is posted, by the slot, and a tab
\* is given to a call only in onCallState, in onCallMediaState or when it is dialled.
THEOREM TabsStayCurrent ==
  ASSUME ~Redial
  PROVE  Spec /\ [][NoEarlyReuse]_vars => []TabsCurrent
<1>1. ASSUME WInv PROVE TabsCurrent
  <2>1. DOMAIN queue = 1..Len(queue)
    BY <1>1, LenProperties DEF WInv, IInv, CoreInv, QueueInv
  <2>2. \A k \in Calls : Ends(k) => Final(k) # {}
    BY <2>1 DEF Ends, Final, IsFinal
  <2>3. TabsShow
    BY <1>1 DEF WInv, Windows
  <2> QED BY <2>2, <2>3 DEF TabsCurrent, TabsShow, Shown, IsLost
<1> QED BY <1>1, WindowsInvariance, PTL

\* No ringing dialog is left with a call that does not ring any more, and no call
\* has two: onCallState closes the dialog of a call that is answered or ends, by the
\* slot, and onCreateRingingDlg opens none for a call that is gone.
THEOREM DialogsStayCurrent ==
  ASSUME ~Redial
  PROVE  Spec /\ [][NoEarlyReuse]_vars => []DialogsCurrent
<1>1. ASSUME WInv PROVE DialogsCurrent
  <2>1. DOMAIN queue = 1..Len(queue) /\ DOMAIN dialogs = 1..Len(dialogs)
    BY <1>1, LenProperties DEF WInv, IInv, CoreInv, QueueInv, UIType
  <2>2. \A k \in Calls : Closed(k, 0) =>
          \E j \in DOMAIN queue : /\ queue[j].call = k
                                  /\ queue[j].type \in {"answered", "ended", "unanswered"}
    BY <2>1 DEF Closed, Closers
  <2>3. DialogsShow
    BY <1>1 DEF WInv, Windows
  <2> QED BY <2>1, <2>2, <2>3 DEF DialogsCurrent, DialogsShow, Rung
<1> QED BY <1>1, WindowsInvariance, PTL

\* The ringtone, which onIncomingCall starts before there is a dialog, does not go
\* on when every call is gone or answered, whichever of the handlers comes last.
THEOREM RingtoneStopsInTime ==
  ASSUME ~Redial
  PROVE  Spec /\ [][NoEarlyReuse]_vars => []RingtoneStops
<1>1. ASSUME WInv PROVE RingtoneStops
  <2> SUFFICES ASSUME queue = <<>>, ring PROVE \E k \in Calls : Ringing(k)
    BY DEF RingtoneStops
  <2>1. Len(queue) = 0
    BY EmptySeq
  <2>2. RingEnds /\ DialogsShow
    BY <1>1 DEF WInv, Windows
  <2>3. Len(dialogs) # 0 /\ Len(dialogs) \in Nat
    BY <1>1, <2>1, <2>2, LenProperties DEF RingEnds, WInv, IInv, UIType
  <2>4. 1 \in 1..Len(dialogs)
    BY <2>3
  <2>5. PICK k \in Calls : Rung(dialogs[1], k)
    BY <2>2, <2>4 DEF DialogsShow
  <2> QED BY <2>1, <2>5 DEF Rung, Closed
<1> QED BY <1>1, WindowsInvariance, PTL

\* A call that was made or answered has the tab of its number when every message is
\* handled: AddTab never finds the tab with another call, except one that was lost.
THEOREM CallsStayReachable ==
  ASSUME ~Redial
  PROVE  Spec /\ [][NoEarlyReuse]_vars => []CallsReachable
<1>1. ASSUME WInv PROVE CallsReachable
  <2>1. Reaches
    BY <1>1 DEF WInv, Windows
  <2>2. queue = <<>> => Len(queue) = 0
    BY EmptySeq
  <2> QED BY <2>1, <2>2 DEF CallsReachable, Reaches, LostNumber, IsLost
<1> QED BY <1>1, WindowsInvariance, PTL

\* No step takes the tab from a call that goes on: OnEndCall gives back a tab by the
\* slot, and a call that is dialled or announced takes one that no other has.
THEOREM TabsAreKept ==
  ASSUME ~Redial
  PROVE  Spec /\ [][NoEarlyReuse]_vars => TabKept
<1> DEFINE Kept == \A k \in Active : tab[number[k]] = slot[k] /\ tab'[number[k]] # slot[k] =>
                     k \notin Active'
<1>1. WInv /\ [Next]_vars /\ [NoEarlyReuse]_vars => [Kept]_vars
  <2> SUFFICES ASSUME WInv, [Next]_vars, [NoEarlyReuse]_vars PROVE Kept
    OBVIOUS
  <2>1. PICK d \in {0, 1} : Steps(d)
    BY StepWInv
  <2> QED BY <2>1 DEF Steps, TabsGo
<1>2. TabKept <=> [][Kept]_vars
  BY PTL DEF TabKept
<1> HIDE DEF Kept
<1> QED BY <1>1, <1>2, WindowsInvariance, PTL DEF Spec

-----------------------------------------------------------------------------
(* When there are slots for all the calls, none is taken twice.              *)

Fresh ==
  /\ next <= NCalls
  /\ \A k \in Calls : inv[k] # "none" <=> k <= next
  /\ \A k \in Calls : IF k <= next THEN slot[k] = k - 1 ELSE slot[k] = NoSlot
  /\ \A i \in 1..Len(queue) : queue[i].slot < next

\* The slot that a call takes
LEMMA FreshAlloc ==
  ASSUME IInv, Fresh, NCalls <= NSlots, NEW k \in Calls, NEW n, NEW dir, NEW states,
         Takes(k, n, dir, states)
  PROVE  /\ k = next + 1 /\ next' = k
         /\ slot' = [slot EXCEPT ![k] = next]
<1>0. next \in Nat /\ NSlots \in Nat /\ NCalls \in Nat /\ k \in Nat /\ k >= 1 /\ k <= NCalls
  BY NSlotsAssumption, NCallsAssumption DEF IInv, CoreInv, CoreType, Calls
<1>1. /\ inv[k] = "none" /\ (k > 1 => inv[k - 1] # "none")
      /\ slot' = [slot EXCEPT ![k] = Alloc] /\ next' = Start + 1
  BY DEF Takes
<1>2. k = next + 1
  <2>1. ~(k <= next)
    BY <1>1 DEF Fresh
  <2>2. k > 1 => k - 1 \in Calls
    BY <1>0 DEF Calls
  <2>3. k > 1 => k - 1 <= next
    BY <1>1, <2>2 DEF Fresh
  <2> QED BY <1>0, <2>1, <2>3
<1>3. Start = next /\ next \in Slots
  BY <1>0, <1>2 DEF Start, Slots
<1>4. next \in FreeSlots
  <2>1. ASSUME NEW x \in Calls, inv[x] # "none" PROVE slot[x] # next
    <3>1. x \in Nat /\ x <= next /\ slot[x] = x - 1
      BY <2>1, CallsFinite DEF Fresh
    <3> QED BY <1>0, <3>1
  <2>2. \A x \in Enum : x \in Calls /\ inv[x] # "none"
    BY EnumIs DEF Going
  <2> QED BY <1>3, <2>1, <2>2 DEF FreeSlots, At
<1>5. Alloc = next
  <2> DEFINE A == {s \in FreeSlots : s >= Start}
  <2>1. next \in A /\ A \in SUBSET Nat /\ \A s \in A : next <= s
    BY <1>0, <1>3, <1>4 DEF FreeSlots, Slots
  <2>2. Alloc = Min(A)
    BY <2>1 DEF Alloc
  <2> HIDE DEF A
  <2>3. Min(A) = next
    <3>1. Min(A) = CHOOSE x \in A : \A y \in A : x <= y
      BY DEF Min
    <3>2. \E x \in A : \A y \in A : x <= y
      BY <2>1
    <3>3. Min(A) \in A /\ Min(A) <= next
      BY <2>1, <3>1, <3>2
    <3>4. Min(A) \in Nat /\ next <= Min(A)
      BY <2>1, <3>3
    <3> QED BY <1>0, <3>3, <3>4
  <2> QED BY <2>2, <2>3
<1> QED BY <1>0, <1>1, <1>2, <1>3, <1>5

LEMMA FreshIsNoReuse ==
  ASSUME WInv, Fresh, NCalls <= NSlots, Next
  PROVE  /\ NoEarlyReuse
         /\ \/ UNCHANGED <<next, slot>>
            \/ \E k \in Calls : /\ k = next + 1 /\ next' = k
                                /\ slot' = [slot EXCEPT ![k] = next] /\ inv'[k] # "none"
<1> USE DEF WInv
<1>1. ASSUME NEW k \in Calls, NEW n \in Numbers, NEW dir, NEW states, Takes(k, n, dir, states)
      PROVE  /\ k = next + 1 /\ next' = k
             /\ slot' = [slot EXCEPT ![k] = next]
  BY <1>1, FreshAlloc
<1>2. \/ UNCHANGED <<next, slot>>
      \/ \E k \in Calls : /\ k = next + 1 /\ next' = k
                          /\ slot' = [slot EXCEPT ![k] = next] /\ inv'[k] # "none"
  <2>1. ASSUME NEW k \in Calls, NEW n \in Numbers, Incoming(k, n)
        PROVE  \E x \in Calls : /\ x = next + 1 /\ next' = x
                                /\ slot' = [slot EXCEPT ![x] = next] /\ inv'[x] # "none"
    <3>1. PICK state \in {"ringing", "hanging", "over"} : inv' = [inv EXCEPT ![k] = state]
      BY <2>1 DEF Incoming, Takes
    <3>2. inv'[k] # "none"
      BY <3>1 DEF IInv, CoreInv, CoreType
    <3>3. PICK states : Takes(k, n, "in", states)
      BY <2>1 DEF Incoming
    <3> QED BY <1>1, <3>2, <3>3
  <2>2. ASSUME NEW k \in Calls, NEW n \in Numbers, Dial(k, n)
        PROVE  \E x \in Calls : /\ x = next + 1 /\ next' = x
                                /\ slot' = [slot EXCEPT ![x] = next] /\ inv'[x] # "none"
    <3>1. inv'[k] = "calling"
      BY <2>2 DEF Dial, Takes, InvAfter
    <3>3. PICK states : Takes(k, n, "out", states)
      BY <2>2 DEF Dial
    <3> QED BY <1>1, <3>1, <3>3
  <2>3. CASE \E k \in Calls : \/ Confirm(k) \/ RemoteEnd(k) \/ Lost(k) \/ MediaState(k)
                              \/ TimeOut(k) \/ ByeDone(k)
    BY <2>3 DEF Confirm, RemoteEnd, End, Lost, MediaState, TimeOut, ByeDone, pjsua
  <2>4. CASE HandleMessage
    <3>1. ASSUME NEW s, NEW q, OnCallAnswer(s, q) PROVE UNCHANGED <<next, slot>>
      BY <3>1 DEF OnCallAnswer, pjsua
    <3> QED BY <2>4, <3>1 DEF HandleMessage, HandleIncoming, HandleCreate, HandleAnswer,
                              HandleState, HandleEnded, Refuse, End, pjsua
  <2>5. CASE AutoAnswerTimer \/ ForwardTimer \/ SoundDone
    BY <2>5 DEF AutoAnswerTimer, ForwardTimer, SoundDone, Refuse, End, pjsua
  <2>6. CASE \/ AnswerCommand \/ HangupAll
             \/ \E s \in Slots : Answer(s) \/ CloseDialog(s) \/ Decline(s)
             \/ \E n \in Numbers : Hangup(n) \/ CloseTab(n)
    BY <2>6 DEF AnswerCommand, HangupAll, HangupFast, Answer, OnCallAnswer, CloseDialog,
                Decline, End, Hangup, CloseTab, pjsua
  <2> QED BY <2>1, <2>2, <2>3, <2>4, <2>5, <2>6 DEF Next, Worker, User
<1>3. ASSUME NEW k \in Calls, inv[k] = "none", inv'[k] # "none", NEW s \in Slots, s < next
      PROVE  s # slot'[k]
  <2>1. next \in Nat /\ s \in Nat
    BY DEF IInv, CoreInv, CoreType, Slots
  <2>2. slot[k] = NoSlot
    BY <1>3 DEF Fresh
  <2>3. slot'[k] \in {NoSlot, next}
    BY <1>2, <2>2 DEF IInv, CoreInv, CoreType
  <2> QED BY <1>3, <2>1, <2>3, NoSlotIs
<1>4. \A i \in 1..Len(queue) : queue[i].slot \in Slots /\ queue[i].slot < next
  BY QueueIs DEF Fresh
<1>5. ASSUME NEW n \in Numbers, tab[n] \in Slots PROVE tab[n] < next
  <2>1. PICK x \in Calls : Shown(n, x)
    BY <1>5 DEF Windows, TabsShow
  <2>2. inv[x] # "none"
    BY <2>1, HereIs DEF Shown, IsLost
  <2>3. x \in Nat /\ x <= next /\ tab[n] = x - 1 /\ next \in Nat
    BY <2>1, <2>2, CallsFinite DEF Fresh, Shown, IInv, CoreInv, CoreType
  <2> QED BY <2>3
<1> QED BY <1>2, <1>3, <1>4, <1>5 DEF NoEarlyReuse

LEMMA FreshKept ==
  ASSUME WInv, Fresh, NCalls <= NSlots, NEW d, Steps(d),
         \/ UNCHANGED <<next, slot>>
         \/ \E k \in Calls : /\ k = next + 1 /\ next' = k
                             /\ slot' = [slot EXCEPT ![k] = next] /\ inv'[k] # "none"
  PROVE  Fresh'
<1> USE DEF WInv
<1>0. /\ next \in Nat /\ NCalls \in Nat /\ \A k \in Calls : k \in Nat /\ k <= NCalls
      /\ \A k \in Calls : slot[k] \in Slots \union {NoSlot}
  BY NCallsAssumption DEF Calls, IInv, CoreInv, CoreType
<1>1. Handles(d) /\ CallsGo(d) /\ Posting(d)
  BY DEF Steps
<1>2. \A k \in Calls : Begins(k) => slot'[k] \in Slots /\ slot[k] = NoSlot /\ inv[k] = "none"
  BY <1>1, CallGoes DEF Born, Fresh
<1>3. ASSUME NEW k \in Calls, ~Begins(k) PROVE inv'[k] # "none" <=> inv[k] # "none"
  <2>1. Lives(d, k)
    BY <1>1, <1>3, CallGoes
  <2> QED BY <2>1 DEF Lives, Going
<1>4. /\ next' \in Nat /\ next' >= next /\ next' <= NCalls
      /\ \A k \in Calls : Begins(k) => k <= next' /\ slot'[k] = k - 1 /\ slot'[k] < next'
      /\ \A k \in Calls : ~Begins(k) => slot'[k] = slot[k] /\ (k <= next' <=> k <= next)
  <2>1. CASE UNCHANGED <<next, slot>>
    <3>1. \A k \in Calls : ~Begins(k)
      BY <1>2, <2>1, NoSlotIs
    <3> QED BY <1>0, <2>1, <3>1 DEF Fresh
  <2>2. CASE \E k \in Calls : /\ k = next + 1 /\ next' = k
                              /\ slot' = [slot EXCEPT ![k] = next] /\ inv'[k] # "none"
    <3>1. PICK k \in Calls : /\ k = next + 1 /\ next' = k
                             /\ slot' = [slot EXCEPT ![k] = next] /\ inv'[k] # "none"
      BY <2>2
    <3>2. inv[k] = "none"
      BY <1>0, <3>1 DEF Fresh
    <3>3. Begins(k) /\ \A x \in Calls : Begins(x) => x = k
      BY <1>1, <3>1, <3>2, CallGoes DEF Begins, Born
    <3>4. \A x \in Calls : slot'[x] = IF x = k THEN next ELSE slot[x]
      BY <3>1 DEF IInv, CoreInv, CoreType
    <3> QED BY <1>0, <3>1, <3>3, <3>4
  <2> QED BY <2>1, <2>2
<1>5. \A k \in Calls : inv'[k] # "none" <=> k <= next'
  <2>1. \A k \in Calls : Begins(k) => inv'[k] # "none"
    BY DEF Begins
  <2> QED BY <1>3, <1>4, <2>1 DEF Fresh
<1>6. \A k \in Calls : IF k <= next' THEN slot'[k] = k - 1 ELSE slot'[k] = NoSlot
  BY <1>4 DEF Fresh
<1>7. ASSUME NEW i \in 1..Len(queue') PROVE queue'[i].slot < next'
  <2>1. PICK m : m = queue'[i]
    OBVIOUS
  <2>2. \A k \in Calls : inv[k] # "none" => slot[k] < next /\ slot[k] \in Int
    BY <1>0 DEF Fresh
  <2>3. \A j \in 1..Len(queue) : queue[j].slot < next /\ queue[j].slot \in Int
    BY QueueIs DEF Fresh, Slots
  <2>4. \/ m.slot < next /\ m.slot \in Int
        \/ m.slot < next'
    <3>1. CASE New(d, i)
      <4>1. News(d, m)
        BY <1>1, <2>1, <3>1 DEF Posting
      <4>2. CASE m.call \in Active /\ m.slot = slot[m.call]
        <5>1. m.call \in Calls /\ inv[m.call] # "none"
          BY <4>2, ActiveIs DEF Active, Going
        <5> QED BY <2>2, <4>2, <5>1
      <4>3. CASE m.call \in Calls /\ Begins(m.call) /\ m.slot = slot'[m.call]
        BY <1>4, <4>3
      <4>4. CASE Known(m.slot)
        BY <2>2, <4>4 DEF Known
      <4>5. CASE First(d, {"incoming"}) /\ m.slot = Head1.slot
        <5>1. 1 \in 1..Len(queue) /\ Head1 = queue[1]
          BY <1>1, <4>5, HeadHere DEF First
        <5> QED BY <2>3, <4>5, <5>1
      <4> QED BY <4>1, <4>2, <4>3, <4>4, <4>5 DEF News
    <3>2. CASE ~New(d, i)
      <4>1. i + d \in 1..Len(queue) /\ m = queue[i + d]
        BY <1>1, <2>1, <3>2, QueueGoes
      <4> QED BY <2>3, <4>1
    <3> QED BY <3>1, <3>2
  <2> QED BY <1>0, <1>4, <2>1, <2>4
<1> QED BY <1>4, <1>5, <1>6, <1>7 DEF Fresh

LEMMA InitFresh == ASSUME Init PROVE Fresh
<1>1. Len(queue) = 0 /\ next = 0
  BY EmptySeq DEF Init
<1>2. \A k \in Calls : inv[k] = "none" /\ slot[k] = NoSlot /\ ~(k <= 0)
  BY NCallsAssumption DEF Init, Calls
<1> QED BY <1>1, <1>2, NCallsAssumption DEF Fresh

\* With a slot for every call, none is taken while a message or a tab names it: the
\* behaviours with that many calls are all among those of the theorems above.
THEOREM SlotsForAll ==
  ASSUME ~Redial, NCalls <= NSlots
  PROVE  Spec => [][NoEarlyReuse]_vars
<1>1. Init => WInv /\ Fresh
  BY InitWInv, InitFresh
<1>2. WInv /\ Fresh /\ [Next]_vars => WInv' /\ Fresh' /\ [NoEarlyReuse]_vars
  <2> SUFFICES ASSUME WInv, Fresh, [Next]_vars
               PROVE  WInv' /\ Fresh' /\ [NoEarlyReuse]_vars
    OBVIOUS
  <2>1. CASE UNCHANGED vars
    <3>1. [NoEarlyReuse]_vars /\ UNCHANGED <<next, slot>>
      BY <2>1 DEF vars, pjsua
    <3>2. WInv' /\ \E d \in {0, 1} : Steps(d)
      BY <3>1, StepWInv
    <3> QED BY <3>1, <3>2, FreshKept
  <2>2. CASE Next
    <3>1. /\ NoEarlyReuse
          /\ \/ UNCHANGED <<next, slot>>
             \/ \E k \in Calls : /\ k = next + 1 /\ next' = k
                                 /\ slot' = [slot EXCEPT ![k] = next] /\ inv'[k] # "none"
      BY <2>2, FreshIsNoReuse
    <3>2. WInv' /\ \E d \in {0, 1} : Steps(d)
      BY <3>1, StepWInv
    <3> QED BY <3>1, <3>2, FreshKept
  <2> QED BY <2>1, <2>2
<1> QED BY <1>1, <1>2, PTL DEF Spec

\* So with a slot for every call the windows follow the calls whatever the threads
\* do: no dialog or ringtone is left over, no tab but that of a call which was lost,
\* and no call is out of reach but those of a number that lost one.
THEOREM WindowsFollow ==
  ASSUME ~Redial, NCalls <= NSlots
  PROVE  Spec => /\ [](TabsCurrent /\ DialogsCurrent /\ RingtoneStops /\ CallsReachable)
                 /\ TabKept
<1>1. Spec => [][NoEarlyReuse]_vars
  BY SlotsForAll
<1>2. Spec /\ [][NoEarlyReuse]_vars => []TabsCurrent
  BY TabsStayCurrent
<1>3. Spec /\ [][NoEarlyReuse]_vars => []DialogsCurrent
  BY DialogsStayCurrent
<1>4. Spec /\ [][NoEarlyReuse]_vars => []RingtoneStops
  BY RingtoneStopsInTime
<1>5. Spec /\ [][NoEarlyReuse]_vars => []CallsReachable
  BY CallsStayReachable
<1>6. Spec /\ [][NoEarlyReuse]_vars => TabKept
  BY TabsAreKept
<1> QED BY <1>1, <1>2, <1>3, <1>4, <1>5, <1>6, PTL
=============================================================================
