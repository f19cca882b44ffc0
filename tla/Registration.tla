---------------------------- MODULE Registration ----------------------------
(***************************************************************************)
(* pjsua's start and end, the account that is registered, the contacts and *)
(* shortcuts whose presence is watched, and the number of a command line   *)
(* that waits for the registration.                                        *)
(*                                                                         *)
(* pjsua's worker thread posts the answers of the registrar and changes of *)
(* a buddy's presence; the UI thread handles them in order.  Commands of   *)
(* another instance and power events are sent, not posted: they overtake   *)
(* what is posted; the user's input waits until nothing is.  A handler     *)
(* that leaves an account, or ends pjsua, takes two steps, Unsubscribe and *)
(* the rest, as the worker thread may still                                *)
(* post the old account's answer in between.                               *)
(*                                                                         *)
(* Left out: presence from the users directory, the user's own status,     *)
(* the error texts, and dialog locks, for which pjsua_buddy_get_info gives *)
(* up after a while.                                                       *)
(***************************************************************************)
EXTENDS Naturals, Sequences, FiniteSets, FiniteSetsExt

CONSTANTS
  Accounts,     \* configured accounts, from 1; 0 means no account
  Registrar,    \* the accounts that have a server to register at
  Contacts,     \* entries of the contact list
  Shortcuts,    \* entries of mainDlg's shortcuts
  Numbers,      \* what they call, without a domain
  EnableLocal,  \* accountSettings.enableLocalAccount
  MaxBuddies,   \* PJSUA_MAX_BUDDIES
  MaxQueue,     \* bound: messages posted by the worker thread
  NoBuddy

Watchers == Contacts \union Shortcuts
Ids      == Accounts \union {0}
Slots    == 1..MaxBuddies

ASSUME AccountsAssumption == Accounts \subseteq Nat \ {0} /\ Registrar \subseteq Accounts
ASSUME DisjointAssumption == Contacts \intersect Shortcuts = {}
ASSUME BoundAssumption    == MaxBuddies \in Nat \ {0} /\ MaxQueue \in Nat \ {0}

VARIABLES
  running,       \* is_pjsua_running
  accountId,     \* accountSettings.accountId
  account,       \* pjsua's account: none, or how its registration stands
  local,         \* account_local is valid
  isSubscribed,
  buddy,         \* pjsua's buddies: the number they were added for, and their status
  number,        \* of a contact or shortcut
  presence,      \* its flag presence; FALSE for one that is not in the list
  image,         \* what its icon says
  queue,         \* messages posted to the window
  delayed,       \* dialNumberDelayed is not empty
  calls,         \* GetCallsCount is not 0
  ui,            \* what the UI thread is in the middle of
  stray          \* isSubscribed was set when there was no account (history)

pjsuaVars == <<running, account, local>>
listVars  == <<number, presence>>
vars == <<running, accountId, account, local, isSubscribed, buddy, number,
          presence, image, queue, delayed, calls, ui, stray>>

Registering == {"progress", "ok", "failed"}
Statuses    == {"online"}
Message     == [type : {"reg"}, code : {"ok", "failed"}] \union [type : {"buddy"}, id : Slots]
Uri         == Numbers \X Ids
Buddies     == [uri : Uri, status : Statuses \union {"blank"}]
Doing       == [at : {"start", "idle", "destroy"}]
               \union [at : {"leave"}, to : Ids, command : BOOLEAN, dial : BOOLEAN]
Idle        == [at |-> "idle"]

ASSUME NoBuddyAssumption == NoBuddy \notin Uri \union Buddies

-----------------------------------------------------------------------------
(* FormatNumber without transformation: the domain of the account, or that *)
(* of the local account if there is no other.                              *)

Formatted(n, id, acc, loc) == <<n, IF acc = "none" /\ loc THEN 0 ELSE id>>
Format(w) == Formatted(number[w], accountId, account, local)

SelectSIPAccount(acc, loc) == acc # "none" \/ loc

Uris(bs) == {bs[i].uri : i \in {j \in Slots : bs[j] # NoBuddy}}

\* Mutant: the status of an earlier buddy of the slot is left in it.
NewBuddyOld(u) == [uri |-> u, status |-> "old"]

\* Nothing is known of a new buddy yet.
NewBuddy(u) == [uri |-> u, status |-> "blank"]

\* pjsua_buddy_add for every number of U that has no buddy: each takes the first
\* free slot, as long as there is one.  The order is the lists', which is any.
BuddiesAdded(U, bs) ==
  LET New == U \ Uris(bs)
      Free == {i \in Slots : bs[i] = NoBuddy}
      InTurn(f) == /\ \A i, j \in Free : i < j /\ f[i] = NoBuddy => f[j] = NoBuddy
                   /\ \A i, j \in Free : f[i] = f[j] /\ f[i] # NoBuddy => i = j
                   /\ \/ \A i \in Free : f[i] # NoBuddy
                      \/ \A u \in New : \E i \in Free : f[i] = u
  IN  {[i \in Slots |-> IF i \in Free /\ f[i] # NoBuddy THEN NewBuddy(f[i]) ELSE bs[i]] :
         f \in {g \in [Free -> New \union {NoBuddy}] : InTurn(g)}}

\* SubsribeNumber for the entries W that have the flag in list p with numbers
\* n: an existing buddy is shown at once, as onBuddyState does, to all entries
\* of its number; a new one is added if there is an account to do it.
Subscribed(W, n, p, bs, im, id, acc, loc) ==
  LET F(w) == Formatted(n[w], id, acc, loc)
      Wanted == {F(w) : w \in {x \in W : p[x]}}
      Shown(w) == {i \in Slots : bs[i] # NoBuddy /\ bs[i].uri = F(w)}
  IN  /\ IF SelectSIPAccount(acc, loc) THEN buddy' \in BuddiesAdded(Wanted, bs) ELSE buddy' = bs
      /\ image' = [w \in Watchers |->
                     IF p[w] /\ F(w) \in Wanted /\ Shown(w) # {}
                     THEN bs[Min(Shown(w))].status ELSE im[w]]

\* Mutant: nobody else is asked.
UnwatchedAll(U, n, p) ==
  [i \in Slots |-> IF buddy[i] # NoBuddy /\ buddy[i].uri \in U THEN NoBuddy ELSE buddy[i]]

\* UnsubscribeNumber: the buddies of the numbers U stay for the entries of
\* list p that still want them.
Unwatched(U, n, p) ==
  LET Kept == {Formatted(n[w], accountId, account, local) : w \in {x \in Watchers : p[x]}}
  IN  [i \in Slots |-> IF buddy[i] # NoBuddy /\ buddy[i].uri \in U \ Kept
                       THEN NoBuddy ELSE buddy[i]]

\* Mutant: the icons are left as they are.
BlankNone(W) == image

\* PresenceReset.
Blank(W) == [w \in Watchers |-> IF w \in W THEN "blank" ELSE image[w]]

\* Subscribe(), with account id in the state acc.
Subscribe(id, acc, loc, run, bs, sub, im) ==
  /\ isSubscribed' = TRUE
  /\ stray' = IF sub THEN stray ELSE run /\ acc = "none"
  /\ IF sub \/ ~run THEN buddy' = bs /\ image' = im
     ELSE Subscribed(Watchers, number, presence, bs, im, id, acc, loc)

\* Unsubscribe(): all buddies, all icons.
Unsubscribe ==
  /\ isSubscribed' = FALSE
  /\ stray' = FALSE
  /\ buddy' = IF isSubscribed /\ running THEN [i \in Slots |-> NoBuddy] ELSE buddy
  /\ image' = IF isSubscribed THEN Blank(Watchers) ELSE image

\* PJAccountAdd, its outcome: pjsua_acc_add may fail.
Added(id, run) ==
  IF id = 0 \/ ~run THEN {"none"}
  ELSE {"none", IF id \in Registrar THEN "progress" ELSE "idle"}

\* An account without a server is subscribed for at once, PJAccountAddRaw.
SubscribeIfIdle(id, acc, loc, run, bs, sub, im) ==
  IF acc = "idle" THEN Subscribe(id, acc, loc, run, bs, sub, im)
  ELSE isSubscribed' = sub /\ stray' = (stray /\ sub) /\ buddy' = bs /\ image' = im

\* DialNumberFromCommandLine: dialled now, or left for UpdateWindowText; the
\* number is empty for a command that only chooses an account (dial = FALSE).
DialOrDelay(dial, id, acc, loc) ==
  delayed' = IF \/ id # 0 /\ acc \in {"ok", "idle"}
                \/ id = 0 /\ (loc \/ ~EnableLocal)
             THEN delayed ELSE dial

\* UpdateWindowText without a text of its own: dials the number left for it.
Texted(has) ==
  delayed' = (delayed /\ ~(running /\ ~has /\ account = "ok"))

-----------------------------------------------------------------------------
(* pjsua's worker thread.                                                  *)

Post(m) == Len(queue) < MaxQueue /\ queue' = Append(queue, m)

\* regc_cb and on_reg_state2: the first answer, a renewal, or a retry.
RegAnswer ==
  /\ account \in Registering
  /\ \E code \in {"ok", "failed"} :
       account' = code /\ Post([type |-> "reg", code |-> code])
  /\ UNCHANGED <<running, local, accountId, isSubscribed, buddy, listVars, image,
                 delayed, calls, ui, stray>>

\* pjsua_evsub_on_state and on_buddy_state: a NOTIFY, or the end of the subscription.
Notify ==
  /\ \E i \in Slots : \E s \in (Statuses \union {"blank"}) :
       /\ buddy[i] # NoBuddy /\ buddy[i].status # s
       /\ buddy' = [buddy EXCEPT ![i].status = s]
       /\ Post([type |-> "buddy", id |-> i])
  /\ UNCHANGED <<pjsuaVars, accountId, isSubscribed, listVars, image, delayed,
                 calls, ui, stray>>

-----------------------------------------------------------------------------
(* Messages.                                                               *)

UIIdle == ui = Idle

\* Mutant: nothing is done while calls go on.
OnRegState2InCall ==
  /\ UIIdle /\ queue # <<>> /\ Head(queue).type = "reg"
  /\ queue' = Tail(queue)
  /\ IF Head(queue).code = "ok" /\ ~calls
     THEN Subscribe(accountId, account, local, running, buddy, isSubscribed, image)
     ELSE UNCHANGED <<isSubscribed, stray, buddy, image>>
  /\ Texted(calls)
  /\ UNCHANGED <<pjsuaVars, accountId, listVars, calls, ui>>

OnRegState2 ==
  /\ UIIdle /\ queue # <<>> /\ Head(queue).type = "reg"
  /\ queue' = Tail(queue)
  /\ IF Head(queue).code = "ok"
     THEN Subscribe(accountId, account, local, running, buddy, isSubscribed, image)
     ELSE UNCHANGED <<isSubscribed, stray, buddy, image>>
  /\ Texted(calls)
  /\ UNCHANGED <<pjsuaVars, accountId, listVars, calls, ui>>

OnBuddyState ==
  /\ UIIdle /\ queue # <<>> /\ Head(queue).type = "buddy"
  /\ queue' = Tail(queue)
  /\ LET b == buddy[Head(queue).id]
     IN  image' = IF isSubscribed /\ running /\ b # NoBuddy
                  THEN [w \in Watchers |->
                          IF presence[w] /\ Format(w) = b.uri THEN b.status ELSE image[w]]
                  ELSE image
  /\ UNCHANGED <<pjsuaVars, accountId, isSubscribed, buddy, listVars, delayed,
                 calls, ui, stray>>

\* Mutant: the end of a call does not update the text.
CallsChangeQuiet ==
  /\ UIIdle
  /\ calls' = ~calls
  /\ ~calls => running
  /\ UNCHANGED <<pjsuaVars, accountId, isSubscribed, buddy, listVars, image, queue,
                 delayed, ui, stray>>

\* A call begins, or the last one ends: OnEndCall updates the text, without
\* looking at the count.
CallsChange ==
  /\ UIIdle
  /\ calls' = ~calls
  /\ ~calls => running
  /\ IF calls THEN Texted(FALSE) ELSE UNCHANGED delayed
  /\ UNCHANGED <<pjsuaVars, accountId, isSubscribed, buddy, listVars, image, queue,
                 ui, stray>>

\* The user has seen a missed call: the text is updated.
UpdateWindowText ==
  /\ UIIdle /\ delayed
  /\ Texted(calls)
  /\ UNCHANGED <<pjsuaVars, accountId, isSubscribed, buddy, listVars, image, queue,
                 calls, ui, stray>>

-----------------------------------------------------------------------------
(* The contact list and the shortcuts.                                     *)

\* ContactUpdate for one contact, ContactCreate (a flag that was FALSE) and
\* ContactDeleteRaw (one that becomes FALSE), by the user or the directory.
ContactUpdate(c, n, p) ==
  LET num == [number EXCEPT ![c] = n]
      off == [presence EXCEPT ![c] = FALSE]
      new == [presence EXCEPT ![c] = p]
      live == isSubscribed /\ running
      leaves == presence[c] /\ (number[c] # n \/ ~p)
      bs == IF live /\ leaves THEN Unwatched({Format(c)}, number, off) ELSE buddy
      im == IF leaves THEN Blank({c}) ELSE image
  IN  /\ number' = num /\ presence' = new
      /\ IF live /\ p /\ (leaves \/ ~presence[c])
         THEN Subscribed({c}, num, new, bs, im, accountId, account, local)
         ELSE buddy' = bs /\ image' = im

EditContact ==
  /\ UIIdle
  /\ \E c \in Contacts, n \in Numbers, p \in BOOLEAN :
       (number[c] # n \/ presence[c] # p) /\ ContactUpdate(c, n, p)
  /\ UNCHANGED <<pjsuaVars, accountId, isSubscribed, queue, delayed, calls, ui, stray>>

\* ShortcutsDlg's OK: ShortcutsRemoveAll, the new ones, RebuildShortcuts.
EditShortcuts ==
  LET live == isSubscribed /\ running
      off == [w \in Watchers |-> w \in Contacts /\ presence[w]]
      gone == {Format(w) : w \in {x \in Shortcuts : presence[x]}}
  IN  /\ UIIdle /\ queue = <<>> /\ Shortcuts # {}
      /\ \E n \in [Shortcuts -> Numbers], p \in [Shortcuts -> BOOLEAN] :
           LET num == [w \in Watchers |-> IF w \in Shortcuts THEN n[w] ELSE number[w]]
               new == [w \in Watchers |-> IF w \in Shortcuts THEN p[w] ELSE presence[w]]
           IN  /\ number' = num /\ presence' = new
               /\ IF live
                  THEN Subscribed(Shortcuts, num, new, Unwatched(gone, number, off),
                                  Blank(Shortcuts), accountId, account, local)
                  ELSE buddy' = buddy /\ image' = Blank(Shortcuts)
      /\ UNCHANGED <<pjsuaVars, accountId, isSubscribed, queue, delayed, calls, ui, stray>>

-----------------------------------------------------------------------------
(* Accounts.                                                               *)

\* The first half of a change to account id: PJAccountDelete, up to pjsua_acc_del.
Leave(id, deletes, command, dial) ==
  /\ ui' = [at |-> "leave", to |-> id, command |-> command, dial |-> dial]
  /\ IF deletes THEN Unsubscribe ELSE UNCHANGED <<isSubscribed, stray, buddy, image>>
  /\ UNCHANGED <<pjsuaVars, accountId, listVars, queue, delayed, calls>>

\* A click on the account in use leaves it.
OnMenuAccountChange ==
  /\ UIIdle /\ queue = <<>>
  /\ \E a \in Accounts :
       Leave(IF accountId = a THEN 0 ELSE a, accountId # 0, FALSE, FALSE)

\* AccountDlg: an account is saved, and used; or the one in use is removed,
\* and the first of the others used.
AccountDialog ==
  /\ UIIdle /\ queue = <<>>
  /\ \/ \E a \in Accounts : Leave(a, TRUE, FALSE, FALSE)
     \/ accountId # 0 /\ \E a \in {0, 1} \intersect Ids : Leave(a, TRUE, FALSE, FALSE)

\* CommandLine, of another instance: /account: (0 for none) and a number, or a
\* new password for the account in use.  A posted one may find pjsua ended.
CommandLine ==
  /\ UIIdle
  /\ \/ \E a \in Ids, dial \in BOOLEAN :
          IF a \in {0, accountId}
          THEN /\ DialOrDelay(dial, accountId, account, local)
               /\ UNCHANGED <<pjsuaVars, accountId, isSubscribed, buddy, listVars, image,
                              queue, calls, ui, stray>>
          ELSE Leave(a, accountId # 0, TRUE, dial)
     \/ accountId # 0 /\ Leave(accountId, TRUE, TRUE, FALSE)

\* The second half: pjsua_acc_del, the settings, PJAccountAdd, the number.
Change ==
  /\ ui.at = "leave"
  /\ ui' = Idle /\ accountId' = ui.to
  /\ \E acc \in Added(ui.to, running) :
       /\ account' = acc
       /\ SubscribeIfIdle(ui.to, acc, local, running, buddy, isSubscribed, image)
       /\ IF ui.command THEN DialOrDelay(ui.dial, ui.to, acc, local) ELSE UNCHANGED delayed
  /\ UNCHANGED <<running, local, listVars, queue, calls>>

-----------------------------------------------------------------------------
(* pjsua's start and end.                                                  *)

\* PJCreate, and PJAccountAdd for account id.
Create(id) ==
  \E run \in BOOLEAN : \E loc \in {FALSE, run /\ (EnableLocal \/ id = 0)},
                          acc \in Added(id, run) :
    /\ running' = run /\ local' = loc /\ account' = acc
    /\ SubscribeIfIdle(id, acc, loc, run, buddy, FALSE, image)

\* OnInitDialog: the command line is looked at before PJAccountAdd, which it
\* does itself if it changes the account.
Start ==
  /\ ui.at = "start" /\ ui' = Idle
  /\ \E a \in Ids, given \in BOOLEAN, dial \in BOOLEAN :
       LET id == IF given /\ a # 0 THEN a ELSE accountId
       IN  /\ accountId' = id
           /\ Create(id)
           /\ IF given THEN DialOrDelay(dial, id, IF id # accountId THEN account' ELSE "none", local')
              ELSE UNCHANGED delayed
  /\ UNCHANGED <<listVars, queue, calls>>

\* OnUpdateSettings of the settings dialog, or the machine that wakes up.
PJCreate ==
  /\ UIIdle /\ ~running
  /\ Create(accountId)
  /\ UNCHANGED <<accountId, listVars, queue, delayed, calls, ui>>

\* PJDestroy, up to the end of Unsubscribe: settings saved, or going to sleep.
BeginDestroy ==
  /\ UIIdle /\ running
  /\ ui' = [at |-> "destroy"]
  /\ Unsubscribe
  /\ UNCHANGED <<pjsuaVars, accountId, listVars, queue, delayed, calls>>

\* The rest: pjsua_destroy.
PJDestroy ==
  /\ ui.at = "destroy" /\ ui' = Idle
  /\ running' = FALSE /\ account' = "none" /\ local' = FALSE
  /\ buddy' = [i \in Slots |-> NoBuddy]
  /\ UNCHANGED <<accountId, isSubscribed, listVars, image, queue, delayed, calls, stray>>

-----------------------------------------------------------------------------

Init ==
  /\ running = FALSE /\ account = "none" /\ local = FALSE
  /\ accountId \in Ids
  /\ isSubscribed = FALSE /\ stray = FALSE
  /\ buddy = [i \in Slots |-> NoBuddy]
  /\ number \in [Watchers -> Numbers] /\ presence \in [Watchers -> BOOLEAN]
  /\ image = [w \in Watchers |-> "blank"]
  /\ queue = <<>> /\ delayed = FALSE /\ calls = FALSE
  /\ ui = [at |-> "start"]

HandleMessage == OnRegState2 \/ OnBuddyState
Worker        == RegAnswer \/ Notify
User          == \/ CallsChange \/ UpdateWindowText \/ EditContact \/ EditShortcuts
                 \/ OnMenuAccountChange \/ AccountDialog \/ CommandLine
                 \/ Start \/ PJCreate \/ BeginDestroy
Finish        == Change \/ PJDestroy

Next == HandleMessage \/ Worker \/ User \/ Finish

Spec     == Init /\ [][Next]_vars
FairSpec == Spec /\ WF_vars(HandleMessage) /\ WF_vars(Finish)

-----------------------------------------------------------------------------

TypeOK ==
  /\ running \in BOOLEAN /\ local \in BOOLEAN /\ isSubscribed \in BOOLEAN
  /\ accountId \in Ids
  /\ account \in Registering \union {"none", "idle"}
  /\ buddy \in [Slots -> Buddies \union {NoBuddy}]
  /\ number \in [Watchers -> Numbers] /\ presence \in [Watchers -> BOOLEAN]
  /\ image \in [Watchers -> Statuses \union {"blank"}]
  /\ queue \in Seq(Message) /\ Len(queue) <= MaxQueue
  /\ delayed \in BOOLEAN /\ calls \in BOOLEAN /\ stray \in BOOLEAN
  /\ ui \in Doing

\* While MicroSIP is subscribed, pjsua has one buddy for every number that a
\* contact or a shortcut watches, and no other; else it has none.  (After an
\* answer that was too late it may have others, see stray.)
WatchedAsShown ==
  UIIdle /\ ~stray =>
    /\ Uris(buddy) = IF isSubscribed /\ running THEN {Format(w) : w \in {x \in Watchers : presence[x]}}
                     ELSE {}
    /\ \A i, j \in Slots : i # j /\ buddy[i] # NoBuddy /\ buddy[j] # NoBuddy => buddy[i].uri # buddy[j].uri

\* Once the messages about a buddy are handled, every entry of its number
\* shows its status; entries that are not watched show none.
PresenceCurrent ==
  UIIdle /\ ~stray => \A w \in Watchers :
    LET B == {i \in Slots : buddy[i] # NoBuddy /\ buddy[i].uri = Format(w)}
    IN  IF presence[w] /\ isSubscribed /\ B # {}
        THEN \A i \in B : image[w] = buddy[i].status
                          \/ \E k \in DOMAIN queue : queue[k] = [type |-> "buddy", id |-> i]
        ELSE image[w] = "blank"

\* An account that stays registered is subscribed for, whatever became of the
\* accounts and the pjsua before it.
ComesToWatch ==
  <>[](account = "ok" /\ ~stray) => <>[]isSubscribed

\* A number that waits for the registration is dialled when the account is
\* registered and no call goes on, now and then.
DelayedIsDialled ==
  <>[](account = "ok") /\ []<>~calls => <>[]~delayed
=============================================================================
