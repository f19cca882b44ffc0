------------------------------ MODULE CallControl ------------------------------
(***************************************************************************)
(* The life of a call in MicroSIP, between pjsua and the user interface.   *)
(*                                                                         *)
(* pjsua's callbacks post window messages that carry a snapshot of the     *)
(* call and a pointer to its call_user_data; the UI thread handles them in *)
(* order, later, and acts back on pjsua by slot number.  The tabs, the     *)
(* ringing dialogs, the timers and the messages name a call by its slot,   *)
(* and pjsua gives a free slot to the next call.                           *)
(*                                                                         *)
(* A callback or a handler is one step: on_incoming_call runs under        *)
(* PJSUA_LOCK and on_call_state under the dialog's lock, which pjsua's     *)
(* functions take, and a hang up or an answer calls on_call_state before   *)
(* it returns.                                                             *)
(***************************************************************************)
EXTENDS Naturals, Sequences, FiniteSetsExt, SequencesExt

CONSTANTS NCalls,      \* bound: how many calls a behaviour has
          NSlots,      \* PJSUA_MAX_CALLS
          Numbers,     \* the far ends, in the order of their tabs
          NoCall,
          SingleMode,  \* accountSettings.singleMode
          AutoHangUp,  \* accountSettings.autoHangUpTime > 0
          Automatic,   \* which of "answer" and "forward" the settings have
          Redial,      \* whether the user dials a number that is calling in
          Media        \* bound: the calls whose UM_ON_CALL_MEDIA_STATE is modelled

ASSUME NCallsAssumption == NCalls \in Nat
ASSUME NSlotsAssumption == NSlots \in Nat \ {0}
ASSUME NumbersAssumption == Numbers \subseteq Nat /\ Numbers # {}
ASSUME MediaAssumption == Media \subseteq 1..NCalls
ASSUME NoCallAssumption == NoCall \notin Nat
ASSUME SettingsAssumption == {SingleMode, AutoHangUp, Redial} \subseteq BOOLEAN

Calls == 1..NCalls     \* in the order of their creation
Slots == 0..(NSlots - 1)
NoSlot == NSlots       \* -1 in the code
NoTab == NSlots + 1    \* no tab has the number

VARIABLES
  inv,      \* the state of a call's invite session
  role,     \* in (PJSIP_ROLE_UAS) or out
  number,   \* the far end
  slot,     \* pjsua_call_id
  next,     \* pjsua_var.next_call_id
  data,     \* a call's call_user_data: attached to the slot, detached, deleted,
            \* or leaked: gone from the slot with nobody to delete them
  hidden,   \* call_user_data.hidden
  timer,    \* the auto_hangup_timer in it is in pjsua's timer heap
  queue,    \* the messages of the main window
  tab,      \* MessagesContact.callId of a number's tab
  dialogs,  \* ringinDlgs: the call_id of every ringing dialog
  ring,     \* the ringtone plays, in a loop
  aaTimer, fwdTimer, aaPlay   \* autoAnswerTimerCallId, forwardingTimerCallId,
                              \* autoAnswerPlayCallId

pjsua == <<inv, role, number, slot, next>>
users == <<data, hidden, timer>>
timers == <<aaTimer, fwdTimer, aaPlay>>
vars == <<pjsua, users, queue, tab, dialogs, ring, timers>>

Init ==
  /\ inv = [k \in Calls |-> "none"]
  /\ role = [k \in Calls |-> "out"]
  /\ number = [k \in Calls |-> CHOOSE n \in Numbers : TRUE]
  /\ slot = [k \in Calls |-> NoSlot]
  /\ next = 0
  /\ data = [k \in Calls |-> "none"]
  /\ hidden = [k \in Calls |-> FALSE]
  /\ timer = [k \in Calls |-> FALSE]
  /\ queue = <<>>
  /\ tab = [n \in Numbers |-> NoTab]
  /\ dialogs = <<>>
  /\ ring = FALSE
  /\ aaTimer = NoSlot /\ fwdTimer = NoSlot /\ aaPlay = NoSlot

-----------------------------------------------------------------------------
(* pjsua's slots *)

Talks == {"connecting", "confirmed"}
Active == {k \in Calls : inv[k] \in {"ringing", "calling"} \union Talks}

\* pjsua_enum_calls and pjsua_call_get_info: a call that has been hung up stays
\* in its slot, as DISCONNECTED, until the transaction is done.
Enum == Active \union {k \in Calls : inv[k] = "hanging"}
At(s) == {k \in Enum : slot[k] = s}

Ringing(k) == inv[k] = "ringing"

\* alloc_call_id: round robin, though the place to start from moves on by one
\* whatever slot is found.
Start == IF next >= NSlots THEN 0 ELSE next
FreeSlots == {s \in Slots : At(s) = {}}
\* Mutant: the search starts one too far and does not wrap.
AllocAfter == Min({s \in FreeSlots : s > Start} \union {NoSlot})

Alloc == LET after == {s \in FreeSlots : s >= Start}
         IN  Min(IF after # {} THEN after ELSE FreeSlots)

\* The next call of the behaviour takes its slot.
Takes(k, n, dir, states) ==
  /\ inv[k] = "none"
  /\ k > 1 => inv[k - 1] # "none"
  /\ FreeSlots # {}
  /\ inv' = states
  /\ role' = [role EXCEPT ![k] = dir]
  /\ number' = [number EXCEPT ![k] = n]
  /\ slot' = [slot EXCEPT ![k] = Alloc]
  /\ next' = Start + 1

-----------------------------------------------------------------------------
(* on_call_state *)

Msg(type, s, k) == [type |-> type, slot |-> s, call |-> k]

\* The calls S in slot order
InOrder(S) ==
  CHOOSE f \in [1..Cardinality(S) -> S] :
    \A i, j \in 1..Cardinality(S) : i < j => slot[f[i]] < slot[f[j]]

\* Mutant: hidden calls are told as well.
ToldAll(S, type) ==
  LET f == InOrder(S)
  IN  [i \in 1..Cardinality(S) |-> Msg(type[f[i]], slot[f[i]], f[i])]

\* What on_call_state posts for the calls S, in slot order
Told(S, type) ==
  LET told == {k \in S : ~hidden[k]}
      f == InOrder(told)
  IN  [i \in 1..Cardinality(told) |-> Msg(type[f[i]], slot[f[i]], f[i])]

All(type) == [k \in Calls |-> type]
Ended == [k \in Calls |-> IF inv[k] = "confirmed" THEN "ended" ELSE "unanswered"]

\* Mutant: the user data are deleted in the callback.
PartedAtOnce(S) == [k \in Calls |-> IF k \in S THEN "deleted" ELSE data[k]]

\* Mutant: those of a hidden call are detached only.
PartedKept(S) == [k \in Calls |-> IF k \in S THEN "detached" ELSE data[k]]

\* DISCONNECTED: the pointer leaves the slot.  The UI gets it with the message,
\* except that of a hidden call, which is deleted.
Parted(S) == [k \in Calls |-> IF k \notin S THEN data[k]
                              ELSE IF hidden[k] THEN "deleted" ELSE "detached"]

\* What the calls S are left in when they end: "hanging" when this side hangs
\* up, "over" when a final response or the far end did it.
End(S, state) ==
  /\ inv' = [k \in Calls |-> IF k \in S THEN state ELSE inv[k]]
  /\ data' = Parted(S)
  /\ UNCHANGED <<role, number, slot, next, hidden, timer>>

-----------------------------------------------------------------------------
(* pjsua's worker thread *)

\* The calls on_incoming_call looks at, in slot order, until it meets one of the
\* same number.  It reads the user data of each.
Seen(n) ==
  {x \in Enum : \A y \in Enum : number[y] = n => slot[x] <= slot[y]}

\* on_incoming_call: the call is announced to the UI, and one of the timers may
\* be set, or it is rejected: the number is in a call already, the limit is
\* reached, the call is denied, or was answered or declined before.
Incoming(k, n) ==
  /\ \A x \in Seen(n) : number[x] = n \/ data[x] = "attached"
  /\ \/ /\ \A x \in Enum : number[x] # n
        /\ Takes(k, n, "in", [inv EXCEPT ![k] = "ringing"])
        /\ data' = [data EXCEPT ![k] = "attached"]
        /\ queue' = Append(queue, Msg("incoming", Alloc, k))
        /\ aaTimer' \in {aaTimer} \union
                        {s \in {Alloc} : aaTimer = NoSlot /\ "answer" \in Automatic}
        /\ fwdTimer' \in {fwdTimer} \union
                         {s \in {Alloc} : fwdTimer = NoSlot /\ "forward" \in Automatic}
        /\ UNCHANGED hidden
     \/ \E state \in {"hanging", "over", "ringing"} :
        /\ state # "hanging" => \A x \in Enum : number[x] # n
        /\ Takes(k, n, "in", [inv EXCEPT ![k] = state])
        /\ hidden' = [hidden EXCEPT ![k] = TRUE]
        /\ IF state = "ringing"          \* 487 is sent when the media is ready
           THEN /\ data' = [data EXCEPT ![k] = "attached"]
                /\ UNCHANGED queue
           ELSE /\ data' = [data EXCEPT ![k] = "detached"]
                /\ queue' = Append(queue, Msg("unanswered", Alloc, k))
        /\ UNCHANGED <<aaTimer, fwdTimer>>
  /\ UNCHANGED <<timer, tab, dialogs, ring, aaPlay>>

\* CONFIRMED: the far end answered, or acknowledged our answer.
Confirm(k) ==
  /\ inv[k] \in {"calling", "connecting"}
  /\ inv' = [inv EXCEPT ![k] = "confirmed"]
  /\ queue' = queue \o Told({k}, All("answered"))
  /\ timer' = [timer EXCEPT ![k] = AutoHangUp]
  /\ UNCHANGED <<role, number, slot, next, data, hidden, tab, dialogs, ring, timers>>

\* DISCONNECTED by the far end, by a failure, or by the pending 487
RemoteEnd(k) ==
  /\ k \in Active
  /\ End({k}, "over")
  /\ queue' = queue \o Told({k}, Ended)
  /\ UNCHANGED <<tab, dialogs, ring, timers>>

\* DISCONNECTED with 481, the answer of a far end that does not know the call (any
\* more) to an INVITE, an UPDATE or another request: on_call_state returns at once.
\* The UI is not told, and the pointer goes with the slot, which pjsua clears.
Lost(k) ==
  /\ inv[k] \in {"calling"} \union Talks
  /\ inv' = [inv EXCEPT ![k] = "lost"]
  /\ data' = [data EXCEPT ![k] = "leaked"]
  /\ UNCHANGED <<role, number, slot, next, hidden, timer, queue, tab, dialogs, ring, timers>>

\* on_call_media_state: the negotiation of the media is done, for the first time
\* or again.  Bound: one message of a call at a time.
MediaState(k) ==
  /\ k \in Media /\ inv[k] \in {"calling"} \union Talks
  /\ \A i \in DOMAIN queue : queue[i].type = "media" => queue[i].call # k
  /\ queue' = Append(queue, Msg("media", slot[k], k))
  /\ UNCHANGED <<pjsua, users, tab, dialogs, ring, timers>>

\* call_timeout_callback hangs up the call in the slot that the timer names.
\* With the user data deleted the timer would be read after it was freed, and
\* what follows is undefined: the model has no such step.
TimeOut(k) ==
  /\ timer[k]
  /\ data[k] # "deleted"
  /\ LET S == At(slot[k]) \intersect Active
     IN  /\ inv' = [x \in Calls |-> IF x \in S THEN "hanging" ELSE inv[x]]
         /\ data' = Parted(S)
         /\ queue' = queue \o Told(S, Ended)
  /\ timer' = [timer EXCEPT ![k] = FALSE]
  /\ UNCHANGED <<role, number, slot, next, hidden, tab, dialogs, ring, timers>>

\* The BYE, CANCEL or final response of a call that was hung up is done.
ByeDone(k) ==
  /\ inv[k] = "hanging"
  /\ inv' = [inv EXCEPT ![k] = "over"]
  /\ UNCHANGED <<role, number, slot, next, users, queue, tab, dialogs, ring, timers>>

-----------------------------------------------------------------------------
(* The UI thread: what its handlers have in common.  q is the queue they leave *)
(* before they post anything.                                                *)

\* Mutant: the search leaves out the first tab.
FirstTabBut(s) == {n \in Numbers \ {Min(Numbers)} : tab[n] = s}

\* OnEndCall: the first tab that has the slot gives it back.
FirstTab(s) == {n \in Numbers : tab[n] = s /\ \A m \in Numbers : m < n => tab[m] # s}
TabsOf(S) == UNION {FirstTab(slot[k]) : k \in S}

\* It kills both timers, whatever calls they are for, when it finds the tab.
KillTimers(really) ==
  /\ aaTimer' = IF really THEN NoSlot ELSE aaTimer
  /\ fwdTimer' = IF really THEN NoSlot ELSE fwdTimer

\* msip_call_hangup_fast for the calls S in turn leaves pjsua, the queue and the
\* tabs so.
InvAfter(S) == [k \in Calls |-> IF k \in S \intersect Active THEN "hanging" ELSE inv[k]]
ToldAfter(S) == Told(S \intersect Active, Ended)
TabAfter(S) == [n \in Numbers |-> IF n \in TabsOf(S) THEN NoSlot ELSE tab[n]]

\* GetCallsCount
Counted == {n \in Numbers : \E k \in Enum : slot[k] = tab[n] /\ ~Ringing(k)}

\* call_hangup_all_noincoming
NotIncoming == {k \in Enum : ~Ringing(k)}

\* A call that a 200, 302 or 486 reaches.  pjsua keeps the answers to a hidden
\* call behind its 487.
Answerable(s) == {k \in At(s) : Ringing(k) /\ ~hidden[k]}

\* onCallAnswer with 200, and call_hangup_all_noincoming before it in single mode
OnCallAnswer(s, q) ==
  LET S == IF SingleMode THEN NotIncoming ELSE {}
  IN  IF \E k \in At(s) : Ringing(k)
      THEN /\ inv' = [k \in Calls |-> IF k \in Answerable(s) THEN "connecting"
                                      ELSE InvAfter(S)[k]]
           /\ data' = Parted(S \intersect Active)
           /\ queue' = q \o ToldAfter(S) \o Told(Answerable(s), All("answered"))
           /\ tab' = TabAfter(S)
           /\ KillTimers(TabsOf(S) # {})
           /\ ring' = FALSE
           /\ UNCHANGED <<role, number, slot, next, hidden, timer, dialogs, aaPlay>>
      ELSE queue' = q /\ UNCHANGED <<pjsua, users, tab, dialogs, ring, timers>>

\* pjsua_call_answer with a final response other than 2xx
Refuse(s, q) ==
  /\ End(Answerable(s), "over")
  /\ queue' = q \o Told(Answerable(s), Ended)

\* AutoAnswer, when no call is counted or accountSettings.autoAnswerCalls is "all"
AutoAnswer(s, q) ==
  IF \E k \in At(s) : Ringing(k) THEN queue' = Append(q, Msg("answer", s, NoCall))
                                 ELSE queue' = q

-----------------------------------------------------------------------------
(* The handlers of the messages *)

Head1 == queue[1]
Rest == Tail(queue)

\* onIncomingCall.  The call is forwarded, or answered automatically, at once or
\* after a sound, or it rings: its dialog is created with a message of its own,
\* and a 180 is sent.
HandleIncoming ==
  /\ Head1.type = "incoming"
  /\ LET s == Head1.slot IN
     \/ /\ "forward" \in Automatic
        /\ Answerable(s) # {}
        /\ Refuse(s, Rest)
        /\ UNCHANGED <<ring, aaPlay>>
     \/ /\ "answer" \in Automatic
        /\ aaPlay' = s
        /\ ring' = FALSE
        /\ queue' = Rest
        /\ UNCHANGED <<pjsua, users>>
     \/ /\ "answer" \in Automatic
        /\ \E k \in At(s) : Ringing(k)
        /\ AutoAnswer(s, Rest)
        /\ UNCHANGED <<pjsua, users, ring, aaPlay>>
     \/ /\ queue' = Append(Rest, Msg("create", s, NoCall)) \o Told(Answerable(s), All("ringing"))
        /\ ring' \in IF Counted = {} THEN {TRUE} ELSE {ring, FALSE}
        /\ UNCHANGED <<pjsua, users, aaPlay>>
  /\ UNCHANGED <<tab, dialogs, aaTimer, fwdTimer>>

\* onCreateRingingDlg
HandleCreate ==
  /\ Head1.type = "create"
  /\ queue' = Rest
  /\ LET s == Head1.slot
     IN  /\ ring' = (ring /\ (At(s) # {} \/ dialogs # <<>>))
         /\ dialogs' = IF \E k \in At(s) : data[k] = "attached"
                       THEN Append(dialogs, s) ELSE dialogs
  /\ UNCHANGED <<pjsua, users, tab, timers>>

\* onCallAnswer, from AutoAnswer, a command or AddTab
HandleAnswer ==
  \/ /\ Head1.type = "answer"
     /\ OnCallAnswer(Head1.slot, Rest)
  \/ /\ Head1.type = "reject"
     /\ Refuse(Head1.slot, Rest)
     /\ UNCHANGED <<tab, dialogs, ring, timers>>

\* Mutant: the first dialog is left out.
DropDialogBut(s, connected) ==
  LET at == SelectInSeq(dialogs, LAMBDA d : d = s)
  IN  /\ dialogs' = IF at <= 1 THEN dialogs ELSE RemoveAt(dialogs, at)
      /\ ring' = (ring /\ ~(dialogs = <<>> /\ ~connected) /\ ~(at # 0 /\ Len(dialogs) = 1))

\* Mutant: the ringtone does not stop with the last dialog.
DropDialogLoud(s, connected) ==
  LET at == SelectInSeq(dialogs, LAMBDA d : d = s)
  IN  /\ dialogs' = IF at = 0 THEN dialogs ELSE RemoveAt(dialogs, at)
      /\ ring' = (ring /\ ~(dialogs = <<>> /\ ~connected))

\* What onCallState does to the ringing dialogs of a call of the slot s that
\* does not ring any more.  The ringtone stops with the last dialog, or when
\* there is none and the call was never connected.
DropDialog(s, connected) ==
  LET at == SelectInSeq(dialogs, LAMBDA d : d = s)
  IN  /\ dialogs' = IF at = 0 THEN dialogs ELSE RemoveAt(dialogs, at)
      /\ ring' = (ring /\ ~(dialogs = <<>> /\ ~connected) /\ ~(at # 0 /\ Len(dialogs) = 1))

\* Mutant: only a tab that has the call's slot already is the call's.
TakenFree(n, s) == tab[n] # s

\* Mutant: a tab is the call's whatever call it has.
TakenNever(n, s) == FALSE

\* AddTab: a tab that has another call keeps it.
Taken(n, s) == tab[n] \in Slots \ {s}

\* onCallState of a call that goes on, or went on then.  A ringing call whose number
\* has a tab with another call is refused.  onCallMediaState makes no tab.
HandleState ==
  /\ Head1.type \in {"calling", "ringing", "answered", "media"}
  /\ LET s == Head1.slot
         n == number[Head1.call]
         refused == Taken(n, s) \/ (Head1.type = "media" /\ tab[n] = NoTab)
     IN  /\ tab' = IF refused THEN tab ELSE [tab EXCEPT ![n] = s]
         /\ queue' = IF Taken(n, s) /\ Head1.type = "ringing"
                     THEN Append(Rest, Msg("reject", s, NoCall)) ELSE Rest
         /\ IF role[Head1.call] = "in" /\ Head1.type = "answered"
            THEN DropDialog(s, FALSE) ELSE UNCHANGED <<dialogs, ring>>
  /\ KillTimers(Head1.type = "answered")
  /\ UNCHANGED <<pjsua, users, aaPlay>>

\* onCallState, DISCONNECTED, with OnEndCall, which returns before it cancels
\* the auto_hangup_timer when no tab has the slot.
HandleEnded ==
  /\ Head1.type \in {"ended", "unanswered"}
  /\ queue' = Rest
  /\ LET k == Head1.call
         s == Head1.slot
     IN  /\ tab' = [n \in Numbers |-> IF n \in FirstTab(s) THEN NoSlot ELSE tab[n]]
         /\ KillTimers(FirstTab(s) # {})
         /\ timer' = IF FirstTab(s) # {} THEN [timer EXCEPT ![k] = FALSE] ELSE timer
         /\ IF role[k] = "in" THEN DropDialog(s, Head1.type = "ended")
                              ELSE UNCHANGED <<dialogs, ring>>
         /\ data' = [data EXCEPT ![k] = "deleted"]
  /\ UNCHANGED <<pjsua, hidden, aaPlay>>

HandleMessage ==
  /\ queue # <<>>
  /\ HandleIncoming \/ HandleCreate \/ HandleAnswer \/ HandleState \/ HandleEnded

-----------------------------------------------------------------------------
(* Timers, sounds and the user *)

\* OnTimer, IDT_TIMER_AUTOANSWER
AutoAnswerTimer ==
  /\ aaTimer # NoSlot
  /\ aaTimer' = NoSlot
  /\ \/ AutoAnswer(aaTimer, queue) /\ UNCHANGED <<ring, aaPlay>>
     \/ aaPlay' = aaTimer /\ ring' = FALSE /\ UNCHANGED queue
     \/ Counted # {} /\ UNCHANGED <<queue, ring, aaPlay>>
  /\ UNCHANGED <<pjsua, users, tab, dialogs, fwdTimer>>

\* OnTimer, IDT_TIMER_FORWARDING
ForwardTimer ==
  /\ fwdTimer # NoSlot
  /\ fwdTimer' = NoSlot
  /\ Refuse(fwdTimer, queue)
  /\ UNCHANGED <<tab, dialogs, ring, aaTimer, aaPlay>>

\* onPlayerStop, at the end of a sound.  A sound played meanwhile, such as the
\* tone of an outgoing call, has taken the place of the ringtone already.
SoundDone ==
  /\ ring \/ aaPlay # NoSlot
  /\ ring' = FALSE
  /\ aaPlay' = NoSlot
  /\ IF aaPlay = NoSlot THEN UNCHANGED queue
     ELSE \/ AutoAnswer(aaPlay, queue)
          \/ Counted # {} /\ UNCHANGED queue
  /\ UNCHANGED <<pjsua, users, tab, dialogs, aaTimer, fwdTimer>>

\* msip_call_answer takes the first ringing call, CommandCallAnswer the first
\* ringing dialog.  Bound: while an answer is in the queue, no other is posted.
AnswerCommand ==
  /\ \A i \in DOMAIN queue : queue[i].type # "answer"
  /\ \/ \E k \in Active : /\ Ringing(k)
                          /\ \A x \in Active : Ringing(x) => slot[k] <= slot[x]
                          /\ queue' = Append(queue, Msg("answer", slot[k], NoCall))
     \/ /\ dialogs # <<>>
        /\ queue' = Append(queue, Msg("answer", dialogs[1], NoCall))
  /\ UNCHANGED <<pjsua, users, tab, dialogs, ring, timers>>

\* The button of the tab, or of a ringing dialog
Answer(s) ==
  /\ s \in {tab[n] : n \in Numbers} \union ToSet(dialogs)
  /\ \E k \in At(s) : Ringing(k)
  /\ OnCallAnswer(s, queue)

\* RinginDlg::Close
Close(s) ==
  LET at == SelectInSeq(dialogs, LAMBDA d : d = s)
  IN  /\ at # 0
      /\ dialogs' = RemoveAt(dialogs, at)
      /\ ring' = (ring /\ Len(dialogs) # 1)

CloseDialog(s) ==
  /\ Close(s)
  /\ UNCHANGED <<pjsua, users, queue, tab, timers>>

\* OnBnClickedDecline: msip_call_busy hangs up whatever the slot has.
Decline(s) ==
  /\ Close(s)
  /\ End(At(s) \intersect Active, "hanging")
  /\ queue' = queue \o Told(At(s) \intersect Active, Ended)
  /\ UNCHANGED <<tab, timers>>

\* msip_call_hangup_fast: of a tab's call (OnDisconnect, OnBnClickedEnd of a call
\* in no conference, CloseTab) or of all but the ringing ones (the dialer's End)
HangupFast(S) ==
  /\ S # {}
  /\ inv' = InvAfter(S)
  /\ data' = Parted(S \intersect Active)
  /\ queue' = queue \o ToldAfter(S)
  /\ tab' = TabAfter(S)
  /\ KillTimers(TabsOf(S) # {})
  /\ UNCHANGED <<role, number, slot, next, hidden, timer, dialogs, ring, aaPlay>>

Hangup(n) == tab[n] \in Slots /\ HangupFast(At(tab[n]))
HangupAll == HangupFast(NotIncoming)

\* CloseTab of a tab without a call, or whose call is gone; one with a call is hung
\* up first.
CloseTab(n) ==
  /\ tab[n] # NoTab /\ At(tab[n]) = {}
  /\ tab' = [tab EXCEPT ![n] = NoTab]
  /\ UNCHANGED <<pjsua, users, queue, dialogs, ring, timers>>

\* CallStart and CallMake, with on_call_state of the CALLING session.  In single
\* mode the other calls are hung up before.
Dial(k, n) ==
  LET S == IF SingleMode THEN NotIncoming ELSE {}
  IN  /\ tab[n] \in {NoSlot, NoTab}
      /\ ~Redial => \A x \in Active : number[x] # n
      /\ Takes(k, n, "out", [InvAfter(S) EXCEPT ![k] = "calling"])
      /\ data' = [Parted(S \intersect Active) EXCEPT ![k] = "attached"]
      /\ queue' = Append(queue \o ToldAfter(S), Msg("calling", Alloc, k))
      /\ tab' = [TabAfter(S) EXCEPT ![n] = Alloc]
      /\ KillTimers(TabsOf(S) # {})
      /\ UNCHANGED <<hidden, timer, dialogs, ring, aaPlay>>

-----------------------------------------------------------------------------
Worker ==
  \E k \in Calls : \/ \E n \in Numbers : Incoming(k, n)
                   \/ Confirm(k) \/ RemoteEnd(k) \/ Lost(k) \/ MediaState(k)
                   \/ TimeOut(k) \/ ByeDone(k)

User ==
  \/ AnswerCommand \/ HangupAll
  \/ \E s \in Slots : Answer(s) \/ CloseDialog(s) \/ Decline(s)
  \/ \E n \in Numbers : Hangup(n) \/ CloseTab(n) \/ \E k \in Calls : Dial(k, n)

Next == Worker \/ HandleMessage \/ AutoAnswerTimer \/ ForwardTimer \/ SoundDone \/ User

Spec == Init /\ [][Next]_vars

\* The message loop of the UI thread goes on, and pjsua completes transactions.
Fairness ==
  /\ WF_vars(HandleMessage)
  /\ \A k \in Calls : WF_vars(ByeDone(k))

FairSpec == Spec /\ Fairness

-----------------------------------------------------------------------------
(* Properties *)

Types == {"incoming", "calling", "ringing", "answered", "media", "ended",
          "unanswered", "create", "answer", "reject"}

\* Type correctness of pjsua's calls, the user data, the messages and the windows.
TypeOK ==
  /\ inv \in [Calls -> {"none", "ringing", "calling", "connecting", "confirmed",
                        "hanging", "over", "lost"}]
  /\ role \in [Calls -> {"in", "out"}]
  /\ number \in [Calls -> Numbers]
  /\ slot \in [Calls -> Slots \union {NoSlot}]
  /\ next \in 0..NSlots
  /\ data \in [Calls -> {"none", "attached", "detached", "deleted", "leaked"}]
  /\ hidden \in [Calls -> BOOLEAN]
  /\ timer \in [Calls -> BOOLEAN]
  /\ queue \in Seq([type : Types, slot : Slots, call : Calls \union {NoCall}])
  /\ tab \in [Numbers -> Slots \union {NoSlot, NoTab}]
  /\ dialogs \in Seq(Slots)
  /\ ring \in BOOLEAN
  /\ {aaTimer, fwdTimer, aaPlay} \subseteq Slots \union {NoSlot}

Final(k) == {i \in DOMAIN queue : /\ queue[i].call = k
                                 /\ queue[i].type \in {"ended", "unanswered"}}

\* No pointer outlives the user data: a queued message carries data that are not
\* deleted, and data that left their slot wait for exactly one last message, with
\* none of the call behind it, whose handler deletes them.  The slot owns them as
\* long as the call goes on; those of a call that was lost have no last message.
PointersLive ==
  /\ \A i \in DOMAIN queue : queue[i].call # NoCall =>
       data[queue[i].call] \in {"attached", "detached", "leaked"}
  /\ \A k \in Calls :
       /\ data[k] = "attached" <=> k \in Active
       /\ data[k] = "detached" <=> Cardinality(Final(k)) = 1
       /\ \A i \in Final(k) : \A j \in DOMAIN queue : queue[j].call = k => j <= i

\* The timer of a call is not left to pjsua when its user data are deleted, as
\* OnEndCall has it: "Cancel duration timer, if any".
TimerCancelled ==
  \A k \in Calls : timer[k] => data[k] # "deleted"

\* A tab that shows a call shows one of its number that is going on, or whose last
\* message is still to come, or that was lost, which the UI is never told: no other
\* call that is gone stays on screen.
TabsCurrent ==
  \A n \in Numbers : tab[n] \in Slots =>
    \E k \in Calls : /\ slot[k] = tab[n] /\ number[k] = n
                     /\ k \in Active \/ Final(k) # {} \/ inv[k] = "lost"

\* A ringing dialog is for one incoming call that rings, or that has a message in
\* the queue that closes the dialog.
DialogsCurrent ==
  \A i \in DOMAIN dialogs :
    /\ \E k \in Calls :
         /\ slot[k] = dialogs[i] /\ role[k] = "in"
         /\ \/ Ringing(k)
            \/ \E j \in DOMAIN queue : /\ queue[j].call = k
                                       /\ queue[j].type \in {"answered", "ended", "unanswered"}
    /\ \A j \in DOMAIN dialogs : dialogs[i] = dialogs[j] => i = j

\* The ringtone never outlives the calls: when the UI thread has nothing left to
\* handle and it plays, a call is ringing.
RingtoneStops ==
  queue = <<>> /\ ring => \E k \in Calls : Ringing(k)

\* When the UI thread has nothing left to handle, a call that was made or answered
\* can be reached from the tab of its number, the only place to hang it up, unless
\* another call of the number was lost: the tab that it left behind keeps its slot,
\* and the call never gets it.
CallsReachable ==
  queue = <<>> =>
    \A k \in Active : \/ Ringing(k)
                      \/ tab[number[k]] = slot[k]
                      \/ \E x \in Calls : inv[x] = "lost" /\ number[x] = number[k]

\* A tab is not taken from a call that goes on, unless it is hung up with it.
TabKept ==
  [][\A k \in Active : tab[number[k]] = slot[k] /\ tab'[number[k]] # slot[k] =>
       k \notin Active']_vars

\* Whatever ends a call, the UI gets to know: its user data are deleted, and its
\* number's tab and its ringing dialog are given back.  Of a call that was lost
\* the dialog is, by the message of its answer.
EndIsShown ==
  \A k \in Calls :
    /\ inv[k] \in {"hanging", "over"} ~>
         data[k] = "deleted" /\ tab[number[k]] # slot[k] /\ slot[k] \notin ToSet(dialogs)
    /\ inv[k] = "lost" ~> slot[k] \notin ToSet(dialogs)

\* The user data of a call have one owner at a time and are deleted once, as
\* CallOwnership has it, except that nobody gets those of a call that was lost.
Ownership == INSTANCE CallOwnership WITH
  stage <- [k \in Calls |-> CASE inv[k] = "none" -> "none"
                              [] k \in Active -> "going"
                              [] inv[k] \in {"hanging", "over"} -> "ended"
                              [] inv[k] = "lost" -> "lost"],
  owner <- [k \in Calls |-> CASE data[k] = "none" -> "nobody"
                              [] data[k] = "attached" -> "pjsua"
                              [] data[k] = "detached" -> "window"
                              [] data[k] = "deleted" -> "gone"
                              [] data[k] = "leaked" -> "lost"],
  refs <- [k \in Calls |-> \E i \in DOMAIN queue : queue[i].call = k]

OwnershipKept == Ownership!Spec

\* Under the fairness of the message loop, no user data are left behind, other than
\* those of the calls that were lost.
DataReleased == Ownership!Released
=============================================================================
