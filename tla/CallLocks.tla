------------------------------ MODULE CallLocks ------------------------------
(***************************************************************************)
(* The locks of MicroSIP's handlers: PJSUA_LOCK and the critical section   *)
(* CS of the user data of every call, taken by the thread of the windows   *)
(* and by pjsua's worker thread.                                           *)
(*                                                                         *)
(* A handler is the sequence of what it does to locks.  Where it branches  *)
(* on shared state, a step of the sequence is a function: it is replaced   *)
(* by what the function does in the state it is reached in.  The locks are *)
(* recursive; where a handler takes a lock again that it has taken itself, *)
(* this is left out.  So are the dialog locks: acquire_call only tries     *)
(* them, and gives up after two seconds.                                   *)
(*                                                                         *)
(* The calls are confirmed and have media, but for one that comes in.      *)
(***************************************************************************)
EXTENDS Integers, Sequences, FiniteSets, SequencesExt

CONSTANTS Calls,       \* the slots of the calls, numbers
          NewCall,     \* the one that comes in
          UI, Worker,  \* the threads
          PJ,          \* PJSUA_LOCK
          Nobody,      \* the lock is free
          Broken       \* the lock will never be free again

Threads == {UI, Worker}
Locks == Calls \union {PJ}

VARIABLES todo,      \* what each thread has still to do
          owner,     \* the thread that has a lock
          depth,     \* how many times
          attached,  \* the calls with user data
          members,   \* those with inConference
          recorded   \* those with a recorder

calls == <<attached, members, recorded>>
locks == <<owner, depth>>
vars == <<todo, locks, calls>>

-----------------------------------------------------------------------------
\* Sequences of one step: a lock, an unlock, or a function for call c, with
\* the other call x where there is one.
Step(what, c, x) == <<[do |-> what, call |-> c, other |-> x]>>
Lock(l) == Step("lock", l, l)
Unlock(l) == Step("unlock", l, l)
Do(what, c) == Step(what, c, c)

\* Any function of pjsua that waits for PJSUA_LOCK: get_info, enum_calls,
\* get_conf_port, conf_connect, recorder_create.
Ask == Lock(PJ) \o Unlock(PJ)

\* A flag is read, or set, under the lock: ParseCallSIPURI and many others.
Look(c) == Lock(c) \o Unlock(c)

\* The loops over the other calls, in the order of their slots.
Others(c) == SetToSortSeq(attached \ {c}, <)
Each(s, Op(_)) == FlattenSeq([i \in DOMAIN s |-> Op(s[i])])
UpTo(s, S) ==
  LET k == SelectInSeq(s, LAMBDA y : y \in S) IN IF k = 0 THEN s ELSE SubSeq(s, 1, k)

\* The other calls that share the recording of a conference with c.
Sharers(c) == IF c \in members THEN (members \intersect recorded) \ {c} ELSE {}

\* on_call_state, disconnected, which gives up the user data.
OnCallState(c) == Ask \o Lock(c) \o Do("detach", c) \o Unlock(c)

\* In pjsua_call_hangup the thread that hangs up runs on_call_state, so that
\* OnEndCall finds no user data.
MsipCallHangupFast(c) == Ask \o OnCallState(c)

\* What a function does from the point where it branches; it has the lock of
\* call c, and of the other call in "met" and "too".
Body(what, c, x) ==
  CASE what = "join" /\ c \in members ->            \* msip_conference_join
         Ask \o Each(Others(c), LAMBDA y : Lock(y) \o Step("met", c, y))
    [] what = "met" ->          \* after the connection x is unlocked once more
         Unlock(x) \o
         (CASE x \notin members -> <<>>
            [] x \in members /\ x \in recorded -> Ask \o Do("start", c) \o Unlock(x)
            [] x \in members \ recorded /\ c \in recorded ->
                 Ask \o Lock(x) \o Do("start", x) \o Unlock(x) \o Unlock(x)
            [] OTHER -> Ask \o Unlock(x))
    [] what \in {"leave", "hold"} /\ c \in members ->   \* msip_conference_leave
         Do("stop", c) \o Ask \o Each(Others(c), Look)
           \o (IF what = "leave" THEN Do("left", c) ELSE <<>>)
    [] what = "left" /\ Cardinality(members \ {c}) = 1 ->
         Each(SetToSeq(members \ {c}), LAMBDA y : Lock(y) \o Do("alone", y) \o Unlock(y))
    [] what = "start" /\ c \notin recorded ->       \* msip_call_recording_start
         IF c \notin members THEN Ask
         ELSE Ask \o Each(UpTo(Others(c), Sharers(c)), Look)
              \o (IF Sharers(c) # {} THEN <<>>
                  ELSE Ask \o Each(Others(c), LAMBDA y : Lock(y) \o Ask \o Unlock(y)))
    [] what = "stop" /\ c \in recorded ->           \* msip_call_recording_stop
         Ask \o Each(UpTo(Others(c), Sharers(c)), Look) \o Ask
    [] what = "force" /\ c \in recorded ->          \* the same with force
         Ask \o Each(Others(c), LAMBDA y : Lock(y) \o (IF y \in Sharers(c) THEN Ask ELSE <<>>)
                                             \o Unlock(y)) \o Ask
    [] what = "end" /\ c \in members ->             \* msip_call_end
         Ask \o Each(Others(c), LAMBDA y : Lock(y) \o Step("too", c, y))
    [] what = "too" ->                              \* a member ends with the call
         Unlock(x) \o IF x \in members THEN MsipCallHangupFast(x) ELSE <<>>
    [] OTHER -> <<>>

\* The same functions' changes to the user data.
Change(what, c) ==
  /\ attached' = CASE what = "attach" -> attached \union {c}
                   [] what = "detach" -> attached \ {c}
                   [] OTHER -> attached
  /\ members' = CASE what = "merge" -> members \union {c}
                  [] what \in {"left", "alone", "detach"} -> members \ {c}
                  [] OTHER -> members
  /\ recorded' = CASE what = "start" -> recorded \union {c} \union
                                          (IF c \in members \ recorded /\ Sharers(c) = {} THEN members ELSE {})
                   [] what = "force" -> recorded \ ({c} \union Sharers(c))
                   [] what \in {"stop", "detach"} -> recorded \ {c}
                   [] OTHER -> recorded

-----------------------------------------------------------------------------
\* The handlers.

\* pjsua_call_on_incoming has PJSUA_LOCK while it calls on_incoming_call, which
\* looks at every other call for the same number.
OnIncomingCall(c) ==
  Lock(PJ) \o Do("attach", c) \o Lock(c) \o Each(Others(c), Look) \o Unlock(c) \o Unlock(PJ)

OnCallMediaState(c, media) == Ask \o Lock(c) \o Do(media, c) \o Unlock(c) \o Look(c)

\* CmainDlg::onCallState has the lock while it asks pjsua about the media.
ShowCallState(c) == Look(c) \o Lock(c) \o Ask \o Unlock(c)

Flag(c) == Lock(c) \o Do("merge", c) \o Unlock(c)
Merge(c, d) == Flag(c) \o Flag(d) \o Ask \o Lock(d) \o Do("join", d) \o Unlock(d)
Separate(c) == Ask \o Lock(c) \o Do("leave", c) \o Unlock(c)
MsipCallEnd(c) == Lock(c) \o Do("end", c) \o Unlock(c) \o MsipCallHangupFast(c)
OnBnClickedRec(c) == Lock(c) \o Do(IF c \in recorded THEN "force" ELSE "start", c) \o Unlock(c)

Talking == attached \ {NewCall}

\* A thread that is between two handlers begins one.
Handle(t, steps) ==
  /\ todo[t] = <<>>
  /\ todo' = [todo EXCEPT ![t] = steps]
  /\ UNCHANGED <<locks, calls>>

WorkerHandler ==
  \/ NewCall \notin attached /\ Handle(Worker, OnIncomingCall(NewCall))
  \/ \E c \in Talking, media \in {"join", "hold"} : Handle(Worker, OnCallMediaState(c, media))
  \/ \E c \in Talking : Handle(Worker, OnCallState(c))

UserHandler ==
  \/ \E c, d \in Talking : c # d /\ Handle(UI, Merge(c, d))
  \/ \E c \in Talking :
       \E steps \in {ShowCallState(c), Separate(c), MsipCallEnd(c), OnBnClickedRec(c)} :
         Handle(UI, steps)

Now(t) == Head(todo[t])

Take(t, l) ==
  /\ owner[l] \in {t, Nobody}
  /\ owner' = [owner EXCEPT ![l] = t]
  /\ depth' = [depth EXCEPT ![l] = @ + 1]

\* An unlock of another thread's lock counts as the other's.  What an unlock of
\* a free lock does is undefined: nothing, or the lock is never free again.
Drop(l) ==
  IF owner[l] \in Threads
  THEN /\ depth' = [depth EXCEPT ![l] = @ - 1]
       /\ owner' = IF depth[l] = 1 THEN [owner EXCEPT ![l] = Nobody] ELSE owner
  ELSE owner' \in {owner, [owner EXCEPT ![l] = Broken]} /\ UNCHANGED depth

Proceed(t) ==
  /\ todo[t] # <<>>
  /\ todo' = [todo EXCEPT ![t] = Body(Now(t).do, Now(t).call, Now(t).other) \o Tail(@)]
  /\ CASE Now(t).do = "lock" -> Take(t, Now(t).call) /\ UNCHANGED calls
       [] Now(t).do = "unlock" -> Drop(Now(t).call) /\ UNCHANGED calls
       [] OTHER -> Change(Now(t).do, Now(t).call) /\ UNCHANGED locks

Init ==
  /\ todo = [t \in Threads |-> <<>>]
  /\ owner = [l \in Locks |-> Nobody]
  /\ depth = [l \in Locks |-> 0]
  /\ attached = Calls \ {NewCall}
  /\ members \in {{}, attached}
  /\ recorded = {}

Next == WorkerHandler \/ UserHandler \/ \E t \in Threads : Proceed(t)

Spec == Init /\ [][Next]_vars

-----------------------------------------------------------------------------
WaitsFor(s, t) == todo[s] # <<>> /\ Now(s).do = "lock" /\ owner[Now(s).call] = t

\* The two threads never wait for each other.  pjsua releases its locks before
\* it calls the application "to avoid deadlock" (pjsua_call.c:5147), but keeps
\* them around on_incoming_call.
NoDeadlock == ~(WaitsFor(UI, Worker) /\ WaitsFor(Worker, UI))

=============================================================================
