----------------------------- MODULE CallHistory -----------------------------
(***************************************************************************)
(* The call history of MicroSIP: the list of the calls page and the        *)
(* section [Calls] of the ini file behind it.                              *)
(*                                                                         *)
(* Every entry has one of KeyCount keys (1000 in the code), handed out in  *)
(* turn; callsLastKey in [Settings] remembers the last one.  Whatever the  *)
(* UI thread does to an entry it writes to the entry's key at once, and    *)
(* the key of a new entry in a second write: the program may end, or be    *)
(* ended, between any two writes.  The list keeps more than the file: the  *)
(* SIP Call-ID by which a call finds its entry is only in memory, and lost *)
(* whenever the list is loaded again.                                      *)
(*                                                                         *)
(* An entry is known by the number of its turn, which also stands for its  *)
(* time: entries made within the same second count as made in order.       *)
(***************************************************************************)
EXTENDS Integers, Sequences, FiniteSets

CONSTANTS Calls,       \* the SIP calls of a run
          Incoming,    \* those that come in
          KeyCount,    \* the number of keys
          Filters,     \* what a text in the filter box can match
          NoFilter,    \* the box is empty
          NoId,        \* the Call-ID of an entry read from the file
          Absent,      \* no such key in the file
          Null,        \* the entry at the key was deleted
          MaxTurn      \* bound: entries made in a behaviour

ASSUME IncomingAssumption == Incoming \subseteq Calls
ASSUME KeyCountAssumption == KeyCount \in Nat \ {0}
ASSUME FiltersAssumption == Filters \subseteq SUBSET Calls /\ NoFilter \notin Filters
ASSUME NoIdAssumption == NoId \notin Calls

Keys == 0 .. KeyCount - 1

\* What the file keeps of an entry: whose it is, how it is marked, whether its
\* duration and its end (info) were noted.
Records == [call : Calls \union {NoId}, type : {"out", "in", "miss"},
            said : {"begun", "timed", "ended"}, time : Nat]

ASSUME FileAssumption == Absent \notin Records /\ Null \notin Records /\ Absent # Null

Items == [key : Keys, id : Calls \union {NoId}, rec : Records]

VARIABLES
  file,     \* section [Calls]: a record, Null or Absent at every key
  fileKey,  \* callsLastKey in section [Settings], -1 if missing
  list,     \* the entries of the list control
  lastKey,  \* Calls::lastKey
  filter,   \* what the filter box matches
  writes,   \* what the UI thread has still to write, in order
  phase,    \* what the calls page has heard, and may still hear, of a call
  turn,     \* history: the number of entries made
  cut,      \* history: entries saved without their key, the program ending
  relisted, \* history: calls whose entry lost the Call-ID while they went on
  shared    \* history: keys that entries of the list have had in common

memory == <<list, lastKey, filter>>
history == <<turn, cut, relisted, shared>>
vars == <<file, fileKey, memory, writes, phase, history>>

Going == {c \in Calls : phase[c] \in {"going", "hung"}}
IsFiltered == filter # NoFilter

-----------------------------------------------------------------------------
\* Mutant: the first deleted entry ends the loop.
ReadUndeleted(f, k) == {i \in Keys : \A j \in 0 .. i : f[j] \notin {Absent, Null}}

\* Calls::CallsLoad.  It reads the keys upwards until one is missing that is
\* not below callsLastKey; deleted entries and those the filter hides are not
\* listed.  An entry read from the file has no Call-ID.
Read(f, k) == {i \in Keys : /\ f[i] \notin {Absent, Null}
                            /\ \A j \in 0 .. i - 1 : f[j] # Absent \/ j < k}

Loaded(f, k, flt) ==
  {[key |-> i, id |-> NoId, rec |-> f[i]] :
      i \in {j \in Read(f, k) : flt = NoFilter \/ f[j].call \in flt}}

\* Mutant: the oldest of the entries read.
KeyOfOldest(f, k) ==
  IF Read(f, k) = {} THEN k
  ELSE CHOOSE i \in Read(f, k) : \A j \in Read(f, k) : f[j].time >= f[i].time

\* lastKey is callsLastKey, then the key of the newest entry read, if any.
KeyLoaded(f, k) ==
  IF Read(f, k) = {} THEN k
  ELSE CHOOSE i \in Read(f, k) : \A j \in Read(f, k) : f[j].time <= f[i].time

\* Calls::Get empties the filter box first, which loads the list again.
Shown == IF IsFiltered THEN Loaded(file, fileKey, NoFilter) ELSE list
KeyShown == IF IsFiltered THEN KeyLoaded(file, fileKey) ELSE lastKey

\* Mutant: an entry that was ended is not looked for.
HasOpen(l, c) == \E x \in l : x.id = c /\ x.rec.said # "ended"

Has(l, c) == \E x \in l : x.id = c
EntryOf(l, c) == CHOOSE x \in l : x.id = c

\* Mutant: a comparison with > instead of >=.
NextKeyPast(k) ==
  LET last == IF fileKey # -1 THEN fileKey ELSE k
  IN  IF last + 1 > KeyCount THEN 0 ELSE last + 1

\* Mutant: the last key is handed out again before the first.
NextKeyTwice(k) ==
  LET last == IF fileKey # -1 THEN fileKey ELSE k
  IN  IF last + 1 >= KeyCount /\ turn % 2 = 0 THEN last ELSE (last + 1) % KeyCount

\* Calls::GetNextKey: the file's callsLastKey, if there is one, goes before
\* lastKey.
NextKey(k) ==
  LET last == IF fileKey # -1 THEN fileKey ELSE k
  IN  IF last + 1 >= KeyCount THEN 0 ELSE last + 1

\* CallSave and SaveKey, one WritePrivateProfileString each.
Save(x) == [key |-> x.key, value |-> x.rec]
SaveKey(k) == [key |-> -1, value |-> k]

\* A call's view of the page: the list, the writes due, the last key.
View == [list |-> Shown, due |-> <<>>, last |-> KeyShown]

Put(v, old, new) ==
  [v EXCEPT !.list = (@ \ {old}) \union {new}, !.due = Append(@, Save(new))]

\* Calls::Add: a call without an entry gets one; that of a known call is saved
\* if it changes.
Add(v, c, t) ==
  IF Has(v.list, c)
  THEN LET x == EntryOf(v.list, c)
       IN  IF x.rec.type = t THEN v ELSE Put(v, x, [x EXCEPT !.rec.type = t])
  ELSE LET k == NextKey(v.last)
           x == [key |-> k, id |-> c,
                 rec |-> [call |-> c, type |-> t, said |-> "begun", time |-> turn + 1]]
       IN  [list |-> v.list \union {x}, due |-> v.due \o <<Save(x), SaveKey(k)>>,
            last |-> k]

\* Mutant: the list is told, the file is not.
NoteUnsaved(v, c, what) ==
  IF Has(v.list, c)
  THEN LET x == EntryOf(v.list, c)
       IN  [v EXCEPT !.list = (@ \ {x}) \union {[x EXCEPT !.rec.said = what]}]
  ELSE v

\* Mutant: an entry is noted once.
NoteOnce(v, c, what) ==
  IF Has(v.list, c) /\ EntryOf(v.list, c).rec.said = "begun"
  THEN LET x == EntryOf(v.list, c) IN Put(v, x, [x EXCEPT !.rec.said = what])
  ELSE v

\* Calls::SetDuration and Calls::SetInfo.
Note(v, c, what) ==
  IF Has(v.list, c)
  THEN LET x == EntryOf(v.list, c) IN Put(v, x, [x EXCEPT !.rec.said = what])
  ELSE v

-----------------------------------------------------------------------------
Idle == writes = <<>>

\* What a step of the page leaves behind.  Entries of the list that have a key
\* in common are remembered until the list is loaded again.
Become(v) ==
  /\ list' = v.list
  /\ lastKey' = v.last
  /\ writes' = v.due
  /\ filter' = NoFilter
  /\ turn' = IF \E x \in v.list : x.rec.time > turn THEN turn + 1 ELSE turn
  /\ relisted' = IF IsFiltered THEN relisted \union Going ELSE relisted
  /\ shared' = (IF IsFiltered THEN {} ELSE shared)
                 \union {x.key : x \in {y \in v.list : \E z \in v.list : z # y /\ z.key = y.key}}
  /\ UNCHANGED <<file, fileKey, cut>>

\* A call begins; the page hears of it later, if at all.
Begin(c) ==
  /\ phase[c] = "new"
  /\ phase' = [phase EXCEPT ![c] = "going"]
  /\ UNCHANGED <<file, fileKey, memory, writes, history>>

\* CallMake and onCallState: a call with a tab is dialled, or goes on.  Messages
\* on their way when the user hangs up are still handled.
Tell(c) ==
  /\ Idle /\ c \in Going /\ turn < MaxTurn
  /\ Become(Add(View, c, IF c \in Incoming THEN "in" ELSE "out"))
  /\ UNCHANGED phase

\* OnEndCall.  A call that was never connected is marked as missed, unless it
\* is hidden; then its duration and how it ended are noted.
EndOfCall(v, c, missed) ==
  LET v1 == IF missed THEN Add(v, c, "miss") ELSE v
  IN  Note(Note(v1, c, "timed"), c, "ended")

\* msip_call_hangup_fast: OnEndCall before pjsua's last message.
HangUp(c, missed) ==
  /\ Idle /\ phase[c] = "going" /\ turn < MaxTurn
  /\ missed => c \in Incoming
  /\ phase' = [phase EXCEPT ![c] = "hung"]
  /\ Become(EndOfCall(View, c, missed))

\* onCallState, disconnected: a call that was refused as busy (486) is marked as
\* missed, whether it was hidden or not, unless its tab shows another call;
\* then OnEndCall.  Nothing obliges this step: a call that ends with 481 has
\* no last message (on_call_state), and its entry stays as it is.
LastMessage(c, missed, busy) ==
  /\ Idle /\ c \in Going /\ turn < MaxTurn
  /\ missed \/ busy => c \in Incoming
  /\ phase' = [phase EXCEPT ![c] = "over"]
  /\ LET v == IF busy THEN Add(View, c, "miss") ELSE View
     IN  Become(EndOfCall(v, c, missed))

\* OnFilterValueChange, and Escape, which empties the box.
TypeFilter(flt) ==
  /\ Idle /\ flt # filter
  /\ filter' = flt
  /\ list' = Loaded(file, fileKey, flt)
  /\ lastKey' = KeyLoaded(file, fileKey)
  /\ relisted' = relisted \union Going
  /\ shared' = {}
  /\ UNCHANGED <<file, fileKey, writes, phase, turn, cut>>

\* OnMenuDelete: Calls::Delete of an entry of the list.
Delete(x) ==
  /\ Idle
  /\ list' = list \ {x}
  /\ writes' = <<[key |-> x.key, value |-> Null]>>
  /\ UNCHANGED <<file, fileKey, lastKey, filter, phase, history>>

\* WritePrivateProfileString: the next of the writes due.
Write ==
  /\ ~Idle
  /\ LET w == Head(writes)
     IN  IF w.key = -1
         THEN fileKey' = w.value /\ UNCHANGED file
         ELSE file' = [file EXCEPT ![w.key] = w.value] /\ UNCHANGED fileKey
  /\ writes' = Tail(writes)
  /\ UNCHANGED <<memory, phase, history>>

\* The program ends, in between two writes or not, and is started again.
\* onInitDialog loads the list; the calls are gone.
Restart ==
  /\ filter' = NoFilter
  /\ list' = Loaded(file, fileKey, NoFilter)
  /\ lastKey' = KeyLoaded(file, fileKey)
  /\ writes' = <<>>
  /\ phase' = [c \in Calls |-> IF c \in Going THEN "over" ELSE phase[c]]
  /\ cut' = cut \union
       {f.time : f \in {file[k] : k \in {k \in Keys : /\ file[k] \notin {Absent, Null}
                                                      /\ file[k].time = turn
                                                      /\ \E i \in DOMAIN writes : writes[i].key = -1 /\ writes[i].value = k}}}
  /\ shared' = {}
  /\ UNCHANGED <<file, fileKey, turn, relisted>>

-----------------------------------------------------------------------------
\* A file of an earlier run holds n entries, with or without callsLastKey.
Earlier(i) == [call |-> NoId, type |-> "out", said |-> "ended", time |-> i + 1]

Init ==
  \E n \in 0 .. KeyCount, known \in BOOLEAN :
     /\ file = [i \in Keys |-> IF i < n THEN Earlier(i) ELSE Absent]
     /\ fileKey = IF known THEN n - 1 ELSE -1
     /\ filter = NoFilter
     /\ list = Loaded(file, fileKey, NoFilter)
     /\ lastKey = KeyLoaded(file, fileKey)
     /\ writes = <<>>
     /\ phase = [c \in Calls |-> "new"]
     /\ turn = n
     /\ cut = {} /\ relisted = {} /\ shared = {}

Next ==
  \/ \E c \in Calls : Begin(c) \/ Tell(c)
  \/ \E c \in Calls, missed \in BOOLEAN : HangUp(c, missed)
  \/ \E c \in Calls, missed, busy \in BOOLEAN : LastMessage(c, missed, busy)
  \/ \E flt \in Filters \union {NoFilter} : TypeFilter(flt)
  \/ \E x \in list : Delete(x)
  \/ Write
  \/ Restart

Spec == Init /\ [][Next]_vars

-----------------------------------------------------------------------------
\* PROPERTIES

\* The state has the shape the actions rely on.
TypeOK ==
  /\ file \in [Keys -> Records \union {Absent, Null}]
  /\ fileKey \in Keys \union {-1}
  /\ list \subseteq Items
  /\ lastKey \in Keys \union {-1}
  /\ filter \in Filters \union {NoFilter}
  /\ \A i \in DOMAIN writes : \/ writes[i].key \in Keys /\ writes[i].value \in Records \union {Null}
                              \/ writes[i].key = -1 /\ writes[i].value \in Keys
  /\ phase \in [Calls -> {"new", "going", "hung", "over"}]
  /\ turn \in Nat
  /\ cut \subseteq 1 .. turn
  /\ relisted \subseteq Calls
  /\ shared \subseteq Keys

\* Everything the file keeps is in the list when no text is typed: no entry is
\* there but out of the user's reach, whichever keys were deleted, wherever
\* the ring of keys stands and however often the program was ended in between
\* two writes.
FileIsListed ==
  Idle /\ ~IsFiltered =>
    \A k \in Keys : file[k] \notin {Absent, Null} =>
      \E x \in list : x.key = k /\ x.rec = file[k]

\* What the list shows of an entry is what the file keeps, so that it is still
\* there after a restart, but for entries that have had to share a key.
ListIsFile ==
  Idle => \A x \in list : x.key \notin shared => file[x.key] = x.rec

\* Two entries share a key only when the ring has come round since the older
\* one was made, or when the program was ended before it had saved the older
\* one's key.
KeysApart ==
  \A x, y \in list :
    x.key = y.key /\ x.rec.time < y.rec.time =>
      y.rec.time - x.rec.time >= KeyCount \/ x.rec.time \in cut

\* A call has one entry however often the page hears of it, unless the list was
\* loaded again, by a text in the filter box, while the call went on.
OneEntry ==
  \A x, y \in list : x.rec.call = y.rec.call /\ x.rec.call \in Calls \ relisted => x = y

\* When the last message of a call was handled its entry says how long it took
\* and how it ended, whether it was dialled, answered, missed, refused as busy,
\* hung up before, or entered no sooner than by that message.
EndIsNoted ==
  \A x \in list : x.id \in Calls /\ phase[x.id] = "over" => x.rec.said = "ended"

\* A record gives way to a newer one only when all the other keys have been
\* handed out since, or when its key was not saved.  The record of an entry
\* that has lost its key may still take the newer one's place.
OldestGivesWay ==
  [][\A k \in Keys :
       /\ {file[k], file'[k]} \intersect {Absent, Null} = {}
       /\ file[k].time < file'[k].time
       => \/ file'[k].time - file[k].time >= KeyCount
          \/ file[k].time \in cut]_file

=============================================================================
