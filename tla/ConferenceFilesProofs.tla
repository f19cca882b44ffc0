------------------------- MODULE ConferenceFilesProofs -------------------------
(***************************************************************************)
(* The voices in the files: a call is connected to the file its user data  *)
(* name and to no other, a file is silenced only by a hold, an open file   *)
(* keeps an owner unless a call ends unseen, and calls that hear each      *)
(* other are not cut off by the steps of others.  For any calls and        *)
(* recorders, whatever invitations fail.                                   *)
(*                                                                         *)
(* The first is an invariant and inductive together with that of           *)
(* ConferenceProofs, of which the part on the recorders of calls that are  *)
(* being hung up is needed: such a call has lost its port, so nothing may  *)
(* take it for recorded.  The other three are properties of the steps,     *)
(* from the same invariant.                                                *)
(***************************************************************************)
EXTENDS ConferenceProofs

\* The user data d of call x name the recorder r.
Names(d, x, r) == d[x] # NoData /\ d[x].rec = r

SameRec(d, e, x) == \A r \in Recorders : Names(e, x, r) <=> Names(d, x, r)

\* ConnectedToFile, of user data d, media md and connections t to files
Told(d, md, t) ==
  \A x \in Calls, r \in Recorders :
    /\ <<x, r>> \in t => x \in Enum /\ Names(d, x, r)
    /\ x \in Active /\ Names(d, x, r) /\ md[x] = "active" => <<x, r>> \in t

Seen == Inv /\ Told(data, media, taps)

Owner(x, r) == \/ x \in Enum /\ Names(data, x, r)
               \/ ending[x] # NoData /\ ending[x].rec = r

\* A call that ends unseen: with status 481, or without a tab
Unseen(x) == \/ phase[x] # "lost" /\ phase'[x] = "lost"
             \/ ending[x] # NoData /\ ending'[x] = NoData /\ ~tab[x]

\* FilesCompleted and ConnectedUntilLeft, of one step
FilesKept ==
  \A r \in live : Owned(r) /\ r \in live' /\ ~Owned(r)' => \E x \in Calls : Unseen(x)

PairKept(a, b) ==
  {a, b} \in bridge /\ {a, b} \notin bridge' =>
     \/ \E c \in {a, b} : "active" # media'[c] \/ "active" # media[c]
     \/ ~(InConf(data', a) /\ InConf(data', b))

PairsKept == \A a, b \in Calls : a # b => PairKept(a, b)

-----------------------------------------------------------------------------
(* What the operators do to the recorders that user data name *)

LEMMA SameRecs ==
  ASSUME NEW d, NEW e, NEW x, d[x] = e[x] \/ (/\ e[x] = NoData <=> d[x] = NoData
                                              /\ d[x] # NoData => e[x].rec = d[x].rec)
  PROVE  SameRec(d, e, x)
BY DEF SameRec, Names

\* User data that name a recorder belong to a call that goes on, and then the
\* recorder is open.
LEMMA NamesGoOn ==
  ASSUME Inv, NEW x \in Enum, NEW r \in Recorders, Names(data, x, r)
  PROVE  x \in Active /\ r \in live
BY NoRecAssumption DEF Inv, Open, Recording, Names

\* Fresh user data name none.
LEMMA FreshNamesNone ==
  ASSUME NEW r \in Recorders, NEW d, NEW x,
         d[x] \in {NoData, NewData, [NewData EXCEPT !.conf = TRUE]} \/ d[x].rec = NoRec
  PROVE  ~Names(d, x, r)
BY NewDataIsData, NoRecAssumption DEF Names

\* A shared recorder goes to calls with media that have none.
LEMMA NewcomersHaveNone ==
  ASSUME NEW d, NEW md, NEW c, NEW x \in Newcomers(d, md, c)
  PROVE  ~Recording(d, x)
BY DEF Newcomers

\* Calls that go on take over a recorder, or get a new one, and are connected.
LEMMA AssignTold ==
  ASSUME NEW d \in DataFn, NEW md, NEW t, Told(d, md, t), NEW S,
         \A x \in S : x \in Active /\ d[x] # NoData /\ ~Recording(d, x),
         NEW r \in Recorders
  PROVE  Told(Assign(d, S, r), md, t \union (S \X {r}))
<1> DEFINE e == Assign(d, S, r)
           u == t \union (S \X {r})
<1>0. ASSUME NEW x \in Calls
      PROVE  /\ x \in S => e[x] # NoData /\ e[x].rec = r
             /\ x \notin S => e[x] = d[x]
  BY <1>0, AssignedOnly DEF Recording
<1>1. \A x, q : <<x, q>> \in u <=> <<x, q>> \in t \/ (x \in S /\ q = r)
  OBVIOUS
<1>2. \A x \in S : x \in Enum /\ \A q \in Recorders : ~Names(d, x, q)
  BY NoRecAssumption DEF Active, Enum, Names, Recording
<1> HIDE DEF e, u
<1> SUFFICES ASSUME NEW x \in Calls, NEW q \in Recorders
             PROVE  /\ <<x, q>> \in u => x \in Enum /\ Names(e, x, q)
                    /\ x \in Active /\ Names(e, x, q) /\ md[x] = "active" => <<x, q>> \in u
  BY DEF Told, e, u
<1>3. CASE x \in S
  BY <1>0, <1>1, <1>2, <1>3 DEF Told, Names
<1>4. CASE x \notin S
  BY <1>0, <1>1, <1>4 DEF Told, Names
<1> QED BY <1>3, <1>4

\* They take none away.
LEMMA AssignNames ==
  ASSUME NEW d \in DataFn, NEW S, \A x \in S : d[x] # NoData /\ ~Recording(d, x),
         NEW r \in Recorders
  PROVE  \A x \in Calls, q \in Recorders : Names(d, x, q) => Names(Assign(d, S, r), x, q)
<1> SUFFICES ASSUME NEW x \in Calls, NEW q \in Recorders, Names(d, x, q)
             PROVE  Names(Assign(d, S, r), x, q)
  OBVIOUS
<1>1. x \notin S
  BY NoRecAssumption DEF Names, Recording
<1>2. Assign(d, S, r)[x] = d[x]
  BY <1>1, AssignedOnly
<1> QED BY <1>2 DEF Names

\* msip_conference_join connects who takes over a recorder, and takes none away.
LEMMA JoinTold ==
  ASSUME NEW d \in DataFn, NEW md, Ports(md), NEW c \in Enum, NEW b, NEW t, Open(d, live),
         Told(d, md, t), ConferenceJoin(d, md, c, b, t)
  PROVE  /\ Told(data', md, taps')
         /\ \A x \in Calls, q \in Recorders : Names(d, x, q) => Names(data', x, q)
<1> DEFINE new == Newcomers(d, md, c)
           r == SharedRec(d)
<1>1. CASE ~InConf(d, c) \/ new = {}
  <2>1. data' = d /\ taps' = t
    BY <1>1 DEF ConferenceJoin
  <2> QED BY <2>1
<1>2. CASE InConf(d, c) /\ new # {}
  <2>1. data' = Assign(d, new, r) /\ taps' = t \union (new \X {r})
    BY <1>2 DEF ConferenceJoin
  <2>2. r \in Recorders
    BY <1>2, SharedRecIsOpen
  <2>3. \A x \in new : x \in Active /\ d[x] # NoData /\ ~Recording(d, x)
    BY <1>2, NewcomersGoOn, NewcomersHaveNone
  <2> HIDE DEF new, r
  <2> QED BY <2>1, <2>2, <2>3, AssignTold, AssignNames
<1> QED BY <1>1, <1>2

\* So does msip_call_recording_start of a call that has no recorder.
LEMMA RecordingStartTold ==
  ASSUME Seen, NEW c \in Active, ~Recording(data, c), RecordingStart(c)
  PROVE  /\ Told(data', media, taps')
         /\ \A x \in Calls, q \in Recorders : Names(data, x, q) => Names(data', x, q)
<1>0. Inv /\ Told(data, media, taps) /\ data \in DataFn /\ data[c] # NoData
  BY DEF Seen, Inv, TypeOK, DataFn, HasData
<1>1. CASE UNCHANGED <<data, taps, live, quiet>>
  BY <1>0, <1>1
<1>2. CASE InConf(data, c) /\ Holders(data, c) # {}
  <2> DEFINE r == data[First(Holders(data, c))].rec
  <2>1. First(Holders(data, c)) \in Holders(data, c)
    BY <1>2, FirstIsMember DEF Holders, Members, Enum
  <2>2. r \in Recorders
    BY <1>0, <2>1 DEF Holders, Members, Recording, Enum, DataFn, Data
  <2>3. data' = Assign(data, {c}, r) /\ taps' = taps \union ({c} \X {r})
    BY <1>2 DEF RecordingStart
  <2> HIDE DEF r
  <2> QED BY <1>0, <2>2, <2>3, AssignTold, AssignNames
<1>3. CASE ~(InConf(data, c) /\ Holders(data, c) # {}) /\ ~UNCHANGED <<data, taps, live, quiet>>
  <2> DEFINE S == {c} \union (IF InConf(data, c)
                             THEN {x \in Members(data, c) : Slotted(media, x)} ELSE {})
  <2>1. PICK r \in Recorders \ live : /\ data' = Assign(data, S, r)
                                      /\ taps' = taps \union (S \X {r})
    BY <1>3 DEF RecordingStart
  <2>2. \A x \in S : x \in Active /\ data[x] # NoData /\ ~Recording(data, x)
    BY <1>0, <1>3 DEF Holders, Members, InConf, Inv, Ports, Slotted, Enum
  <2> HIDE DEF S
  <2> QED BY <1>0, <2>1, <2>2, AssignTold, AssignNames
<1> QED BY <1>1, <1>2, <1>3

-----------------------------------------------------------------------------
(* Steps after which one call has lost its port or its recorder            *)

\* The other calls keep their connections when only c, and files that no other
\* call has, lose theirs.
LEMMA StoppedTold ==
  ASSUME Seen, NEW c \in Calls,
         \A x \in Calls \ {c} : /\ phase'[x] = phase[x] /\ media'[x] = media[x]
                               /\ SameRec(data, data', x),
         taps' \subseteq taps,
         \A x \in Enum \ {c}, r \in Recorders :
           Names(data, x, r) /\ <<x, r>> \in taps => <<x, r>> \in taps',
         \A r \in Recorders : <<c, r>> \notin taps',
         \A r \in Recorders : c \in Active' /\ Names(data', c, r) => media'[c] # "active"
  PROVE  Told(data, media, taps)'
<1>0. Told(data, media, taps)
  BY DEF Seen
<1> SUFFICES ASSUME NEW x \in Calls, NEW r \in Recorders
             PROVE  /\ <<x, r>> \in taps' => x \in Enum' /\ Names(data', x, r)
                    /\ x \in Active' /\ Names(data', x, r) /\ media'[x] = "active"
                         => <<x, r>> \in taps'
  BY DEF Told
<1>1. CASE x = c
  BY <1>1
<1>2. CASE x # c
  <2>1. /\ phase'[x] = phase[x] /\ media'[x] = media[x]
        /\ Names(data', x, r) <=> Names(data, x, r)
    BY <1>2 DEF SameRec
  <2>2. (x \in Enum' <=> x \in Enum) /\ (x \in Active' <=> x \in Active)
    BY <2>1 DEF Enum, Active
  <2>3. x \in Active => x \in Enum
    BY DEF Active, Enum
  <2> QED BY <1>0, <1>2, <2>1, <2>2, <2>3 DEF Told
<1> QED BY <1>1, <1>2

\* Every owner of a file stays one.
LEMMA OwnersStay ==
  ASSUME Inv, \A x \in Calls, r \in Recorders : Owner(x, r) => Owner(x, r)'
  PROVE  FilesKept
BY DEF FilesKept, Owned, Owner, Names, Inv, TypeOK

\* The calls whose slots and last messages stay as they are own what they owned.
LEMMA SlotsOwn ==
  ASSUME NEW x \in Calls, phase'[x] = phase[x], ending'[x] = ending[x], SameRec(data, data', x)
  PROVE  \A r \in Recorders : Owner(x, r) => Owner(x, r)'
BY DEF Owner, SameRec, Enum, Names

\* A file that goes on after c has stopped recording into it has another owner.
LEMMA StoppedKeeps ==
  ASSUME Inv, NEW c \in Calls, NEW r0,
         \A x \in Calls \ {c} : /\ phase'[x] = phase[x] /\ ending'[x] = ending[x]
                               /\ SameRec(data, data', x),
         live' = live \ Completed(c, r0),
         \A r \in Recorders : Owner(c, r) /\ r # r0 => Owner(c, r)'
  PROVE  FilesKept
<1> SUFFICES ASSUME NEW r \in live, r \in live', Owned(r)
             PROVE  Owned(r)'
  BY DEF FilesKept
<1>0. r \in Recorders /\ r # NoRec
  BY NoRecAssumption DEF Inv, TypeOK
<1>1. PICK x \in Calls : Owner(x, r)
  BY DEF Owned, Owner, Names
<1>2. \A y \in Calls \ {c} : Owner(y, r) => Owner(y, r)'
  BY <1>0, SlotsOwn
<1>3. ASSUME NEW y \in Calls, Owner(y, r)' PROVE Owned(r)'
  BY <1>3 DEF Owned, Owner, Names
<1>4. CASE x # c \/ r # r0
  BY <1>0, <1>1, <1>2, <1>3, <1>4
<1>5. CASE r = r0
  <2>1. r \notin Completed(c, r)
    BY <1>5
  <2>2. PICK y \in Enum \ {c} : Names(data, y, r)
    BY <1>0, <2>1 DEF Completed, Names
  <2>3. y \in Calls \ {c} /\ Owner(y, r)
    BY <2>2 DEF Enum, Owner
  <2> QED BY <1>2, <1>3, <2>3
<1> QED BY <1>4, <1>5

\* Nothing but the other files and the port of c is disconnected by
\* msip_call_recording_stop, and the port of c from its file.
LEMMA StopsOne ==
  ASSUME Seen, NEW c \in Calls, NEW r0,
         taps' = {t \in taps : t # <<c, r0>> /\ t[2] \notin Completed(c, r0)},
         \A r \in Recorders : c \in Enum /\ Names(data, c, r) => r = r0
  PROVE  /\ taps' \subseteq taps
         /\ \A x \in Enum \ {c}, r \in Recorders :
              Names(data, x, r) /\ <<x, r>> \in taps => <<x, r>> \in taps'
         /\ \A r \in Recorders : <<c, r>> \notin taps'
<1>1. ASSUME NEW r \in Recorders PROVE <<c, r>> \notin taps'
  <2>1. <<c, r>> \in taps => c \in Enum /\ Names(data, c, r)
    BY DEF Seen, Told
  <2> QED BY <2>1
<1>2. ASSUME NEW x \in Enum \ {c}, NEW r \in Recorders, Names(data, x, r), <<x, r>> \in taps
      PROVE  <<x, r>> \in taps'
  <2>1. r \notin Completed(c, r0)
    BY <1>2, CompletedIsUnused DEF Names
  <2> QED BY <1>2, <2>1
<1> QED BY <1>1, <1>2

\* msip_conference_leave resets the user data of c and no other's recorder.
LEMMA LeaveEffect ==
  ASSUME Inv, NEW c \in Enum, ConferenceLeave(c), InConf(data, c)
  PROVE  /\ \A x \in Calls \ {c} : SameRec(data, data', x)
         /\ data'[c] = NewData
         /\ live' = live \ Completed(c, data[c].rec)
         /\ quiet' = quiet \ Completed(c, data[c].rec)
         /\ taps' = {t \in taps : t # <<c, data[c].rec>>
                                  /\ t[2] \notin Completed(c, data[c].rec)}
<1>0. data \in DataFn /\ c \in Calls
  BY DEF Inv, TypeOK, DataFn, Enum
<1>1. /\ data' = [Dissolve(data, c) EXCEPT ![c] = NewData]
      /\ RecordingStop(c, data[c].rec)
  BY DEF ConferenceLeave
<1>2. /\ Dissolve(data, c) \in DataFn
      /\ \A x \in Calls : /\ Dissolve(data, c)[x] = NoData <=> data[x] = NoData
                          /\ data[x] # NoData => Dissolve(data, c)[x].rec = data[x].rec
  BY <1>0, DissolveIsData
<1>3. \A x \in Calls : data'[x] = IF x = c THEN NewData ELSE Dissolve(data, c)[x]
  BY <1>1, <1>2 DEF DataFn
<1>4. \A x \in Calls \ {c} : SameRec(data, data', x)
  BY <1>2, <1>3, SameRecs
<1> QED BY <1>0, <1>1, <1>3, <1>4 DEF RecordingStop

\* msip_call_hangup_fast of a call that is hanging up touches no recorder.
LEMMA HangupAgainEffect ==
  ASSUME Inv, NEW c \in Calls, HangupAgain(c)
  PROVE  \A x \in Calls : SameRec(data, data', x)
<1>0. data \in DataFn
  BY DEF Inv, TypeOK, DataFn
<1> SUFFICES ASSUME NEW x \in Calls PROVE SameRec(data, data', x)
  OBVIOUS
<1>1. CASE data' = data
  BY <1>1, SameRecs
<1>2. CASE InConf(data, c) /\ data' = [Dissolve(data, c) EXCEPT ![c].conf = FALSE]
  <2> DEFINE d == Dissolve(data, c)
  <2>1. d \in DataFn /\ (d[x] = NoData <=> data[x] = NoData)
        /\ (data[x] # NoData => d[x].rec = data[x].rec)
    BY <1>0, DissolveIsData
  <2>2. d[c] \in Data
    BY <1>0, <1>2, DissolveIsData DEF DataFn, InConf
  <2> HIDE DEF d
  <2>3. [d[c] EXCEPT !.conf = FALSE] \in Data /\ [d[c] EXCEPT !.conf = FALSE].rec = d[c].rec
    BY <2>2 DEF Data
  <2>4. data' = [d EXCEPT ![c].conf = FALSE]
    BY <1>2 DEF d
  <2>5. CASE x = c
    <3>1. data'[x] = [d[c] EXCEPT !.conf = FALSE]
      BY <2>1, <2>4, <2>5 DEF DataFn
    <3>2. data'[x] # NoData /\ d[x] # NoData /\ data'[x].rec = d[x].rec
      BY <2>2, <2>3, <2>5, <3>1, NoDataAssumption
    <3> QED BY <2>1, <3>2, SameRecs
  <2>6. CASE x # c
    BY <2>1, <2>4, <2>6, SameRecs DEF DataFn
  <2> QED BY <2>5, <2>6
<1> QED BY <1>1, <1>2 DEF HangupAgain

\* Merge and an invitation touch none either.
LEMMA FlaggedEffect ==
  ASSUME Inv, NEW s \in Calls, NEW x \in Calls, x = s \/ data[x] # NoData
  PROVE  \A c \in Calls : SameRec(data, Flagged(s, x), c)
<1> SUFFICES ASSUME NEW c \in Calls PROVE SameRec(data, Flagged(s, x), c)
  OBVIOUS
<1>0. data[c] = NoData \/ data[c] \in Data
  BY DEF Inv, TypeOK
<1>1. \/ Flagged(s, x)[c] = data[c]
      \/ data[c] = NoData /\ Flagged(s, x)[c] = [NewData EXCEPT !.conf = TRUE]
      \/ data[c] # NoData /\ Flagged(s, x)[c] = [data[c] EXCEPT !.conf = TRUE]
  BY DEF Flagged
<1>2. CASE Flagged(s, x)[c] = data[c]
  BY <1>2, SameRecs
<1>3. CASE data[c] = NoData /\ Flagged(s, x)[c] = [NewData EXCEPT !.conf = TRUE]
  BY <1>3, FreshNamesNone DEF SameRec, Names
<1>4. CASE data[c] # NoData /\ Flagged(s, x)[c] = [data[c] EXCEPT !.conf = TRUE]
  <2>1. Flagged(s, x)[c] \in Data /\ Flagged(s, x)[c].rec = data[c].rec
    BY <1>0, <1>4 DEF Data
  <2> QED BY <1>4, <2>1, NoDataAssumption, SameRecs
<1> QED BY <1>1, <1>2, <1>3, <1>4

-----------------------------------------------------------------------------
(* Every step tells the truth and loses no file.                           *)

Honest == Told(data, media, taps)' /\ FilesKept

\* The operators that give recorders, when no call comes or ends
LEMMA GivenHonest ==
  ASSUME Inv, Enum' = Enum, Active' = Active, Told(data', media', taps'), UNCHANGED ending,
         \A x \in Calls, q \in Recorders : Names(data, x, q) => Names(data', x, q)
  PROVE  Honest
<1>1. Told(data, media, taps)'
  BY DEF Told
<1>2. FilesKept
  BY OwnersStay DEF Owner
<1> QED BY <1>1, <1>2 DEF Honest

\* A call with no port and no recorder: one not begun, or being hung up
LEMMA SilentCall ==
  ASSUME Seen, NEW c \in Calls \ Active
  PROVE  \A r \in Recorders : <<c, r>> \notin taps /\ ~(c \in Enum /\ Names(data, c, r))
BY NamesGoOn DEF Seen, Told

\* A call that ends hands its user data over, its recorder with them.
LEMMA EndHonest ==
  ASSUME Seen, NEW c \in Active, NEW p \in {"hanging", "over"},
         phase' = [phase EXCEPT ![c] = p],
         ending' = [ending EXCEPT ![c] = data[c]],
         data' = [data EXCEPT ![c] = NoData],
         MediaGone(c), live' = live
  PROVE  Honest
<1>0. Inv /\ TypeOK /\ Ended /\ c \in Calls
  BY DEF Seen, Inv, Active
<1>1. /\ \A x \in Calls \ {c} : /\ phase'[x] = phase[x] /\ media'[x] = media[x]
                                /\ ending'[x] = ending[x] /\ data'[x] = data[x]
      /\ phase'[c] = p /\ ending'[c] = data[c] /\ data'[c] = NoData
      /\ taps' = taps \ TapsOf(c)
  BY <1>0 DEF TypeOK, MediaGone
<1>2. \A x \in Calls \ {c} : SameRec(data, data', x)
  BY <1>1, SameRecs
<1>3. Told(data, media, taps)'
  <2>1. \A x \in Calls, r \in Recorders : <<x, r>> \in taps' <=> <<x, r>> \in taps /\ x # c
    BY <1>1 DEF TapsOf
  <2> QED BY <1>0, <1>1, <1>2, <2>1, StoppedTold DEF Names, Enum
<1>4. FilesKept
  <2>1. ASSUME NEW r \in Recorders, Owner(c, r) PROVE Owner(c, r)'
    <3>1. ending[c] = NoData
      BY <1>0 DEF Ended, Active
    <3> QED BY <1>1, <2>1, <3>1 DEF Owner, Names
  <2>2. \A x \in Calls \ {c}, r \in Recorders : Owner(x, r) => Owner(x, r)'
    BY <1>1, <1>2, SlotsOwn
  <2> QED BY <1>0, <2>1, <2>2, OwnersStay
<1> QED BY <1>3, <1>4 DEF Honest

\* on_call_media_state, active: whatever the restart of the stream has cut, the
\* call is connected to the file its user data name, and the others stay so.
LEMMA ActiveTold ==
  ASSUME Seen, NEW c \in Calls, MediaActive(c)
  PROVE  /\ Told(data', media', taps')
         /\ \A x \in Calls, r \in Recorders : Names(data, x, r) => Names(data', x, r)
         /\ \A x \in Calls \ {c}, r \in Recorders : <<x, r>> \in taps => <<x, r>> \in taps'
         /\ \A x \in Calls \ {c} : media'[x] = media[x]
         /\ c \in Active /\ Enum' = Enum /\ Active' = Active /\ UNCHANGED ending
<1>0. /\ Inv /\ TypeOK /\ HasData /\ Ports(media) /\ Open(data, live)
      /\ data \in DataFn /\ Told(data, media, taps)
  BY DEF Seen, Inv, TypeOK, DataFn
<1>1. /\ c \in Active /\ c \in Enum /\ data[c] \in Data /\ data[c] # NoData
      /\ UNCHANGED <<phase, tab, ending, live, ui>>
      /\ Enum' = Enum /\ Active' = Active
      /\ media' = [media EXCEPT ![c] = "active"]
  BY <1>0, NoDataAssumption DEF MediaActive, Active, Enum, HasData, DataFn
<1>2. PICK restart \in {media[c] # "active", TRUE} :
        ConferenceJoin(data, media', c,
          IF restart THEN bridge \ PairsOf(c) ELSE bridge,
          (IF restart THEN taps \ TapsOf(c) ELSE taps)
            \union ({c} \X ({data[c].rec} \ {NoRec})))
  BY DEF MediaActive
<1> DEFINE b == IF restart THEN bridge \ PairsOf(c) ELSE bridge
           t == (IF restart THEN taps \ TapsOf(c) ELSE taps)
                   \union ({c} \X ({data[c].rec} \ {NoRec}))
<1>3. /\ \A x \in Calls \ {c}, r \in Recorders : <<x, r>> \in t <=> <<x, r>> \in taps
      /\ \A r \in Recorders : <<c, r>> \in t => <<c, r>> \in taps \/ r = data[c].rec
      /\ \A r \in Recorders : r = data[c].rec => <<c, r>> \in t
  BY NoRecAssumption DEF TapsOf
<1>4. ConferenceJoin(data, media', c, b, t)
  BY <1>2
<1> HIDE DEF b, t
<1>5. Ports(media') /\ \A x \in Calls \ {c} : media'[x] = media[x]
  BY <1>0, <1>1 DEF TypeOK, Ports
<1>6. Told(data, media', t)
  <2> SUFFICES ASSUME NEW x \in Calls, NEW r \in Recorders
               PROVE  /\ <<x, r>> \in t => x \in Enum /\ Names(data, x, r)
                      /\ x \in Active /\ Names(data, x, r) /\ media'[x] = "active"
                           => <<x, r>> \in t
    BY DEF Told
  <2>1. CASE x = c
    BY <1>0, <1>1, <1>3, <2>1 DEF Told, Names
  <2>2. CASE x # c
    BY <1>0, <1>3, <1>5, <2>2 DEF Told
  <2> QED BY <2>1, <2>2
<1>7. /\ Told(data', media', taps')
      /\ \A x \in Calls, r \in Recorders : Names(data, x, r) => Names(data', x, r)
  BY <1>0, <1>1, <1>4, <1>5, <1>6, JoinTold
<1>8. t \subseteq taps'
  BY <1>4 DEF ConferenceJoin
<1> QED BY <1>1, <1>3, <1>5, <1>7, <1>8

\* The callbacks of pjsua's worker thread
LEMMA WorkerHonest ==
  ASSUME Seen, NEW c \in Calls,
         \/ NewCall(c) \/ Confirm(c) \/ MediaActive(c) \/ MediaHeld(c)
         \/ RemoteEnd(c) \/ Vanish(c) \/ AutoHangup(c) \/ ByeDone(c)
  PROVE  Honest
<1>0. /\ Inv /\ TypeOK /\ HasData /\ Ended /\ Ports(media) /\ Open(data, live)
      /\ data \in DataFn /\ Told(data, media, taps)
  BY DEF Seen, Inv, TypeOK, DataFn
<1>1. CASE NewCall(c)
  <2>1. /\ \A x \in Calls \ {c} : phase'[x] = phase[x] /\ data'[x] = data[x]
        /\ data'[c] = NewData /\ c \notin Enum /\ c \notin Active
        /\ UNCHANGED <<tab, ending, media, bridge, taps, live, quiet, ui>>
    BY <1>0, <1>1 DEF NewCall, TypeOK, Enum, Active
  <2>2. \A x \in Calls \ {c} : SameRec(data, data', x)
    BY <2>1, SameRecs
  <2>3. \A r \in Recorders : <<c, r>> \notin taps /\ ~Names(data', c, r)
    BY <2>1, SilentCall, FreshNamesNone
  <2>4. Told(data, media, taps)'
    BY <2>1, <2>2, <2>3, StoppedTold
  <2>5. \A x \in Calls \ {c}, r \in Recorders : Owner(x, r) => Owner(x, r)'
    BY <2>1, <2>2, SlotsOwn
  <2>6. \A r \in Recorders : Owner(c, r) => Owner(c, r)'
    BY <2>1 DEF Owner
  <2> QED BY <1>0, <2>4, <2>5, <2>6, OwnersStay DEF Honest
<1>2. CASE Confirm(c)
  <2>1. c \in Active /\ Enum' = Enum /\ Active' = Active /\ UNCHANGED <<ending, media>>
    BY <1>0, <1>2 DEF Confirm, TypeOK, Active, Enum
  <2>2. CASE UNCHANGED <<data, taps, live, quiet>>
    BY <1>0, <2>1, <2>2, GivenHonest
  <2>3. CASE ~Recording(data, c) /\ RecordingStart(c)
    BY <1>0, <2>1, <2>3, RecordingStartTold, GivenHonest
  <2> QED BY <1>2, <2>2, <2>3 DEF Confirm
<1>3. CASE MediaActive(c)
  BY <1>0, <1>3, ActiveTold, GivenHonest
<1>4. CASE MediaHeld(c)
  <2> DEFINE stopped == IF InConf(data, c) THEN Completed(c, data[c].rec) ELSE {}
  <2>1. /\ live' = live \ stopped
        /\ taps' = {t \in taps \ TapsOf(c) : t[2] \notin stopped}
        /\ data' = IF InConf(data, c) THEN [data EXCEPT ![c].rec = NoRec] ELSE data
        /\ UNCHANGED <<phase, tab, ending, ui>>
        /\ c \in Active
        /\ media'[c] # "active"
        /\ \A x \in Calls \ {c} : media'[x] = media[x]
    BY <1>0, <1>4 DEF MediaHeld, TypeOK
  <2>2. \A x \in Calls \ {c} : SameRec(data, data', x)
    BY <1>0, <2>1, SameRecs DEF DataFn
  <2>3. \A x \in Enum \ {c} : data[x] # NoData => data[x].rec \notin stopped
    BY CompletedIsUnused
  <2>4. InConf(data, c) => stopped = Completed(c, data[c].rec)
    OBVIOUS
  <2>5. ~InConf(data, c) => data' = data
    BY <2>1
  <2> HIDE DEF stopped
  <2>6. Told(data, media, taps)'
    <3>1. \A r \in Recorders : <<c, r>> \notin taps'
      BY <2>1 DEF TapsOf
    <3>2. \A x \in Enum \ {c}, r \in Recorders :
            Names(data, x, r) /\ <<x, r>> \in taps => <<x, r>> \in taps'
      BY <2>1, <2>3 DEF TapsOf, Names
    <3>3. taps' \subseteq taps
      BY <2>1
    <3> QED BY <2>1, <2>2, <3>1, <3>2, <3>3, StoppedTold
  <2>7. FilesKept
    <3>1. CASE InConf(data, c)
      <4>1. \A r \in Recorders : Owner(c, r) /\ r # data[c].rec => Owner(c, r)'
        BY <2>1 DEF Owner, Names
      <4> QED BY <1>0, <2>1, <2>2, <2>4, <3>1, <4>1, StoppedKeeps
    <3>2. CASE ~InConf(data, c)
      <4>1. \A x \in Calls, r \in Recorders : Owner(x, r) => Owner(x, r)'
        BY <2>1, <2>5, <3>2 DEF Owner, Enum, Names
      <4> QED BY <1>0, <4>1, OwnersStay
    <3> QED BY <3>1, <3>2
  <2> QED BY <2>6, <2>7 DEF Honest
<1>5. CASE RemoteEnd(c) \/ AutoHangup(c)
  <2>1. PICK p \in {"hanging", "over"} : phase' = [phase EXCEPT ![c] = p]
    BY <1>5 DEF RemoteEnd, AutoHangup
  <2>2. /\ data' = [data EXCEPT ![c] = NoData]
        /\ ending' = [ending EXCEPT ![c] = data[c]]
        /\ MediaGone(c)
        /\ live' = live
        /\ c \in Active
    BY <1>5 DEF RemoteEnd, AutoHangup, Active
  <2> QED BY <2>1, <2>2, EndHonest
<1>6. CASE Vanish(c)
  <2>1. /\ \A x \in Calls \ {c} : /\ phase'[x] = phase[x] /\ media'[x] = media[x]
                                  /\ data'[x] = data[x]
        /\ phase[c] # "lost" /\ phase'[c] = "lost"
        /\ taps' = taps \ TapsOf(c)
    BY <1>0, <1>6 DEF Vanish, MediaGone, TypeOK, Active
  <2>2. \A x \in Calls \ {c} : SameRec(data, data', x)
    BY <2>1, SameRecs
  <2>3. \A x \in Calls, r \in Recorders : <<x, r>> \in taps' <=> <<x, r>> \in taps /\ x # c
    BY <2>1 DEF TapsOf
  <2>4. Told(data, media, taps)'
    BY <2>1, <2>2, <2>3, StoppedTold DEF Active, Enum
  <2>5. FilesKept
    BY <2>1 DEF FilesKept, Unseen
  <2> QED BY <2>4, <2>5 DEF Honest
<1>7. CASE ByeDone(c)
  <2>1. /\ \A x \in Calls \ {c} : phase'[x] = phase[x] /\ data'[x] = data[x]
        /\ phase'[c] = "over" /\ c \notin Active
        /\ UNCHANGED <<tab, ending, media, bridge, taps, live, quiet, ui>>
    BY <1>0, <1>7 DEF ByeDone, TypeOK, Active
  <2>2. \A x \in Calls \ {c} : SameRec(data, data', x)
    BY <2>1, SameRecs
  <2>3. \A r \in Recorders : <<c, r>> \notin taps /\ ~(c \in Enum /\ Names(data, c, r))
    BY <2>1, SilentCall
  <2>4. Told(data, media, taps)'
    BY <2>1, <2>2, <2>3, StoppedTold DEF Active
  <2>5. \A x \in Calls, r \in Recorders : Owner(x, r) => Owner(x, r)'
    <3>1. \A x \in Calls \ {c}, r \in Recorders : Owner(x, r) => Owner(x, r)'
      BY <2>1, <2>2, SlotsOwn
    <3>2. \A r \in Recorders : Owner(c, r) => Owner(c, r)'
      BY <2>1, <2>3 DEF Owner
    <3> QED BY <3>1, <3>2
  <2> QED BY <1>0, <2>4, <2>5, OwnersStay DEF Honest
<1> QED BY <1>1, <1>2, <1>3, <1>4, <1>5, <1>6, <1>7

\* msip_call_hangup_fast
LEMMA HangupHonest ==
  ASSUME Seen, NEW c \in Calls, HangupFast(c)
  PROVE  Honest
<1>1. CASE HangupActive(c)
  <2>1. /\ phase' = [phase EXCEPT ![c] = "hanging"]
        /\ ending' = [ending EXCEPT ![c] = data[c]]
        /\ data' = [data EXCEPT ![c] = NoData]
        /\ MediaGone(c) /\ live' = live /\ c \in Active
    BY <1>1 DEF HangupActive
  <2> QED BY <2>1, EndHonest
<1>2. CASE HangupAgain(c)
  <2>1. /\ \A x \in Calls : SameRec(data, data', x)
        /\ UNCHANGED <<phase, ending, media, bridge, taps, live, quiet>>
    BY <1>2, HangupAgainEffect DEF HangupAgain, Seen
  <2>2. Told(data', media, taps) /\ Enum' = Enum /\ Active' = Active
    BY <2>1 DEF Seen, Told, SameRec, Enum, Active
  <2>3. \A x \in Calls, q \in Recorders : Names(data, x, q) => Names(data', x, q)
    BY <2>1 DEF SameRec
  <2> QED BY <2>1, <2>2, <2>3, GivenHonest DEF Seen
<1> QED BY <1>1, <1>2 DEF HangupFast

\* Separate and the loop of OnSeparateAll
LEMMA LeaveHonest ==
  ASSUME Seen, NEW c \in Enum, ConferenceLeave(c), UNCHANGED <<phase, ending, media>>
  PROVE  Honest
<1>0. Inv /\ Told(data, media, taps) /\ c \in Calls /\ Enum' = Enum /\ Active' = Active
  BY DEF Seen, Enum, Active
<1>1. CASE ~InConf(data, c)
  <2>1. UNCHANGED <<data, taps, live, quiet>>
    BY <1>1 DEF ConferenceLeave
  <2> QED BY <1>0, <2>1, GivenHonest
<1>2. CASE InConf(data, c)
  <2>1. /\ \A x \in Calls \ {c} : SameRec(data, data', x)
        /\ data'[c] = NewData
        /\ live' = live \ Completed(c, data[c].rec)
        /\ taps' = {t \in taps : t # <<c, data[c].rec>> /\ t[2] \notin Completed(c, data[c].rec)}
    BY <1>0, <1>2, LeaveEffect
  <2>2. \A r \in Recorders : c \in Enum /\ Names(data, c, r) => r = data[c].rec
    BY DEF Names
  <2>3. /\ taps' \subseteq taps
        /\ \A x \in Enum \ {c}, r \in Recorders :
             Names(data, x, r) /\ <<x, r>> \in taps => <<x, r>> \in taps'
        /\ \A r \in Recorders : <<c, r>> \notin taps'
    BY <1>0, <2>1, <2>2, StopsOne
  <2>4. \A r \in Recorders : ~Names(data', c, r)
    BY <2>1, FreshNamesNone
  <2>5. Told(data, media, taps)'
    BY <1>0, <2>1, <2>3, <2>4, StoppedTold
  <2>6. \A r \in Recorders : Owner(c, r) /\ r # data[c].rec => Owner(c, r)'
    BY DEF Owner, Names
  <2>7. FilesKept
    BY <1>0, <2>1, <2>6, StoppedKeeps
  <2> QED BY <2>5, <2>7 DEF Honest
<1> QED BY <1>1, <1>2

\* Merge and the loop of OnMergeAll
LEMMA MergeHonest ==
  ASSUME Seen, NEW s \in Calls, NEW x \in Active, MergeWith(s, x)
  PROVE  Honest
<1> DEFINE d == Flagged(s, x)
<1>0. Inv /\ Told(data, media, taps) /\ x \in Enum /\ x \in Calls /\ Ports(media)
  BY DEF Seen, Inv, Active, Enum
<1>8. data[x] # NoData
  BY <1>0 DEF Inv, HasData
<1>1. /\ ConferenceJoin(d, media, x, bridge, taps)
      /\ UNCHANGED <<phase, tab, ending, media, live>>
  BY DEF MergeWith
<1>2. d \in DataFn /\ Open(d, live)
  BY <1>0, FlaggedIsData DEF Inv, Open, Recording, Enum
<1>3. \A c \in Calls : SameRec(data, d, c)
  BY <1>0, <1>8, FlaggedEffect
<1> HIDE DEF d
<1>4. Told(d, media, taps)
  BY <1>0, <1>3 DEF Told, SameRec
<1>5. /\ Told(data', media, taps')
      /\ \A c \in Calls, q \in Recorders : Names(d, c, q) => Names(data', c, q)
  BY <1>0, <1>1, <1>2, <1>4, JoinTold
<1>6. Enum' = Enum /\ Active' = Active
  BY <1>1 DEF Enum, Active
<1>7. \A c \in Calls, q \in Recorders : Names(data, c, q) => Names(data', c, q)
  BY <1>3, <1>5 DEF SameRec
<1> QED BY <1>0, <1>1, <1>5, <1>6, <1>7, GivenHonest

\* onCallState, DISCONNECTED: the last message of a call with a tab stops its
\* recording, and that of a call without one is the case the property names.
LEMMA HandleEndHonest ==
  ASSUME Seen, NEW c \in Calls, HandleEnd(c)
  PROVE  Honest
<1>0. /\ Inv /\ data \in DataFn /\ c \notin Active /\ ending[c] # NoData
      /\ Told(data, media, taps)
  BY DEF HandleEnd, Seen, Inv, Ended, Active, TypeOK, DataFn
<1>1. /\ UNCHANGED <<phase, media>> /\ Enum' = Enum /\ Active' = Active
      /\ ending'[c] = NoData /\ \A x \in Calls \ {c} : ending'[x] = ending[x]
  BY <1>0 DEF HandleEnd, Enum, Active, Inv, TypeOK
<1>2. CASE ~tab[c]
  <2>1. UNCHANGED <<data, taps, live, quiet>>
    BY <1>2 DEF HandleEnd
  <2>2. Told(data, media, taps)'
    BY <1>0, <1>1, <2>1 DEF Told
  <2>3. Unseen(c)
    BY <1>0, <1>1, <1>2 DEF Unseen
  <2> QED BY <2>2, <2>3 DEF Honest, FilesKept
<1>3. CASE tab[c]
  <2> DEFINE r0 == ending[c].rec
  <2>1. /\ live' = live \ Completed(c, r0)
        /\ taps' = {t \in taps : t # <<c, r0>> /\ t[2] \notin Completed(c, r0)}
        /\ data' = IF ending[c].conf THEN Dissolve(data, c) ELSE data
    BY <1>3 DEF HandleEnd, RecordingStop
  <2> HIDE DEF r0
  <2>2. ASSUME NEW x \in Calls PROVE SameRec(data, data', x)
    <3>1. /\ Dissolve(data, c)[x] = NoData <=> data[x] = NoData
          /\ data[x] # NoData => Dissolve(data, c)[x].rec = data[x].rec
      BY <1>0, DissolveIsData
    <3> QED BY <2>1, <3>1, SameRecs
  <2>3. \A r \in Recorders : ~(c \in Enum /\ Names(data, c, r))
    BY <1>0, SilentCall
  <2>4. /\ taps' \subseteq taps
        /\ \A x \in Enum \ {c}, r \in Recorders :
             Names(data, x, r) /\ <<x, r>> \in taps => <<x, r>> \in taps'
        /\ \A r \in Recorders : <<c, r>> \notin taps'
    BY <2>1, <2>3, StopsOne
  <2>5. Told(data, media, taps)'
    BY <1>0, <1>1, <2>2, <2>4, StoppedTold
  <2>6. \A r \in Recorders : Owner(c, r) /\ r # r0 => Owner(c, r)'
    BY <2>3 DEF Owner, r0
  <2>7. FilesKept
    BY <1>0, <1>1, <2>1, <2>2, <2>6, StoppedKeeps
  <2> QED BY <2>5, <2>7 DEF Honest
<1> QED BY <1>2, <1>3

\* The record button: all calls that share the file stop, or one starts.
LEMMA ToggleHonest ==
  ASSUME Seen, NEW s \in Calls, ToggleRec(s)
  PROVE  Honest
<1>0. /\ Inv /\ Told(data, media, taps) /\ Ports(media) /\ data \in DataFn
      /\ UNCHANGED <<phase, ending, media>> /\ Enum' = Enum /\ Active' = Active
  BY DEF Seen, Inv, TypeOK, DataFn, ToggleRec, Enum, Active
<1>1. CASE ~Recording(data, s)
  <2>1. s \in Active /\ RecordingStart(s)
    BY <1>0, <1>1 DEF ToggleRec, Ports, Slotted
  <2> QED BY <1>0, <1>1, <2>1, RecordingStartTold, GivenHonest
<1>2. CASE Recording(data, s)
  <2> DEFINE r == data[s].rec
  <2>1. /\ data' = [x \in Calls |-> IF x \in Enum /\ data[x] # NoData /\ data[x].rec = r
                                   THEN [data[x] EXCEPT !.rec = NoRec] ELSE data[x]]
        /\ live' = live \ {r}
        /\ taps' = taps \ TapsInto(r)
    BY <1>2 DEF ToggleRec, RecordingStopAll
  <2> HIDE DEF r
  <2>2. ASSUME NEW x \in Calls, NEW q \in Recorders
        PROVE  x \in Enum => (Names(data', x, q) <=> Names(data, x, q) /\ q # r)
    <3>1. CASE x \in Enum /\ Names(data, x, r)
      <4>1. data[x] \in Data
        BY <1>0, <3>1 DEF Names, DataFn
      <4>2. data'[x] = [data[x] EXCEPT !.rec = NoRec] /\ data'[x].rec = NoRec
        BY <2>1, <3>1, <4>1 DEF Names, Data
      <4> QED BY <3>1, <4>2, NoRecAssumption DEF Names
    <3>2. CASE x \in Enum /\ ~Names(data, x, r)
      BY <2>1, <3>2 DEF Names
    <3> QED BY <3>1, <3>2
  <2>3. \A x \in Calls, q \in Recorders : <<x, q>> \in taps' <=> <<x, q>> \in taps /\ q # r
    BY <2>1 DEF TapsInto
  <2>4. Told(data, media, taps)'
    <3>1. \A x \in Active : x \in Enum
      BY DEF Active, Enum
    <3> QED BY <1>0, <2>2, <2>3, <3>1 DEF Told
  <2>5. FilesKept
    <3> SUFFICES ASSUME NEW q \in live, q \in live', Owned(q) PROVE Owned(q)'
      BY DEF FilesKept
    <3>1. q # r /\ q \in Recorders
      BY <1>0, <2>1 DEF Inv, TypeOK
    <3>2. PICK x \in Calls : Owner(x, q)
      BY DEF Owned, Owner, Names
    <3>3. Owner(x, q)'
      BY <1>0, <2>2, <3>1, <3>2 DEF Owner
    <3> QED BY <3>3 DEF Owned, Owner, Names
  <2> QED BY <2>4, <2>5 DEF Honest
<1> QED BY <1>1, <1>2

\* An invitation attaches fresh user data to the new call, and flags the old one.
LEMMA InviteHonest ==
  ASSUME Seen, NEW s \in Calls, NEW c \in Calls, Invite(s, c)
  PROVE  Honest
<1> DEFINE d == Flagged(s, s)
<1>0. /\ Inv /\ TypeOK /\ Told(data, media, taps)
      /\ UNCHANGED <<ending, media, bridge, taps, live, quiet, ui>> /\ phase[c] = "idle"
  BY DEF Seen, Inv, Invite
<1>1. d \in DataFn /\ \A x \in Calls : SameRec(data, d, x)
  BY <1>0, FlaggedIsData, FlaggedEffect
<1>2. CASE /\ data' = [d EXCEPT ![c] = [NewData EXCEPT !.conf = TRUE]]
           /\ phase' = [phase EXCEPT ![c] = "setup"]
  <2> HIDE DEF d
  <2>1. /\ \A x \in Calls \ {c} : data'[x] = d[x] /\ phase'[x] = phase[x]
        /\ data'[c] = [NewData EXCEPT !.conf = TRUE]
        /\ c \notin Enum /\ c \notin Active
    BY <1>0, <1>1, <1>2 DEF TypeOK, DataFn, Enum, Active
  <2>2. \A x \in Calls \ {c} : SameRec(data, data', x)
    BY <1>1, <2>1 DEF SameRec, Names
  <2>3. \A r \in Recorders : <<c, r>> \notin taps /\ ~Names(data', c, r)
    BY <2>1, SilentCall, FreshNamesNone
  <2>4. Told(data, media, taps)'
    BY <1>0, <2>1, <2>2, <2>3, StoppedTold
  <2>5. \A x \in Calls \ {c}, r \in Recorders : Owner(x, r) => Owner(x, r)'
    BY <1>0, <2>1, <2>2, SlotsOwn
  <2>6. \A r \in Recorders : Owner(c, r) => Owner(c, r)'
    BY <1>0, <2>1 DEF Owner
  <2> QED BY <1>0, <2>4, <2>5, <2>6, OwnersStay DEF Honest
<1>3. CASE data' = [d EXCEPT ![s].conf = FALSE] /\ UNCHANGED phase
  <2>1. d[s] \in Data
    BY <1>0, FlaggedIsData
  <2> HIDE DEF d
  <2>2. ASSUME NEW x \in Calls PROVE SameRec(data, data', x)
    <3>1. CASE x # s
      BY <1>1, <1>3, <3>1 DEF SameRec, Names, DataFn
    <3>2. CASE x = s
      <4>1. /\ data'[s] = [d[s] EXCEPT !.conf = FALSE]
            /\ data'[s] \in Data /\ data'[s].rec = d[s].rec
        BY <1>1, <1>3, <2>1 DEF DataFn, Data
      <4> QED BY <1>1, <2>1, <3>2, <4>1, NoDataAssumption DEF SameRec, Names
    <3> QED BY <3>1, <3>2
  <2>3. Enum' = Enum /\ Active' = Active
    BY <1>3 DEF Enum, Active
  <2>4. /\ Told(data', media, taps)
        /\ \A x \in Calls, q \in Recorders : Names(data, x, q) => Names(data', x, q)
    BY <1>0, <2>2 DEF Told, SameRec
  <2> QED BY <1>0, <2>3, <2>4, GivenHonest
<1> QED BY <1>2, <1>3 DEF Invite

\* The handlers of the UI thread, the loops' iterations among them
LEMMA UserHonest == ASSUME Seen, UserInterface PROVE Honest
<1>0. /\ Inv /\ Told(data, media, taps)
      /\ ui \in Loops \union {Idle}
  BY DEF Seen, Inv, TypeOK
<1> DEFINE still == UNCHANGED <<phase, data, ending, media, bridge, taps, live, quiet>>
<1>1. ASSUME still PROVE Honest
  <2>1. Enum' = Enum /\ Active' = Active
    BY <1>1 DEF Enum, Active
  <2> QED BY <1>0, <1>1, <2>1, GivenHonest
<1>2. ASSUME NEW c \in Calls, ShowTab(c) \/ EndConference(c) \/ MergeAll(c) \/ SeparateAll(c)
      PROVE  Honest
  BY <1>1, <1>2 DEF ShowTab, EndConference, MergeAll, SeparateAll
<1>3. ASSUME NEW c \in Calls, Hangup(c) \/ Separate(c) PROVE Honest
  BY <1>3, HangupHonest, LeaveHonest DEF Hangup, Separate
<1>4. ASSUME NEW s \in Calls, NEW c \in Calls, Merge(s, c) PROVE Honest
  <2>1. c \in Active /\ MergeWith(s, c)
    BY <1>4 DEF Merge, Active
  <2> QED BY <2>1, MergeHonest
<1>5. ASSUME EndStep PROVE Honest
  <2>1. First(ui.rest) \in Calls
    BY <1>0, <1>5, AdvanceInLoop DEF EndStep
  <2>2. HangupFast(First(ui.rest)) \/ still
    BY <1>5 DEF EndStep
  <2> QED BY <1>1, <2>1, <2>2, HangupHonest
<1>6. ASSUME EndLast PROVE Honest
  <2>1. (ui.call \in Calls /\ HangupFast(ui.call)) \/ still
    BY <1>6 DEF EndLast, Enum
  <2> QED BY <1>1, <2>1, HangupHonest
<1>7. ASSUME MergeStep PROVE Honest
  <2>1. (First(ui.rest) \in Active /\ MergeWith(ui.call, First(ui.rest))) \/ still
    BY <1>7 DEF MergeStep
  <2>2. ui.call \in Calls
    BY <1>0, <1>7 DEF MergeStep, Loops, Idle
  <2> QED BY <1>1, <2>1, <2>2, MergeHonest
<1>8. ASSUME SeparateStep PROVE Honest
  <2>1. (First(ui.rest) \in Enum /\ ConferenceLeave(First(ui.rest))) \/ UNCHANGED <<data, bridge, taps, live, quiet>>
    BY <1>8 DEF SeparateStep
  <2>2. UNCHANGED <<phase, tab, ending, media>>
    BY <1>8 DEF SeparateStep
  <2> QED BY <1>1, <2>1, <2>2, LeaveHonest
<1> QED BY <1>2, <1>3, <1>4, <1>5, <1>6, <1>7, <1>8, HandleEndHonest, ToggleHonest, InviteHonest
     DEF UserInterface

LEMMA StepIsHonest == Seen /\ [Next]_vars => Honest
<1> SUFFICES ASSUME Seen, [Next]_vars PROVE Honest
  OBVIOUS
<1>1. CASE Worker
  BY <1>1, WorkerHonest DEF Worker
<1>2. CASE UserInterface
  BY <1>2, UserHonest
<1>3. CASE UNCHANGED vars
  <2>1. UNCHANGED <<phase, data, ending, media, taps>> /\ Enum' = Enum /\ Active' = Active
    BY <1>3 DEF vars, Enum, Active
  <2>2. Inv /\ Told(data', media', taps')
    BY <2>1 DEF Seen, Told
  <2> QED BY <2>1, <2>2, GivenHonest
<1> QED BY <1>1, <1>2, <1>3 DEF Next

-----------------------------------------------------------------------------
(* Connections                                                             *)

\* A call that loses its media or its port takes its own connections along.
LEMMA PortGoneParts ==
  ASSUME NEW c, bridge' = bridge \ PairsOf(c), media'[c] # "active"
  PROVE  PairsKept
BY DEF PairsKept, PairKept, PairsOf

LEMMA BridgeGrows == ASSUME bridge \subseteq bridge' PROVE PairsKept
BY DEF PairsKept, PairKept

LEMMA MediaGoneParts ==
  ASSUME Inv, NEW c \in Calls, MediaGone(c)
  PROVE  PairsKept
<1>1. bridge' = bridge \ PairsOf(c) /\ media'[c] # "active"
  BY DEF Inv, TypeOK, MediaGone
<1> QED BY <1>1, PortGoneParts

\* msip_conference_leave cuts the connections of the call it takes out.
LEMMA LeaveParts ==
  ASSUME Inv, NEW c \in Enum, ConferenceLeave(c)
  PROVE  PairsKept
<1>1. CASE ~InConf(data, c)
  BY <1>1, BridgeGrows DEF ConferenceLeave
<1>2. CASE InConf(data, c)
  <2>1. bridge' = bridge \ {{c, x} : x \in Members(data, c)} /\ data'[c] = NewData
    BY <1>2, LeaveEffect DEF ConferenceLeave
  <2>2. ~InConf(data', c)
    BY <2>1 DEF InConf, NewData
  <2>3. ASSUME NEW a \in Calls, NEW b \in Calls, {a, b} \in bridge, {a, b} \notin bridge'
        PROVE  ~(InConf(data', a) /\ InConf(data', b))
    <3>1. PICK x \in Members(data, c) : {a, b} = {c, x}
      BY <2>1, <2>3
    <3>2. a = c \/ b = c
      BY <3>1
    <3> QED BY <2>2, <3>2
  <2> QED BY <2>3 DEF PairsKept, PairKept
<1> QED BY <1>1, <1>2

\* msip_conference_join cuts none, and after a restart of the stream it connects
\* the call again with every member that has media.
LEMMA MediaActiveParts ==
  ASSUME Inv, NEW c \in Calls, MediaActive(c)
  PROVE  PairsKept
<1>0. /\ TypeOK /\ Ports(media) /\ Open(data, live) /\ data \in DataFn
      /\ c \in Active /\ c \in Enum
      /\ media' = [media EXCEPT ![c] = "active"] /\ phase' = phase
  BY DEF Inv, TypeOK, DataFn, MediaActive, Active, Enum
<1>1. PICK restart \in {media[c] # "active", TRUE} :
        ConferenceJoin(data, media', c,
          IF restart THEN bridge \ PairsOf(c) ELSE bridge,
          (IF restart THEN taps \ TapsOf(c) ELSE taps)
            \union ({c} \X ({data[c].rec} \ {NoRec})))
  BY DEF MediaActive
<1> DEFINE q == IF restart THEN bridge \ PairsOf(c) ELSE bridge
           t == (IF restart THEN taps \ TapsOf(c) ELSE taps)
                   \union ({c} \X ({data[c].rec} \ {NoRec}))
<1>2. ConferenceJoin(data, media', c, q, t)
  BY <1>1
<1>3. q \subseteq bridge /\ bridge \ q \subseteq PairsOf(c)
  OBVIOUS
<1> HIDE DEF q, t
<1>4. q \subseteq bridge'
  BY <1>2 DEF ConferenceJoin
<1>5. \A x \in Calls : InConf(data', x) <=> InConf(data, x)
  <2> DEFINE new == Newcomers(data, media', c)
             r == SharedRec(data)
  <2>1. CASE ~InConf(data, c) \/ new = {}
    BY <1>2, <2>1 DEF ConferenceJoin
  <2>2. CASE InConf(data, c) /\ new # {}
    <3>1. data' = Assign(data, new, r)
      BY <1>2, <2>2 DEF ConferenceJoin
    <3>2. r \in Recorders
      BY <1>0, <2>2, SharedRecIsOpen
    <3>3. Ports(media')
      BY <1>0 DEF Ports, TypeOK
    <3>4. \A x \in new : data[x] # NoData
      BY <1>0, <2>2, <3>3, NewcomersGoOn
    <3> HIDE DEF new, r
    <3> QED BY <1>0, <3>1, <3>2, <3>4, AssignedOnly
  <2> QED BY <2>1, <2>2
<1>6. ASSUME NEW x \in Calls, x # c, {c, x} \in bridge, {c, x} \notin bridge'
      PROVE  media[x] # "active" \/ ~InConf(data', x) \/ ~InConf(data', c)
  <2> SUFFICES ASSUME media[x] = "active", InConf(data', x), InConf(data', c) PROVE FALSE
    OBVIOUS
  <2>1. InConf(data, c) /\ InConf(data, x) /\ x \in Enum
    BY <1>0, <1>5 DEF Ports, Active, Enum
  <2>2. Slotted(media', c) /\ Slotted(media', x)
    BY <1>0, <1>6 DEF Slotted, TypeOK
  <2>3. {c, x} \in bridge'
    BY <1>2, <1>6, <2>1, <2>2 DEF ConferenceJoin, Members
  <2> QED BY <1>6, <2>3
<1> SUFFICES ASSUME NEW a \in Calls, NEW b \in Calls, a # b,
                    {a, b} \in bridge, {a, b} \notin bridge'
             PROVE  \/ \E x \in {a, b} : "active" # media'[x] \/ "active" # media[x]
                    \/ ~(InConf(data', a) /\ InConf(data', b))
  BY DEF PairsKept, PairKept
<1>7. c \in {a, b}
  BY <1>3, <1>4 DEF PairsOf
<1>8. CASE c = a
  BY <1>6, <1>8
<1>9. CASE c = b
  <2>1. {c, a} = {a, b}
    BY <1>9
  <2> QED BY <1>6, <1>9, <2>1
<1> QED BY <1>7, <1>8, <1>9

LEMMA HangupParts ==
  ASSUME Inv, NEW c \in Calls, HangupFast(c)
  PROVE  PairsKept
BY MediaGoneParts, BridgeGrows DEF HangupFast, HangupActive, HangupAgain

LEMMA MergeParts == ASSUME NEW s, NEW x, MergeWith(s, x) PROVE PairsKept
<1>1. bridge \subseteq bridge'
  BY DEF MergeWith, ConferenceJoin
<1> QED BY <1>1, BridgeGrows

LEMMA WorkerParts ==
  ASSUME Inv, NEW c \in Calls,
         \/ NewCall(c) \/ Confirm(c) \/ MediaActive(c) \/ MediaHeld(c)
         \/ RemoteEnd(c) \/ Vanish(c) \/ AutoHangup(c) \/ ByeDone(c)
  PROVE  PairsKept
<1>1. CASE NewCall(c) \/ Confirm(c) \/ ByeDone(c)
  BY <1>1, BridgeGrows DEF NewCall, Confirm, ByeDone
<1>2. CASE MediaHeld(c)
  <2>1. bridge' = bridge \ PairsOf(c) /\ media'[c] # "active"
    BY <1>2 DEF MediaHeld, Inv, TypeOK
  <2> QED BY <2>1, PortGoneParts
<1>3. CASE RemoteEnd(c) \/ Vanish(c) \/ AutoHangup(c)
  BY <1>3, MediaGoneParts DEF RemoteEnd, Vanish, AutoHangup
<1> QED BY <1>1, <1>2, <1>3, MediaActiveParts

LEMMA UserParts == ASSUME Inv, UserInterface PROVE PairsKept
<1>1. ASSUME NEW c \in Calls,
             \/ ShowTab(c) \/ HandleEnd(c) \/ EndConference(c)
             \/ MergeAll(c) \/ SeparateAll(c) \/ ToggleRec(c)
      PROVE  PairsKept
  BY <1>1, BridgeGrows DEF ShowTab, HandleEnd, EndConference, MergeAll, SeparateAll, ToggleRec
<1>2. ASSUME NEW c \in Calls, Hangup(c) \/ Separate(c) PROVE PairsKept
  BY <1>2, HangupParts, LeaveParts DEF Hangup, Separate
<1>3. ASSUME NEW s \in Calls, NEW c \in Calls, Merge(s, c) \/ Invite(s, c) PROVE PairsKept
  BY <1>3, MergeParts, BridgeGrows DEF Merge, Invite
<1>4. ASSUME EndStep PROVE PairsKept
  <2>1. First(ui.rest) \in Calls
    BY <1>4, AdvanceInLoop DEF EndStep
  <2>2. HangupFast(First(ui.rest)) \/ bridge' = bridge
    BY <1>4 DEF EndStep
  <2> QED BY <2>1, <2>2, HangupParts, BridgeGrows
<1>5. ASSUME EndLast PROVE PairsKept
  <2>1. (ui.call \in Calls /\ HangupFast(ui.call)) \/ bridge' = bridge
    BY <1>5 DEF EndLast, Enum
  <2> QED BY <2>1, HangupParts, BridgeGrows
<1>6. ASSUME MergeStep PROVE PairsKept
  <2>1. MergeWith(ui.call, First(ui.rest)) \/ bridge' = bridge
    BY <1>6 DEF MergeStep
  <2> QED BY <2>1, MergeParts, BridgeGrows
<1>7. ASSUME SeparateStep PROVE PairsKept
  <2>1. (First(ui.rest) \in Enum /\ ConferenceLeave(First(ui.rest))) \/ bridge' = bridge
    BY <1>7 DEF SeparateStep
  <2> QED BY <2>1, LeaveParts, BridgeGrows
<1> QED BY <1>1, <1>2, <1>3, <1>4, <1>5, <1>6, <1>7 DEF UserInterface

LEMMA StepParts == Inv /\ [Next]_vars => PairsKept
<1>1. ASSUME UNCHANGED vars PROVE PairsKept
  BY <1>1, BridgeGrows DEF vars
<1> QED BY <1>1, WorkerParts, UserParts DEF Next, Worker

-----------------------------------------------------------------------------
(* Voices                                                                  *)

\* The file of recorder r has the voice of x.
Hears(x, r) == Names(data, x, r) /\ <<x, r>> \in taps /\ r \notin quiet

\* HeardUntilHeld, of one step and one call
Excused(c) == \/ media'[c] # media[c]
              \/ ~Recording(data', c) /\ (~InConf(data', c) \/ data[c].rec \notin live')
              \/ SharerHeld(c)

VoiceKept(c) ==
  /\ media[c] # "active" /\ media'[c] = "active" /\ Recording(data', c) => Heard(c)'
  /\ Heard(c) /\ ~Heard(c)' => Excused(c)

VoicesKept == \A c \in Calls : VoiceKept(c)

\* Who is heard names one recorder, is connected to it, and goes on.
LEMMA HeardHears ==
  ASSUME Seen, NEW c \in Calls, Heard(c)
  PROVE  /\ data[c].rec \in Recorders /\ Hears(c, data[c].rec)
         /\ c \in Active /\ c \in Enum
<1>1. data[c].rec \in Recorders /\ Hears(c, data[c].rec)
  BY DEF Heard, Hears, Recording, Names, Seen, Inv, TypeOK, Data
<1>2. c \in Enum
  BY <1>1 DEF Seen, Told, Hears
<1> QED BY <1>1, <1>2, NamesGoOn DEF Seen, Hears

LEMMA HearsHeard ==
  ASSUME NEW c \in Calls, NEW r \in Recorders, Hears(c, r)'
  PROVE  Heard(c)'
BY NoRecAssumption DEF Hears, Names, Heard, Recording

\* A call whose media does not become active has its voice kept when it is heard
\* as before, or the loss is excused.
LEMMA KeptOrExcused ==
  ASSUME Seen, NEW c \in Calls, media'[c] = media[c] \/ media'[c] # "active",
         \A r \in Recorders : c \in Active /\ Hears(c, r) => Hears(c, r)' \/ Excused(c)
  PROVE  VoiceKept(c)
<1>1. ASSUME Heard(c) PROVE Heard(c)' \/ Excused(c)
  <2>1. data[c].rec \in Recorders /\ Hears(c, data[c].rec) /\ c \in Active
    BY <1>1, HeardHears
  <2>2. PICK r \in Recorders : Hears(c, r)
    BY <2>1
  <2>3. Hears(c, r)' \/ Excused(c)
    BY <2>1, <2>2
  <2> QED BY <2>3, HearsHeard
<1> QED BY <1>1 DEF VoiceKept

\* Steps that only connect more calls, or give more calls a recorder
LEMMA NobodySilenced ==
  ASSUME Seen, UNCHANGED media, taps \subseteq taps', quiet' \subseteq quiet,
         \A x \in Calls, r \in Recorders : Names(data, x, r) => Names(data', x, r)
  PROVE  VoicesKept
<1> SUFFICES ASSUME NEW c \in Calls PROVE VoiceKept(c)
  BY DEF VoicesKept
<1>1. \A r \in Recorders : Hears(c, r) => Hears(c, r)'
  BY DEF Hears
<1> QED BY <1>1, KeptOrExcused

\* A step of call c that takes nothing from the others' user data
LEMMA OthersKept ==
  ASSUME Seen, NEW c \in Calls, VoiceKept(c),
         \A x \in Calls \ {c} : media'[x] = media[x] /\ SameRec(data, data', x),
         \A x \in Enum \ {c}, r \in Recorders :
           Names(data, x, r) /\ <<x, r>> \in taps => <<x, r>> \in taps',
         \A x \in Active \ {c}, r \in Recorders :
           Names(data, x, r) /\ r \in quiet' => r \in quiet \/ SharerHeld(x)
  PROVE  VoicesKept
<1> SUFFICES ASSUME NEW x \in Calls \ {c} PROVE VoiceKept(x)
  BY DEF VoicesKept
<1>1. ASSUME NEW r \in Recorders, x \in Active, Hears(x, r), ~Excused(x) PROVE Hears(x, r)'
  <2>1. Names(data', x, r) /\ <<x, r>> \in taps'
    BY <1>1 DEF Hears, SameRec, Active, Enum
  <2>2. r \notin quiet'
    BY <1>1 DEF Hears, Excused
  <2> QED BY <2>1, <2>2 DEF Hears
<1> QED BY <1>1, KeptOrExcused

\* A call that has no port is not in a file, and what ends has no user data.
LEMMA SilentKept ==
  ASSUME Seen, NEW c \in Calls \ Active, media'[c] = media[c]
  PROVE  VoiceKept(c)
BY KeptOrExcused

LEMMA EndVoices ==
  ASSUME Seen, NEW c \in Calls, data' = [data EXCEPT ![c] = NoData], MediaGone(c), quiet' = quiet
  PROVE  VoicesKept
<1>0. TypeOK
  BY DEF Seen, Inv
<1>1. /\ \A x \in Calls \ {c} : media'[x] = media[x] /\ SameRec(data, data', x)
      /\ data'[c] = NoData /\ media'[c] = "none"
      /\ taps' = taps \ TapsOf(c)
  BY <1>0, SameRecs DEF TypeOK, MediaGone
<1>2. VoiceKept(c)
  BY <1>1, KeptOrExcused DEF Excused, Recording, InConf
<1>3. \A x \in Enum \ {c}, r \in Recorders :
        Names(data, x, r) /\ <<x, r>> \in taps => <<x, r>> \in taps'
  BY <1>1 DEF TapsOf
<1> QED BY <1>1, <1>2, <1>3, OthersKept

\* msip_call_hangup_fast
LEMMA HangupVoices ==
  ASSUME Seen, NEW c \in Calls, HangupFast(c)
  PROVE  VoicesKept
<1>0. Inv
  BY DEF Seen
<1>1. CASE HangupActive(c)
  BY <1>1, EndVoices DEF HangupActive
<1>2. CASE HangupAgain(c)
  <2>1. \A x \in Calls : SameRec(data, data', x)
    BY <1>0, <1>2, HangupAgainEffect
  <2>2. UNCHANGED <<media, taps, quiet>>
    BY <1>2 DEF HangupAgain
  <2> QED BY <2>1, <2>2, NobodySilenced DEF SameRec
<1> QED BY <1>1, <1>2 DEF HangupFast

\* msip_conference_leave
LEMMA LeaveVoices ==
  ASSUME Seen, NEW c \in Enum, ConferenceLeave(c), UNCHANGED media
  PROVE  VoicesKept
<1>0. Inv /\ data \in DataFn /\ c \in Calls
  BY DEF Seen, Inv, TypeOK, DataFn, Enum
<1>1. CASE ~InConf(data, c)
  <2>1. UNCHANGED <<data, taps, quiet>>
    BY <1>1 DEF ConferenceLeave
  <2> QED BY <2>1, NobodySilenced DEF Names
<1>2. CASE InConf(data, c)
  <2>1. /\ \A x \in Calls \ {c} : SameRec(data, data', x)
        /\ data'[c] = NewData
        /\ quiet' = quiet \ Completed(c, data[c].rec)
        /\ taps' = {t \in taps : t # <<c, data[c].rec>>
                                 /\ t[2] \notin Completed(c, data[c].rec)}
    BY <1>0, <1>2, LeaveEffect
  <2>2. \A x \in Enum \ {c}, r \in Recorders :
          Names(data, x, r) /\ <<x, r>> \in taps => <<x, r>> \in taps'
    BY <1>0, <2>1, StopsOne DEF Names
  <2>3. ~Recording(data', c) /\ ~InConf(data', c)
    BY <2>1, NewDataIsData DEF Recording, InConf, NewData
  <2>4. VoiceKept(c)
    BY <1>0, <2>3, KeptOrExcused DEF Excused
  <2> QED BY <1>0, <2>1, <2>2, <2>4, OthersKept
<1> QED BY <1>1, <1>2

\* Merge and the loop of OnMergeAll
LEMMA MergeVoices ==
  ASSUME Seen, NEW s \in Calls, NEW x \in Active, MergeWith(s, x)
  PROVE  VoicesKept
<1> DEFINE d == Flagged(s, x)
<1>0. Inv /\ Told(data, media, taps) /\ x \in Enum /\ x \in Calls /\ Ports(media) /\ data[x] # NoData
  BY DEF Seen, Inv, Active, Enum, HasData
<1>1. ConferenceJoin(d, media, x, bridge, taps) /\ UNCHANGED <<media, quiet>>
  BY DEF MergeWith
<1>2. d \in DataFn /\ Open(d, live)
  BY <1>0, FlaggedIsData DEF Inv, Open, Recording, Enum
<1>3. \A c \in Calls : SameRec(data, d, c)
  BY <1>0, FlaggedEffect
<1> HIDE DEF d
<1>4. Told(d, media, taps)
  BY <1>0, <1>3 DEF Told, SameRec
<1>5. \A c \in Calls, q \in Recorders : Names(d, c, q) => Names(data', c, q)
  BY <1>0, <1>1, <1>2, <1>4, JoinTold
<1>6. \A c \in Calls, q \in Recorders : Names(data, c, q) => Names(data', c, q)
  BY <1>3, <1>5 DEF SameRec
<1>7. taps \subseteq taps'
  BY <1>1 DEF ConferenceJoin
<1> QED BY <1>1, <1>6, <1>7, NobodySilenced

\* onCallState, DISCONNECTED, of a call that is in no file any more
LEMMA HandleEndVoices ==
  ASSUME Seen, NEW c \in Calls, HandleEnd(c)
  PROVE  VoicesKept
<1>0. Inv /\ data \in DataFn /\ UNCHANGED media /\ c \notin Active
  BY DEF Seen, Inv, TypeOK, DataFn, HandleEnd, Ended, Active
<1>1. CASE UNCHANGED <<data, taps, live, quiet>>
  BY <1>0, <1>1, NobodySilenced DEF Names
<1>2. CASE RecordingStop(c, ending[c].rec) /\ data' \in {data, Dissolve(data, c)}
  <2>1. \A x \in Calls : SameRec(data, data', x)
    BY <1>0, <1>2, DissolveIsData, SameRecs
  <2>2. \A x \in Enum \ {c}, r \in Recorders :
          Names(data, x, r) /\ <<x, r>> \in taps => <<x, r>> \in taps'
    BY <1>0, <1>2, SilentCall, StopsOne DEF RecordingStop
  <2>3. VoiceKept(c)
    BY <1>0, SilentKept
  <2> QED BY <1>0, <1>2, <2>1, <2>2, <2>3, OthersKept DEF RecordingStop
<1> QED BY <1>1, <1>2 DEF HandleEnd

\* The button starts a file or completes it for all that share it.
LEMMA ToggleVoices ==
  ASSUME Seen, NEW s \in Calls, ToggleRec(s)
  PROVE  VoicesKept
<1>0. /\ Inv /\ data \in DataFn /\ UNCHANGED media /\ s \in Enum /\ data[s] # NoData
  BY DEF Seen, Inv, TypeOK, DataFn, ToggleRec
<1>1. CASE ~Recording(data, s)
  <2>1. s \in Active /\ RecordingStart(s)
    BY <1>0, <1>1 DEF ToggleRec, Inv, Ports, Slotted, Enum
  <2>2. taps \subseteq taps' /\ quiet' = quiet
    BY <2>1 DEF RecordingStart
  <2> QED BY <1>0, <1>1, <2>1, <2>2, RecordingStartTold, NobodySilenced
<1>2. CASE Recording(data, s)
  <2> DEFINE r == data[s].rec
  <2>1. /\ data' = [x \in Calls |-> IF x \in Enum /\ data[x] # NoData /\ data[x].rec = r
                                    THEN [data[x] EXCEPT !.rec = NoRec] ELSE data[x]]
        /\ live' = live \ {r}
        /\ quiet' = quiet \ {r}
        /\ taps' = taps \ TapsInto(r)
    BY <1>2 DEF ToggleRec, RecordingStopAll
  <2> HIDE DEF r
  <2> SUFFICES ASSUME NEW c \in Calls PROVE VoiceKept(c)
    BY DEF VoicesKept
  <2>2. ASSUME NEW q \in Recorders, c \in Active, Hears(c, q), q # r PROVE Hears(c, q)'
    <3>1. data'[c] = data[c]
      BY <2>1, <2>2 DEF Hears, Names
    <3> QED BY <2>1, <2>2, <3>1 DEF Hears, Names, TapsInto
  <2>3. ASSUME c \in Active, Hears(c, r) PROVE Excused(c)
    <3>1. data[c].rec = r /\ c \in Enum /\ data[c] \in Data
      BY <1>0, <2>3 DEF Hears, Names, Active, Enum, DataFn
    <3>2. data'[c] = [data[c] EXCEPT !.rec = NoRec]
      BY <2>1, <2>3, <3>1 DEF Hears, Names
    <3>3. data'[c].rec = NoRec
      BY <3>1, <3>2 DEF Data
    <3> QED BY <2>1, <3>1, <3>3 DEF Excused, Recording
  <2> QED BY <1>0, <2>2, <2>3, KeptOrExcused
<1> QED BY <1>1, <1>2

\* on_call_media_state, active: the call is in its file, at level 1 again.
LEMMA ActiveVoices ==
  ASSUME Seen, TypeOK', NEW c \in Calls, MediaActive(c)
  PROVE  VoicesKept
<1>1. /\ Told(data', media', taps')
      /\ \A x \in Calls, r \in Recorders : Names(data, x, r) => Names(data', x, r)
      /\ \A x \in Calls \ {c}, r \in Recorders : <<x, r>> \in taps => <<x, r>> \in taps'
      /\ \A x \in Calls \ {c} : media'[x] = media[x]
      /\ c \in Active' /\ c \in Active
  BY ActiveTold
<1>2. media'[c] = "active" /\ quiet' = quiet \ {data'[c].rec}
  BY DEF Seen, Inv, TypeOK, MediaActive, Audible
<1>3. ASSUME NEW r \in Recorders, Names(data', c, r) PROVE Hears(c, r)'
  BY <1>1, <1>2, <1>3 DEF Told, Names, Hears
<1>4. VoiceKept(c)
  <2>1. ASSUME Recording(data', c) PROVE Heard(c)'
    <3>1. data'[c].rec \in Recorders /\ Names(data', c, data'[c].rec)
      BY <2>1 DEF TypeOK, Recording, Names, Data
    <3>2. PICK r \in Recorders : Names(data', c, r)
      BY <3>1
    <3> QED BY <1>3, <3>2, HearsHeard
  <2>2. ASSUME Heard(c) PROVE Heard(c)'
    <3>1. data[c].rec \in Recorders /\ Names(data, c, data[c].rec)
      BY <2>2, HeardHears DEF Hears
    <3>2. PICK r \in Recorders : Names(data, c, r)
      BY <3>1
    <3> QED BY <1>1, <1>3, <3>2, HearsHeard
  <2> QED BY <2>1, <2>2 DEF VoiceKept
<1>5. ASSUME NEW x \in Calls \ {c} PROVE VoiceKept(x)
  <2>1. \A r \in Recorders : Hears(x, r) => Hears(x, r)'
    BY <1>1, <1>2 DEF Hears
  <2> QED BY <1>1, <2>1, KeptOrExcused
<1> QED BY <1>4, <1>5 DEF VoicesKept

\* The callbacks of pjsua's worker thread
LEMMA WorkerVoices ==
  ASSUME Seen, TypeOK', NEW c \in Calls,
         \/ NewCall(c) \/ Confirm(c) \/ MediaActive(c) \/ MediaHeld(c)
         \/ RemoteEnd(c) \/ Vanish(c) \/ AutoHangup(c) \/ ByeDone(c)
  PROVE  VoicesKept
<1>0. Inv /\ TypeOK /\ HasData /\ data \in DataFn /\ Told(data, media, taps)
  BY DEF Seen, Inv, TypeOK, DataFn
<1>1. CASE NewCall(c) \/ ByeDone(c)
  <2>1. /\ c \notin Active
        /\ \A x \in Calls \ {c} : data'[x] = data[x]
        /\ UNCHANGED <<media, taps, quiet>>
    BY <1>0, <1>1 DEF NewCall, ByeDone, TypeOK, Active
  <2>2. VoiceKept(c)
    BY <2>1, SilentKept
  <2>3. \A x \in Calls \ {c} : SameRec(data, data', x)
    BY <2>1, SameRecs
  <2> QED BY <2>1, <2>2, <2>3, OthersKept
<1>2. CASE Confirm(c)
  <2>1. c \in Active /\ UNCHANGED media
    BY <1>2 DEF Confirm, Active
  <2>2. CASE UNCHANGED <<data, taps, live, quiet>>
    BY <2>1, <2>2, NobodySilenced DEF Names
  <2>3. CASE ~Recording(data, c) /\ RecordingStart(c)
    <3>1. taps \subseteq taps' /\ quiet' = quiet
      BY <2>3 DEF RecordingStart
    <3> QED BY <2>1, <2>3, <3>1, RecordingStartTold, NobodySilenced
  <2> QED BY <1>2, <2>2, <2>3 DEF Confirm
<1>3. CASE MediaHeld(c)
  <2> DEFINE stopped == IF InConf(data, c) THEN Completed(c, data[c].rec) ELSE {}
  <2>1. /\ taps' = {t \in taps \ TapsOf(c) : t[2] \notin stopped}
        /\ quiet' = (quiet \union ({data[c].rec} \ {NoRec})) \intersect live'
        /\ data' = IF InConf(data, c) THEN [data EXCEPT ![c].rec = NoRec] ELSE data
        /\ c \in Active /\ Active' = Active
        /\ media'[c] \notin {"active", media[c]}
        /\ \A x \in Calls \ {c} : media'[x] = media[x]
    BY <1>0, <1>3 DEF MediaHeld, Silenced, TypeOK, Active
  <2>2. \A x \in Calls \ {c} : SameRec(data, data', x)
    BY <1>0, <2>1, SameRecs DEF DataFn
  <2>3. \A x \in Enum \ {c} : data[x] # NoData => data[x].rec \notin stopped
    BY CompletedIsUnused
  <2> HIDE DEF stopped
  <2>4. \A x \in Enum \ {c}, r \in Recorders :
          Names(data, x, r) /\ <<x, r>> \in taps => <<x, r>> \in taps'
    BY <2>1, <2>3 DEF TapsOf, Names
  <2>5. ASSUME NEW x \in Active \ {c}, NEW r \in Recorders, Names(data, x, r), r \in quiet',
               r \notin quiet
        PROVE  SharerHeld(x)
    <3>1. data[c].rec = data[x].rec
      BY <2>1, <2>5 DEF Names
    <3> QED BY <2>1, <3>1 DEF SharerHeld
  <2>6. VoiceKept(c)
    BY <2>1, KeptOrExcused DEF Excused
  <2> QED BY <2>1, <2>2, <2>4, <2>5, <2>6, OthersKept
<1>4. CASE RemoteEnd(c) \/ Vanish(c) \/ AutoHangup(c)
  BY <1>4, EndVoices DEF RemoteEnd, Vanish, AutoHangup
<1> QED BY <1>1, <1>2, <1>3, <1>4, ActiveVoices

\* An invitation flags one call and makes another, which is in no file.
LEMMA InviteVoices ==
  ASSUME Seen, NEW s \in Calls, NEW c \in Calls, Invite(s, c)
  PROVE  VoicesKept
<1> DEFINE d == Flagged(s, s)
<1>0. /\ Inv /\ TypeOK /\ UNCHANGED <<media, taps, quiet>> /\ c \notin Active
  BY DEF Seen, Inv, Invite, Active
<1>1. /\ d \in DataFn /\ d[s] \in Data
      /\ \A x \in Calls : SameRec(data, d, x)
  BY <1>0, FlaggedIsData, FlaggedEffect
<1>2. \/ data' = [d EXCEPT ![c] = [NewData EXCEPT !.conf = TRUE]]
      \/ data' = [d EXCEPT ![s].conf = FALSE]
  BY DEF Invite
<1> HIDE DEF d
<1>3. ASSUME NEW x \in Calls \ {c} PROVE SameRec(data, data', x)
  <2>1. CASE data'[x] = d[x]
    BY <1>1, <2>1 DEF SameRec, Names
  <2>2. CASE x = s /\ data'[s] = [d[s] EXCEPT !.conf = FALSE]
    <3>1. data'[s] \in Data /\ data'[s].rec = d[s].rec
      BY <1>1, <2>2 DEF Data
    <3> QED BY <1>1, <2>2, <3>1, NoDataAssumption DEF SameRec, Names
  <2> QED BY <1>1, <1>2, <2>1, <2>2 DEF DataFn
<1>4. VoiceKept(c)
  BY <1>0, SilentKept
<1> QED BY <1>0, <1>3, <1>4, OthersKept

\* The handlers of the UI thread, the loops' iterations among them
LEMMA UserVoices == ASSUME Seen, UserInterface PROVE VoicesKept
<1> DEFINE still == UNCHANGED <<data, media, taps, quiet>>
<1>0. Inv /\ ui \in Loops \union {Idle}
  BY DEF Seen, Inv, TypeOK
<1>1. ASSUME still PROVE VoicesKept
  BY <1>1, NobodySilenced DEF Names
<1>2. ASSUME NEW c \in Calls, ShowTab(c) \/ EndConference(c) \/ MergeAll(c) \/ SeparateAll(c)
      PROVE  VoicesKept
  BY <1>1, <1>2 DEF ShowTab, EndConference, MergeAll, SeparateAll
<1>3. ASSUME NEW c \in Calls, Hangup(c) \/ Separate(c) PROVE VoicesKept
  BY <1>3, HangupVoices, LeaveVoices DEF Hangup, Separate
<1>4. ASSUME NEW s \in Calls, NEW c \in Calls, Merge(s, c) PROVE VoicesKept
  <2>1. c \in Active /\ MergeWith(s, c)
    BY <1>4 DEF Merge, Active
  <2> QED BY <2>1, MergeVoices
<1>5. ASSUME EndStep PROVE VoicesKept
  <2>1. First(ui.rest) \in Calls
    BY <1>0, <1>5, AdvanceInLoop DEF EndStep
  <2>2. HangupFast(First(ui.rest)) \/ still
    BY <1>5 DEF EndStep
  <2> QED BY <1>1, <2>1, <2>2, HangupVoices
<1>6. ASSUME EndLast PROVE VoicesKept
  <2>1. (ui.call \in Calls /\ HangupFast(ui.call)) \/ still
    BY <1>6 DEF EndLast, Enum
  <2> QED BY <1>1, <2>1, HangupVoices
<1>7. ASSUME MergeStep PROVE VoicesKept
  <2>1. (First(ui.rest) \in Active /\ MergeWith(ui.call, First(ui.rest))) \/ still
    BY <1>7 DEF MergeStep
  <2>2. ui.call \in Calls
    BY <1>0, <1>7 DEF MergeStep, Loops, Idle
  <2> QED BY <1>1, <2>1, <2>2, MergeVoices
<1>8. ASSUME SeparateStep PROVE VoicesKept
  <2>1. (First(ui.rest) \in Enum /\ ConferenceLeave(First(ui.rest))) \/ still
    BY <1>8 DEF SeparateStep
  <2>2. UNCHANGED media
    BY <1>8 DEF SeparateStep
  <2> QED BY <1>1, <2>1, <2>2, LeaveVoices
<1> QED BY <1>2, <1>3, <1>4, <1>5, <1>6, <1>7, <1>8, HandleEndVoices, ToggleVoices, InviteVoices
     DEF UserInterface

LEMMA StepIsHeard == Seen /\ [Next]_vars => VoicesKept
<1> SUFFICES ASSUME Seen, [Next]_vars PROVE VoicesKept
  OBVIOUS
<1>1. TypeOK'
  BY InvIsInductive DEF Seen, Inv
<1>2. CASE Worker
  BY <1>1, <1>2, WorkerVoices DEF Worker
<1>3. CASE UserInterface
  BY <1>3, UserVoices
<1>4. CASE UNCHANGED vars
  BY <1>4, NobodySilenced DEF vars, Names
<1> QED BY <1>2, <1>3, <1>4 DEF Next

-----------------------------------------------------------------------------
\* In every behaviour the connections to files are those the user data tell.
THEOREM SeenHolds == Spec => []Seen
<1>1. Init => Seen
  <2>1. Init => Told(data, media, taps)
    BY DEF Init, Told, Active
  <2> QED BY <2>1, InitInv DEF Seen
<1>2. Seen /\ [Next]_vars => Seen'
  BY StepIsHonest, InvIsInductive DEF Seen, Honest
<1> QED BY <1>1, <1>2, PTL DEF Spec

\* For any number of calls and recorders, and whatever invitations fail: the port
\* of a call is connected to the file its user data name and to no other, and is so
\* whenever its media is active, through every restart of its stream, hold,
\* conference and end of another call.  The level of that file is the next theorem's.
THEOREM CallsReachTheirFile == Spec => []ConnectedToFile
<1>1. Seen => ConnectedToFile
  <2> SUFFICES ASSUME Seen PROVE ConnectedToFile
    OBVIOUS
  <2>1. ASSUME NEW c \in Active, Recording(data, c), media[c] = "active"
        PROVE  <<c, data[c].rec>> \in taps
    <3>1. c \in Calls /\ data[c].rec \in Recorders /\ Names(data, c, data[c].rec)
      BY <2>1 DEF Recording, Active, Names, Seen, Inv, TypeOK, Data
    <3> QED BY <2>1, <3>1 DEF Seen, Told
  <2> QED BY <2>1 DEF Seen, Told, Names, ConnectedToFile
<1> QED BY <1>1, SeenHolds, PTL

\* And the voice is in the file from the moment the media of the call becomes active,
\* at whatever level the holds of others have left the file, until its own media
\* changes, it leaves the conference, the file is completed, or a call that shares
\* the recorder is held.
THEOREM VoicesStayInTheFile == Spec => HeardUntilHeld
<1>1. Seen /\ [Next]_vars =>
        [\A c \in Calls :
           /\ media[c] # "active" /\ media'[c] = "active" /\ Recording(data', c) => Heard(c)'
           /\ Heard(c) /\ ~Heard(c)' =>
                \/ media'[c] # media[c]
                \/ ~Recording(data', c) /\ (~InConf(data', c) \/ data[c].rec \notin live')
                \/ SharerHeld(c)]_vars
  BY StepIsHeard DEF VoicesKept, VoiceKept, Excused
<1> QED BY <1>1, SeenHolds, PTL DEF Spec, HeardUntilHeld

\* An open file loses its last owner only with a call that ends without a tab or
\* with status 481; no hold, conference or button leaves one behind.
THEOREM FilesAreCompleted == Spec => FilesCompleted
<1>1. Seen /\ [Next]_vars =>
        [\A r \in live : Owned(r) /\ r \in live' /\ ~Owned(r)' =>
           \E c \in Calls : \/ phase[c] # "lost" /\ phase'[c] = "lost"
                            \/ ending[c] # NoData /\ ending'[c] = NoData /\ ~tab[c]]_vars
  BY StepIsHonest DEF Honest, FilesKept, Unseen
<1> QED BY <1>1, SeenHolds, PTL DEF Spec, FilesCompleted

\* A step cuts no connection but those of a call whose media it changes or takes
\* away, or that it takes out of the conference.
THEOREM OthersStayConnected == Spec => ConnectedUntilLeft
<1>1. Inv /\ [Next]_vars =>
        [\A a, b \in Calls : a # b /\ {a, b} \in bridge /\ {a, b} \notin bridge' =>
           \/ \E c \in {a, b} : "active" # media'[c] \/ "active" # media[c]
           \/ ~(InConf(data', a) /\ InConf(data', b))]_vars
  BY StepParts DEF PairsKept, PairKept
<1> QED BY <1>1, InvHolds, PTL DEF Spec, ConnectedUntilLeft
=============================================================================
