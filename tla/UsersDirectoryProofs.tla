------------------------ MODULE UsersDirectoryProofs ------------------------
(***************************************************************************)
(* The polling of the directory of users never dies, for any accounts,     *)
(* directories and bounds.  Polling is inductive once it is known that a   *)
(* request goes to a directory and that none is counted below zero.        *)
(* The types follow from the bounds on what is in flight.                  *)
(***************************************************************************)
EXTENDS UsersDirectory, TLAPS

RequestsOK == account \in Accounts /\ requests \in [Directories -> Nat]

IInv == RequestsOK /\ Polling

\* A load leaves the requests counted, and one of them in flight unless there
\* is no URL (UsersDirectoryLoad).
LEMMA LoadAsks ==
  ASSUME NEW u, NEW update \in BOOLEAN, RequestsOK, Load(update, u)
  PROVE  /\ requests' \in [Directories -> Nat]
         /\ asked' = u
         /\ u # "none" => \E d \in Directories : requests'[d] > 0
<1> DEFINE d == IF u = "plain" THEN Shared ELSE account
<1>1. d \in Directories
  BY DEF RequestsOK, Directories
<1>2. /\ requests' = [requests EXCEPT ![d] = @ + IF u = "none" THEN 0 ELSE 1]
      /\ asked' = u
  BY DEF Load, Sends
<1>3. requests' \in [Directories -> Nat]
  BY <1>1, <1>2 DEF RequestsOK
<1>4. u # "none" => requests'[d] > 0
  BY <1>1, <1>2 DEF RequestsOK
<1> QED BY <1>1, <1>2, <1>3, <1>4

\* A load keeps the invariant, whoever asks for it.
LEMMA LoadKeeps ==
  ASSUME NEW u, NEW update \in BOOLEAN, RequestsOK, Load(update, u), account' = account
  PROVE  IInv'
<1>1. RequestsOK'
  BY LoadAsks DEF RequestsOK
<1>2. Polling'
  BY LoadAsks DEF Polling, Pending
<1> QED BY <1>1, <1>2 DEF IInv

\* An answer keeps it, whichever of the requests it answers and however late it
\* comes (onUsersDirectoryLoaded sets the timer again after every outcome).
LEMMA AnswerKeeps ==
  ASSUME NEW d \in Directories, IInv, OnUsersDirectoryLoaded(d)
  PROVE  IInv'
<1>1. RequestsOK'
  <2>1. /\ account' = account
        /\ requests[d] > 0
        /\ requests' = [requests EXCEPT ![d] = @ - 1]
    BY DEF OnUsersDirectoryLoaded, Answered
  <2>2. requests[d] \in Nat
    BY DEF IInv, RequestsOK
  <2> QED BY <2>1, <2>2 DEF IInv, RequestsOK
<1>2. refresh' = 1 \/ reconnect' > 0 => timer'
  <2>0. ~(0 > 0) /\ (refresh' = 1 => refresh' > 0)
    OBVIOUS
  <2>1. CASE LoadFails
    <3>1. refresh' = refresh /\ timer' = (timer \/ reconnect' > 0 \/ refresh > 0)
      BY <2>1 DEF LoadFails, SetsTimer
    <3> QED BY <3>1, <2>0
  <2>2. CASE LoadRefused
    <3>1. /\ refresh' = refresh /\ reconnect' = 0
          /\ timer' = (timer \/ 0 > 0 \/ refresh > 0)
      BY <2>2 DEF LoadRefused, SetsTimer
    <3> QED BY <3>1, <2>0
  <2>3. CASE LoadDone(d)
    <3>1. reconnect' = 0 /\ timer' = (timer \/ 0 > 0 \/ refresh' > 0)
      BY <2>3 DEF LoadDone, SetsTimer
    <3> QED BY <3>1, <2>0
  <2> QED BY <2>1, <2>2, <2>3 DEF OnUsersDirectoryLoaded
<1>3. Polling'
  BY <1>2 DEF Polling, Pending
<1> QED BY <1>1, <1>3 DEF IInv

\* A step that leaves the requests, the timer and the counts alone keeps it.
LEMMA StutterKeeps ==
  ASSUME IInv, account' \in Accounts,
         UNCHANGED <<refresh, reconnect, timer, requests, asked>>
  PROVE  IInv'
<1> QED BY DEF IInv, RequestsOK, Polling, Pending

LEMMA InductiveStep == IInv /\ [Next]_vars => IInv'
<1> SUFFICES ASSUME IInv, [Next]_vars PROVE IInv'
  OBVIOUS
<1>1. RequestsOK /\ account \in Accounts
  BY DEF IInv, RequestsOK
<1>2. CASE OnTimer
  BY <1>1, <1>2, LoadKeeps DEF OnTimer
<1>3. CASE OnRegState
  BY <1>1, <1>3, LoadKeeps DEF OnRegState
<1>4. CASE PJCreate
  <2>1. PICK u \in Urls, started \in BOOLEAN :
          /\ account' = account
          /\ IF started /\ u # "masked"
             THEN Load(FALSE, u)
             ELSE UNCHANGED <<timer, asked, refresh, reconnect, requests>>
    BY <1>4 DEF PJCreate
  <2>2. CASE started /\ u # "masked"
    BY <1>1, <2>1, <2>2, LoadKeeps
  <2>3. CASE ~(started /\ u # "masked")
    BY <1>1, <2>1, <2>3, StutterKeeps
  <2> QED BY <2>2, <2>3
<1>5. CASE \E d \in Directories : OnUsersDirectoryLoaded(d)
  BY <1>5, AnswerKeeps
<1>6. CASE OnMenuAccountChange
  <2>1. account' \in Accounts /\ UNCHANGED <<refresh, reconnect, timer, requests, asked>>
    BY <1>6 DEF OnMenuAccountChange
  <2> QED BY <2>1, StutterKeeps
<1>7. CASE UserContacts
  BY <1>1, <1>7, StutterKeeps DEF UserContacts
<1>8. CASE ServerChanges
  BY <1>1, <1>8, StutterKeeps DEF ServerChanges
<1>9. CASE UNCHANGED vars
  BY <1>1, <1>9, StutterKeeps DEF vars
<1> QED BY <1>2, <1>3, <1>4, <1>5, <1>6, <1>7, <1>8, <1>9 DEF Next

\* As long as the server named an interval or the last connection failed, the
\* timer is set or a request is in flight, for any number of accounts and of
\* requests at once and for every order of their answers.
THEOREM PollingNeverDies == Spec => []Polling
<1>1. Init => IInv
  <2> SUFFICES ASSUME Init PROVE IInv
    OBVIOUS
  <2>1. RequestsOK
    BY DEF Init, RequestsOK
  <2>2. Polling
    BY DEF Init, Polling
  <2> QED BY <2>1, <2>2 DEF IInv
<1>2. IInv => Polling
  BY DEF IInv
<1> QED BY <1>1, <1>2, InductiveStep, PTL DEF Spec
-----------------------------------------------------------------------------
(* The types.                                                              *)

LEMMA LoadTypes ==
  ASSUME TypeOK, NEW u \in Urls, NEW update \in BOOLEAN, Load(update, u)
  PROVE  /\ asked' \in Urls /\ timer' \in BOOLEAN
         /\ refresh' \in -1..1 /\ reconnect' \in 0..MaxReconnect
         /\ requests' \in [Directories -> 0..MaxRequests]
<1>1. PICK d \in Directories :
        requests[d] < MaxRequests /\ requests' = [requests EXCEPT ![d] = @ + IF u = "none" THEN 0 ELSE 1]
  BY DEF Load, Sends, TypeOK, Directories
<1>2. requests[d] \in 0..MaxRequests /\ requests[d] + 1 \in 0..MaxRequests
  BY <1>1, BoundAssumption DEF TypeOK
<1>3. requests' \in [Directories -> 0..MaxRequests]
  BY <1>1, <1>2 DEF TypeOK
<1>4. refresh' \in -1..1 /\ reconnect' \in 0..MaxReconnect
  BY BoundAssumption DEF Load, TypeOK
<1> QED BY <1>3, <1>4 DEF Load

\* The merge makes a contact of the list what it was, absent, or one with the flag
\* it is given (Contacts::ContactsAdd).
LEMMA MergeTypes ==
  ASSUME TypeOK, NEW answer, NEW flag \in {"listed", "directory"}
  PROVE  ContactsAdd(answer, flag) \in [Entries -> {"absent", "listed", "directory"}]
BY DEF ContactsAdd, TypeOK

LEMMA AnswerTypes ==
  ASSUME TypeOK, NEW d \in Directories, OnUsersDirectoryLoaded(d)
  PROVE  TypeOK'
<1>1. /\ requests[d] > 0 /\ requests' = [requests EXCEPT ![d] = @ - 1]
      /\ UNCHANGED <<url, account, up, asked, changes>>
  BY DEF OnUsersDirectoryLoaded, Answered
<1>2. requests' \in [Directories -> 0..MaxRequests]
  <2>1. requests[d] - 1 \in 0..MaxRequests
    BY <1>1, BoundAssumption DEF TypeOK
  <2> QED BY <1>1, <2>1 DEF TypeOK
<1>3. /\ timer' \in BOOLEAN /\ refresh' \in -1..1 /\ reconnect' \in 0..MaxReconnect
      /\ contacts' \in [Entries -> {"absent", "listed", "directory"}]
  <2>1. CASE LoadFails
    <3>1. timer' \in BOOLEAN
      BY <2>1 DEF LoadFails, SetsTimer
    <3>2. reconnect' \in 0..MaxReconnect
      BY <2>1, BoundAssumption DEF LoadFails, TypeOK
    <3> QED BY <2>1, <3>1, <3>2 DEF LoadFails, TypeOK
  <2>2. CASE LoadRefused
    <3>1. timer' \in BOOLEAN
      BY <2>2 DEF LoadRefused, SetsTimer
    <3> QED BY <2>2, <3>1, BoundAssumption DEF LoadRefused, TypeOK
  <2>3. CASE LoadDone(d)
    <3>1. timer' \in BOOLEAN
      BY <2>3 DEF LoadDone, SetsTimer
    <3>2. reconnect' \in 0..MaxReconnect /\ refresh' \in -1..1
      BY <2>3, BoundAssumption DEF LoadDone, NextRefresh, TypeOK
    <3>3. contacts' = contacts \/ \E answer \in SUBSET Content[d], flag \in {"listed", "directory"} :
                                    contacts' = ContactsAdd(answer, flag)
      BY <2>3 DEF LoadDone
    <3> QED BY <3>1, <3>2, <3>3, MergeTypes DEF TypeOK
  <2> QED BY <2>1, <2>2, <2>3 DEF OnUsersDirectoryLoaded
<1> QED BY <1>1, <1>2, <1>3 DEF TypeOK

\* Every thread answers its request once, whatever other requests overtake it, and
\* the counts and contacts stay what they can be.
THEOREM DirectoryTypes == Spec => []TypeOK
<1>1. Init => TypeOK
  <2> SUFFICES ASSUME Init PROVE TypeOK
    OBVIOUS
  <2>1. requests \in [Directories -> 0..MaxRequests] /\ reconnect \in 0..MaxReconnect /\ changes \in 0..MaxChanges
    BY BoundAssumption DEF Init
  <2>2. contacts \in [Entries -> {"absent", "listed", "directory"}]
    BY DEF Init
  <2>3. url \in Urls /\ asked \in Urls /\ timer \in BOOLEAN /\ account \in Accounts /\ up \in BOOLEAN
    BY DEF Init, Urls
  <2>4. refresh \in -1..1
    BY DEF Init
  <2> QED BY <2>1, <2>2, <2>3, <2>4 DEF TypeOK
<1>2. TypeOK /\ [Next]_vars => TypeOK'
  <2> SUFFICES ASSUME TypeOK, [Next]_vars PROVE TypeOK'
    OBVIOUS
  <2>1. CASE OnTimer \/ OnRegState
    <3>1. PICK update \in BOOLEAN, u \in Urls :
            u = url /\ Load(update, u) /\ UNCHANGED <<url, account, contacts, up, changes>>
      BY <2>1 DEF OnTimer, OnRegState, TypeOK
    <3> QED BY <3>1, LoadTypes DEF TypeOK
  <2>2. CASE PJCreate
    <3>1. PICK u \in Urls, started \in BOOLEAN :
            /\ u # url => changes < MaxChanges
            /\ url' = u
            /\ changes' = changes + IF u = url THEN 0 ELSE 1
            /\ IF started /\ u # "masked"
               THEN Load(FALSE, u)
               ELSE UNCHANGED <<timer, asked, refresh, reconnect, requests>>
            /\ UNCHANGED <<account, contacts, up>>
      BY <2>2 DEF PJCreate
    <3>2. changes' \in 0..MaxChanges
      BY <3>1, BoundAssumption DEF TypeOK
    <3>3. CASE Load(FALSE, u)
      BY <3>1, <3>2, <3>3, LoadTypes DEF TypeOK
    <3>4. CASE UNCHANGED <<timer, asked, refresh, reconnect, requests>>
      BY <3>1, <3>2, <3>4 DEF TypeOK
    <3> QED BY <3>1, <3>3, <3>4
  <2>3. CASE \E d \in Directories : OnUsersDirectoryLoaded(d)
    BY <2>3, AnswerTypes
  <2>4. CASE OnMenuAccountChange
    BY <2>4, BoundAssumption DEF OnMenuAccountChange, TypeOK
  <2>5. CASE UserContacts
    <3>1. changes' \in 0..MaxChanges
      BY <2>5, BoundAssumption DEF UserContacts, TypeOK
    <3>2. contacts' \in [Entries -> {"absent", "listed", "directory"}]
      BY <2>5 DEF UserContacts, TypeOK
    <3> QED BY <2>5, <3>1, <3>2 DEF UserContacts, TypeOK
  <2>6. CASE ServerChanges
    BY <2>6 DEF ServerChanges, TypeOK
  <2>7. CASE UNCHANGED vars
    BY <2>7 DEF vars, TypeOK
  <2> QED BY <2>1, <2>2, <2>3, <2>4, <2>5, <2>6, <2>7 DEF Next
<1> QED BY <1>1, <1>2, PTL DEF Spec
=============================================================================
