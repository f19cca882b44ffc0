----------------------------- MODULE MCConference -----------------------------
(***************************************************************************)
(* Bounds for the conference of three calls.  Two calls are checked without *)
(* a bound; with three, the states that two calls already show are left     *)
(* out: a confirmed call has media and, in the messages window, a tab, one  *)
(* call at a time is set up, one is held (when confirmed), one waits for    *)
(* the answer to its BYE and one for the handling of its last message, and  *)
(* no call ends with status 481.                                            *)
(***************************************************************************)
EXTENDS Conference, FiniteSets, TLC

ThreeCalls ==
  /\ \A c \in Calls :
       /\ phase[c] # "lost"
       /\ phase[c] = "setup" => media[c] # "held"
       /\ phase[c] = "confirmed" => media[c] # "none" /\ tab[c]
  /\ Cardinality({c \in Calls : phase[c] = "setup"}) <= 1
  /\ Cardinality({c \in Calls : phase[c] = "hanging"}) <= 1
  /\ Cardinality({c \in Calls : media[c] = "held"}) <= 1
  /\ Cardinality({c \in Calls : ending[c] # NoData}) <= 1

RecorderSymmetry == Permutations(Recorders)
=============================================================================
