----------------------------- MODULE CallOwnership -----------------------------
(***************************************************************************)
(* What MicroSIP promises about the call_user_data of a call: pjsua's slot *)
(* owns them while the call goes on, the user interface from the end of    *)
(* the call until it has shown it, and nobody after that.  While messages  *)
(* carry a pointer to them they are not deleted, and they are deleted once. *)
(* The exception is a call that the far end turns out not to know: nobody  *)
(* is told of its end, and its user data are left behind.                  *)
(*                                                                         *)
(* CallControl implements this module: see Ownership there.                *)
(***************************************************************************)
CONSTANT Calls

VARIABLES
  stage,   \* of the call: none, going, ended, lost
  owner,   \* of the user data: nobody, pjsua, window, gone, lost
  refs     \* messages that carry the pointer are on their way

vars == <<stage, owner, refs>>

Init ==
  /\ stage = [k \in Calls |-> "none"]
  /\ owner = [k \in Calls |-> "nobody"]
  /\ refs = [k \in Calls |-> FALSE]

\* What becomes of one call in a step
Becomes(k, s, o) == stage'[k] = s /\ owner'[k] = o

\* A call starts, or is refused as it comes in.
Begin(k) ==
  /\ stage[k] = "none"
  /\ \/ Becomes(k, "going", "pjsua")
     \/ Becomes(k, "ended", "window") /\ refs'[k]

\* Its state changes, or a message about it is handled.
Go(k) == stage[k] = "going" /\ Becomes(k, "going", "pjsua")

\* It ends: the user interface gets the user data with a message, or they are
\* deleted, which is safe as long as no message is on its way.
End(k) ==
  /\ stage[k] = "going"
  /\ \/ Becomes(k, "ended", "window") /\ refs'[k]
     \/ Becomes(k, "ended", "gone") /\ ~refs[k] /\ ~refs'[k]

\* The far end does not know it.  The messages before that are handled all the same:
\* the user data they point to are not deleted.
Lose(k) == stage[k] = "going" /\ Becomes(k, "lost", "lost")
Fade(k) == stage[k] = "lost" /\ Becomes(k, "lost", "lost")

\* The messages before the last are handled.
Show(k) == owner[k] = "window" /\ Becomes(k, "ended", "window") /\ refs'[k]

\* The last one is.
Release(k) == owner[k] = "window" /\ Becomes(k, "ended", "gone") /\ ~refs'[k]

Rest(k) == stage[k] \in {"none", "ended"} /\ Becomes(k, stage[k], owner[k]) /\ refs'[k] = refs[k]

\* One handler may end several calls.
Next ==
  \A k \in Calls : \/ Begin(k) \/ Go(k) \/ End(k) \/ Lose(k) \/ Fade(k)
                   \/ Show(k) \/ Release(k) \/ Rest(k)

Spec == Init /\ [][Next]_vars

-----------------------------------------------------------------------------
\* Every call that ends has its user data deleted, unless it is lost.
Released == \A k \in Calls : stage[k] = "ended" ~> owner[k] = "gone"
=============================================================================
