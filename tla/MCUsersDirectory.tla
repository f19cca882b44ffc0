--------------------------- MODULE MCUsersDirectory ---------------------------
(***************************************************************************)
(* Two accounts whose directories have nothing in common, and one for      *)
(* everybody that has an entry of each kind.                               *)
(***************************************************************************)
EXTENDS UsersDirectory

MCAccounts == {"alice", "bob"}

MCEntries == {"x", "y"}

MCContent ==
  [d \in MCAccounts \union {Shared} |->
     CASE d = "alice" -> {"x"} [] d = "bob" -> {"y"} [] OTHER -> {"x", "y"}]
=============================================================================
