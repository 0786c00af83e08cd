---------------------------- MODULE BroadcastLog ----------------------------
(***************************************************************************)
(* What the rings of src/framework/transport promise: a log of messages     *)
(* every reader takes in order, each message once, from the one that was    *)
(* sent next after it joined; a sender does not get more than Cap messages  *)
(* ahead of a reader.                                                       *)
(*                                                                          *)
(* A message stands for its number, so that the log is the number of the    *)
(* last one, and a reader the number of the last one it took.               *)
(***************************************************************************)
EXTENDS Integers

CONSTANTS Reader, Cap

VARIABLES
  last,    \* number of the last message sent, -1 before the first
  at,      \* for each reader that has joined, the last message it took
  got      \* the messages it has taken since it joined

Off == -2     \* a reader that has not joined

Init == last = -1 /\ at = [r \in Reader |-> Off] /\ got = [r \in Reader |-> {}]

Joined == {r \in Reader : at[r] # Off}

Send(n) ==
  /\ \A r \in Joined : last + n - at[r] <= Cap
  /\ last' = last + n
  /\ UNCHANGED <<at, got>>

Take(r, n) ==
  /\ r \in Joined
  /\ at[r] + n <= last
  /\ at' = [at EXCEPT ![r] = @ + n]
  /\ got' = [got EXCEPT ![r] = @ \cup (at[r] + 1)..(at[r] + n)]
  /\ UNCHANGED last

Join(r) ==
  /\ r \notin Joined
  /\ at' = [at EXCEPT ![r] = last]
  /\ UNCHANGED <<last, got>>

Leave(gone) ==
  /\ at' = [r \in Reader |-> IF r \in gone THEN Off ELSE at[r]]
  /\ got' = [r \in Reader |-> IF r \in gone THEN {} ELSE got[r]]
  /\ UNCHANGED last

Next ==
  \/ \E n \in 1..Cap : Send(n)
  \/ \E r \in Reader, n \in 1..Cap : Take(r, n)
  \/ \E r \in Reader : Join(r)
  \/ \E gone \in SUBSET Reader : Leave(gone)

vars == <<last, at, got>>

Spec == Init /\ [][Next]_vars

=============================================================================
