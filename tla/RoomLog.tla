------------------------------ MODULE RoomLog -------------------------------
(***************************************************************************)
(* What a chat room promises to its readers: one append-only log whose     *)
(* entries have ever larger ids, and windows that only ever show log       *)
(* entries, each newer than the lines above it.                            *)
(***************************************************************************)
EXTENDS Integers, Sequences

CONSTANT Client

VARIABLES
  log,    \* committed chat events, records with a field id
  window  \* window[c]: the lines client c shows

roomVars == <<log, window>>

RoomInit ==
  /\ log = <<>>
  /\ window = [c \in Client |-> <<>>]

\* Newer(e, s): e is newer than every entry of s.
Newer(e, s) == \A i \in 1..Len(s) : e.id > s[i].id

Commit ==
  /\ \A i \in 1..Len(log) : log'[i] = log[i]
  /\ Len(log') = Len(log) + 1
  /\ Newer(log'[Len(log')], log)
  /\ UNCHANGED window

Show(c) ==
  /\ \E i \in 1..Len(log) :
       /\ Newer(log[i], window[c])
       /\ window' = [window EXCEPT ![c] = Append(@, log[i])]
  /\ UNCHANGED log

RoomNext == Commit \/ \E c \in Client : Show(c)

RoomSpec == RoomInit /\ [][RoomNext]_roomVars
=============================================================================
