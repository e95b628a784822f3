-------------------------------- MODULE LogFeed --------------------------------
(***************************************************************************)
(* What the trace of a session promises to somebody who watches it: a log  *)
(* that only grows until its end is written, a view that is always a       *)
(* beginning of that log, and the word that the session is done only for   *)
(* a view that has all of it.                                              *)
(***************************************************************************)
EXTENDS Naturals, Sequences

CONSTANTS
  Record,    \* what the log may hold
  EndRecord  \* the one that ends it

VARIABLES
  log, shown,
  told       \* is the next thing the watcher hears that the session is done?

feed == <<log, shown, told>>

Ended == log # <<>> /\ log[Len(log)] = EndRecord

Init == log = <<>> /\ shown = <<>> /\ told = FALSE

(* The session goes on.                                                    *)
Write ==
  /\ ~Ended
  /\ \E r \in Record : log' = Append(log, r)
  /\ UNCHANGED <<shown, told>>

(* More of the log is shown, or the watcher is told that this was all.     *)
ShowMore ==
  /\ \E n \in Len(shown) .. Len(log) :
       /\ shown' = SubSeq(log, 1, n)
       /\ told' \in {FALSE, n = Len(log) /\ Ended}
  /\ UNCHANGED log

(* The watcher starts anew.                                                *)
ShowAnew ==
  /\ shown' = <<>> /\ told' = FALSE
  /\ UNCHANGED log

Next == Write \/ ShowMore \/ ShowAnew

Spec == Init /\ [][Next]_feed
=============================================================================
