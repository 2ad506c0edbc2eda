----------------------------- MODULE WriteBehind -----------------------------
(***************************************************************************)
(* What the store promises those who change it and those who flush it,     *)
(* without queue, worker, debounce, locks or waiting: one file lags behind *)
(* the contents, is unreadable while it is being written, and moves        *)
(* forward only, until two writes are ever under way at once.              *)
(*                                                                         *)
(* StoreFlush implements it; see the end of that module.                   *)
(***************************************************************************)
EXTENDS Integers

VARIABLES
    latest,     \* how often the contents have changed
    file,       \* the change the file is up to, or Torn
    confirmed,  \* the change a completed write is known to have reached
    vouched,    \* the change that Flush has vouched for
    alone       \* no two writes have been under way at once so far

vars == <<latest, file, confirmed, vouched, alone>>

Torn == -1

Init ==
    /\ latest = 0 /\ file = 0
    /\ confirmed = 0 /\ vouched = 0
    /\ alone = TRUE

Change ==
    /\ latest' = latest + 1
    /\ UNCHANGED <<file, confirmed, vouched, alone>>

\* A write is begun, or fails with the file open.
Tear ==
    /\ file' = Torn
    /\ UNCHANGED <<latest, confirmed, vouched, alone>>

\* A write ends: it never takes the file back, if it is alone.
Write ==
    /\ \E v \in 0 .. latest :
          /\ alone => v >= confirmed
          /\ file' = v
    /\ UNCHANGED <<latest, confirmed, vouched, alone>>

\* A lone write is confirmed for exactly what it has put into the file.
Confirm ==
    /\ \E v \in confirmed .. latest :
          /\ alone => file = v
          /\ confirmed' = v
    /\ UNCHANGED <<latest, file, vouched, alone>>

Vouch ==
    /\ vouched' \in vouched .. confirmed
    /\ UNCHANGED <<latest, file, confirmed, alone>>

Overlap ==
    /\ alone' = FALSE
    /\ UNCHANGED <<latest, file, confirmed, vouched>>

Next == Change \/ Tear \/ Write \/ Confirm \/ Vouch \/ Overlap

Spec == Init /\ [][Next]_vars
-----------------------------------------------------------------------------
Versions ==
    /\ latest \in Nat /\ confirmed \in 0 .. latest /\ vouched \in 0 .. confirmed
    /\ file \in {Torn} \cup 0 .. latest
    /\ alone \in BOOLEAN

(***************************************************************************)
(* What a reader of the file can count on: as long as writes have kept out *)
(* of each other's way, a file that is whole has everything that was ever  *)
(* confirmed and so everything Flush has vouched for.                      *)
(***************************************************************************)
WholeFileIsCurrent == alone /\ file # Torn => file >= confirmed /\ file >= vouched
=============================================================================
