------------------------------ MODULE Checklist ------------------------------
(* What a launch of the benchmark runner promises (bench/run_bench.py), with *)
(* everything left out that makes it hard: a pass over a list of cases that  *)
(* handles each one once, either settling it, with one verdict on disk and   *)
(* in the report, or passing over what an earlier launch had settled.        *)
(* Connections, outages, retries, escalation and live files do not show.     *)
CONSTANTS Case, Terminal

VARIABLES
  book,           \* the record of each case on disk, "none" without
  phase,          \* "idle", "taken" (launched), "going" (in a pass)
  list,           \* the cases of the launch
  todo,           \* those not handled yet
  told,           \* the report
  settled,        \* the cases a resumed pass leaves alone
  outcome

vars == <<book, phase, list, todo, told, settled, outcome>>

Nothing == [c \in Case |-> "none"]
Untouched == todo = list /\ told = Nothing

Init ==
  /\ book = Nothing /\ told = Nothing
  /\ phase = "idle" /\ outcome = "none"
  /\ list = {} /\ todo = {} /\ settled = {}

Take(P) ==
  /\ phase = "idle"
  /\ phase' = "taken" /\ list' = P /\ outcome' = "none"
  /\ UNCHANGED <<book, todo, told, settled>>

(* A pass begins: from nothing, over what is there, or resuming it.          *)
Start ==
  /\ phase = "taken"
  /\ phase' = "going" /\ todo' = list /\ told' = Nothing
  /\ \/ settled' = {} /\ book' \in {Nothing, book}
     \/ settled' = {c \in Case : book[c] # "none"} /\ book' = book
  /\ UNCHANGED <<list, outcome>>

(* It may begin again only as long as nothing was handled.                   *)
Restart ==
  /\ phase = "going" /\ Untouched
  /\ phase' = "taken"
  /\ UNCHANGED <<book, list, todo, told, settled, outcome>>

Settle(c, v) ==
  /\ phase = "going" /\ c \in todo \ settled
  /\ todo' = todo \ {c}
  /\ book' = [book EXCEPT ![c] = v] /\ told' = [told EXCEPT ![c] = v]
  /\ UNCHANGED <<phase, list, settled, outcome>>

PassOver(c) ==
  /\ phase = "going" /\ c \in todo \cap settled
  /\ todo' = todo \ {c}
  /\ UNCHANGED <<book, phase, list, told, settled, outcome>>

(* The old record of a case that is handled anew goes first.                 *)
Withdraw(c) ==
  /\ phase = "going" /\ c \in todo \ settled
  /\ book' = [book EXCEPT ![c] = "none"]
  /\ UNCHANGED <<phase, list, todo, told, settled, outcome>>

(* A launch ends well with everything handled, badly with nothing handled,   *)
(* or is killed.                                                             *)
End(o) ==
  /\ phase # "idle"
  /\ CASE o = "0" -> phase = "going" /\ todo = {}
       [] o = "1" -> phase = "going" /\ Untouched
       [] OTHER   -> o = "killed"
  /\ phase' = "idle" /\ outcome' = o
  /\ UNCHANGED <<book, list, todo, told, settled>>

Next ==
  \/ \E P \in SUBSET Case : Take(P)
  \/ Start \/ Restart
  \/ \E c \in Case : PassOver(c) \/ Withdraw(c) \/ \E v \in Terminal : Settle(c, v)
  \/ \E o \in {"0", "1", "killed"} : End(o)

Spec == Init /\ [][Next]_vars
=============================================================================
