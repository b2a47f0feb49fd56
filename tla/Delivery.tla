----------------------------- MODULE Delivery -----------------------------
(***************************************************************************)
(* What an agent promises about the messages sent to it, without saying    *)
(* how the driver keeps the promise.  A message waits, is taken in hand    *)
(* only by an open turn, and from there enters the conversation or is      *)
(* dropped before that turn closes.  A waiting message may be withdrawn.   *)
(* Nothing entered, dropped or withdrawn ever comes back.                  *)
(***************************************************************************)
CONSTANT Messages

VARIABLES turnOpen, waiting, inHand, entered, gone

parts == <<waiting, inHand, entered, gone>>
view  == <<turnOpen, parts>>

Init == turnOpen = FALSE /\ waiting = {} /\ inHand = {} /\ entered = {} /\ gone = {}

Accept(m) ==
  /\ m \notin waiting \cup inHand \cup entered \cup gone
  /\ waiting' = waiting \cup {m}
  /\ UNCHANGED <<turnOpen, inHand, entered, gone>>

Withdraw(S) ==
  /\ S \subseteq waiting
  /\ waiting' = waiting \ S /\ gone' = gone \cup S
  /\ UNCHANGED <<turnOpen, inHand, entered>>

OpenTurn ==
  /\ ~turnOpen /\ inHand = {}
  /\ turnOpen' = TRUE
  /\ UNCHANGED parts

Take(S) ==
  /\ turnOpen /\ inHand = {}
  /\ S \subseteq waiting
  /\ waiting' = waiting \ S /\ inHand' = S
  /\ UNCHANGED <<turnOpen, entered, gone>>

(* The hand is emptied: S enters, the rest is dropped.                     *)
Enter(S) ==
  /\ turnOpen /\ S \subseteq inHand
  /\ entered' = entered \cup S /\ gone' = gone \cup (inHand \ S)
  /\ inHand' = {}
  /\ UNCHANGED <<turnOpen, waiting>>

CloseTurn ==
  /\ turnOpen
  /\ turnOpen' = FALSE
  /\ inHand' = {} /\ gone' = gone \cup inHand
  /\ UNCHANGED <<waiting, entered>>

Next == \/ \E m \in Messages : Accept(m)
        \/ \E S \in SUBSET Messages : Withdraw(S) \/ Take(S) \/ Enter(S)
        \/ OpenTurn \/ CloseTurn

Spec == Init /\ [][Next]_view
===========================================================================
