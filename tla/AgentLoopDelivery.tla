------------------------- MODULE AgentLoopDelivery -------------------------
(***************************************************************************)
(* The driver implements the delivery promise: the abstract waiting set is *)
(* what the two inbox lists hold, a turn is open while the session log has *)
(* an unclosed turn/start, and the rest is read off the messages' history. *)
(***************************************************************************)
EXTENDS AgentLoop

With(what) == {m \in Messages : fate[m] = what}

Promise == INSTANCE Delivery WITH
  turnOpen <- trace.openTurn # None,
  waiting  <- Elements(nextStep) \cup Elements(nextTurn),
  inHand   <- InHand,
  entered  <- With("entered"),
  gone     <- With("dropped") \cup With("discarded")

(* Through aborts in every await, hooks that rewrite or reject the batch,  *)
(* failed steps, withdrawn input and replays, every message is delivered   *)
(* at most once, inside the turn that claimed it, and a cancelled one never*)
(* (agent.ts:113-140 and 225-330, inbox.ts:58-78).                         *)
DeliveryKept == Promise!Spec
=============================================================================
