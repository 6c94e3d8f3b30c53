----------------------------- MODULE LinkPromise -----------------------------
(***************************************************************************)
(* What the broadcast of the battery voltage promises its clients: one     *)
(* voltage at a time.  The next is measured only when nobody still holds   *)
(* the one before, so what a client holds, in its radio or to be printed,  *)
(* is always the latest measured.  It may get none, and lose what it holds *)
(* without showing it; nothing is said of when any of this happens.        *)
(***************************************************************************)
CONSTANT Clients

VARIABLES
  channel,     \* "quiet", or "busy" with a broadcast
  held         \* what a client holds: "nothing" or the "latest" voltage

promiseVars == <<channel, held>>

NothingHeld == [c \in Clients |-> "nothing"]

PromiseInit ==
  /\ channel = "quiet"
  /\ held = NothingHeld

(* A voltage is measured and begins to be sent. *)
Measure ==
  /\ channel = "quiet"
  /\ held = NothingHeld
  /\ channel' = "busy"
  /\ UNCHANGED held

(* The broadcast ends; some clients have it. *)
Arrive ==
  /\ channel = "busy"
  /\ channel' = "quiet"
  /\ held' \in [Clients -> {"nothing", "latest"}]

(* A client shows its voltage or loses it. *)
LetGo(c) ==
  /\ held[c] = "latest"
  /\ held' = [held EXCEPT ![c] = "nothing"]
  /\ UNCHANGED channel

PromiseNext == Measure \/ Arrive \/ \E c \in Clients : LetGo(c)

PromiseSpec == PromiseInit /\ [][PromiseNext]_promiseVars
=============================================================================
