---------------------------- MODULE FridgeSwitch ----------------------------
(***************************************************************************)
(* What a fridge controller promises about the power strip: a switch with  *)
(* hysteresis and a minimum on-time.  It goes on only on an averaged       *)
(* voltage above the upper threshold, off only on one below the lower      *)
(* threshold, and off only when it has been on for longer than Dwell.      *)
(* Nothing is said of how the voltage is measured, of the operator, or of  *)
(* the clock the time is read from.                                        *)
(***************************************************************************)
EXTENDS Integers

CONSTANTS Upper, Lower, Dwell

VARIABLES
  relay,       \* "on" or "off"
  voltage,     \* the average the last decision could see
  onAge        \* time since the switch was last turned on, up to Dwell + 1

switchVars == <<relay, voltage, onAge>>

SwitchInit ==
  /\ relay = "off"
  /\ voltage = 0
  /\ onAge = Dwell + 1

TurnOn ==
  /\ relay = "off"
  /\ relay' = "on"
  /\ voltage' > Upper
  /\ onAge' \in 0 .. Dwell + 1

TurnOff ==
  /\ relay = "on"
  /\ relay' = "off"
  /\ voltage' < Lower
  /\ onAge' = Dwell + 1

(* Time passes and averages come in; the strip stays as it is. *)
Hold ==
  /\ relay' = relay
  /\ voltage' \in Nat
  /\ onAge' \in onAge .. Dwell + 1

SwitchNext == TurnOn \/ TurnOff \/ Hold

SwitchSpec == SwitchInit /\ [][SwitchNext]_switchVars
=============================================================================
