-------------------------------- MODULE Rf95 --------------------------------
(***************************************************************************)
(* The RH_RF95 driver as the LoRa sketches use it (RadioHead, a zip beside *)
(* the sketches): one receive buffer per radio, filled by the interrupt    *)
(* routine; receive mode entered by available(); a transmission that ends  *)
(* in its own interrupt.  A radio whose init() failed is driven like any   *)
(* other, and no interrupt ever comes from it.                             *)
(***************************************************************************)
EXTENDS Integers

CONSTANTS
  Nodes, Packets,
  None           \* no packet

ASSUME NoneAssumption == None \notin Packets

VARIABLES
  initOk,      \* did init() succeed on the node?
  mode,        \* the driver's _mode: "idle", "rx" or "tx"
  rxBuf        \* the valid packet in _buf, or None

radioVars == <<initOk, mode, rxBuf>>

RadioInit ==
  /\ initOk = [n \in Nodes |-> FALSE]
  /\ mode = [n \in Nodes |-> "idle"]
  /\ rxBuf = [n \in Nodes |-> None]

(* init() of a node just powered up. *)
init(n, ok) ==
  /\ initOk' = [initOk EXCEPT ![n] = ok]
  /\ mode' = [mode EXCEPT ![n] = "idle"]
  /\ rxBuf' = [rxBuf EXCEPT ![n] = None]

(* Mutant of available: the flag of the buffer is not looked at. *)
availableAnyway(n) == mode[n] # "tx"

(* available() listens from now on, unless a packet is being sent. *)
Listening(n) == [mode EXCEPT ![n] = IF @ = "tx" THEN @ ELSE "rx"]
available(n) == mode[n] # "tx" /\ rxBuf[n] # None

(* recv() of an available packet: it is copied out and the buffer freed. *)
recv(n) ==
  /\ available(n)
  /\ mode' = Listening(n)
  /\ rxBuf' = [rxBuf EXCEPT ![n] = None]
  /\ UNCHANGED initOk

(* recv() when there is nothing any more: false. *)
recvFailed(n) ==
  /\ ~available(n)
  /\ mode' = Listening(n)
  /\ UNCHANGED <<initOk, rxBuf>>

(* send() starts a transmission; waitPacketSent() waits for another mode. *)
Sending(n) == [mode EXCEPT ![n] = "tx"]

(* The radios a transmission reaches are those that listen when it begins.   *)
Tuned == {n \in Nodes : initOk[n] /\ mode[n] = "rx"}

(* The transmission of n ends and is received by the radios in heard. *)
Done(n, packet, heard) ==
  /\ initOk[n]
  /\ mode[n] = "tx"
  /\ mode' = [k \in Nodes |-> IF k = n \/ k \in heard THEN "idle" ELSE mode[k]]
  /\ rxBuf' = [k \in Nodes |-> IF k \in heard THEN packet ELSE rxBuf[k]]
  /\ UNCHANGED initOk

(* A packet with a wrong checksum empties the buffer of a radio that listens. *)
Garbled(n) ==
  /\ n \in Tuned
  /\ rxBuf' = [rxBuf EXCEPT ![n] = None]
  /\ UNCHANGED <<initOk, mode>>

RadioTypeOK ==
  /\ initOk \in [Nodes -> BOOLEAN]
  /\ mode \in [Nodes -> {"idle", "rx", "tx"}]
  /\ rxBuf \in [Nodes -> Packets \cup {None}]
=============================================================================
