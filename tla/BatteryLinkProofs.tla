------------------------- MODULE BatteryLinkProofs -------------------------
(***************************************************************************)
(* Theorems about the broadcast of the battery voltage, for any number of  *)
(* clients, any delays that are ordered as on the boards, and any sequence *)
(* of losses of power, of broadcasts and of packets in the buffers.        *)
(***************************************************************************)
EXTENDS BatteryLink, TLAPS

Places == {"off", "halted", "setup", "loop", "sending", "delay", "wait", "recv", "pause"}

LinkTypeInv == TypeOK /\ pc \in [Nodes -> Places]

-----------------------------------------------------------------------------
(* The radios. *)

OnTheAir == pc[Server] = "sending" /\ mode[Server] = "tx"

(* Only the server sends, and what it sends is the latest voltage; a board   *)
(* without power has no radio.                                               *)
AirInv ==
  /\ \A n \in Nodes : pc[n] = "off" => ~initOk[n]
  /\ \A c \in Clients : mode[c] # "tx"
  /\ mode[Server] = "tx" <=> air # None
  /\ air # None => pc[Server] = "sending" /\ air.latest
  /\ \A c \in tuned : pc[c] # "off"
  /\ pc[Server] = "delay" \/ (pc[Server] = "sending" /\ ~OnTheAir) => initOk[Server]

(* No delay is overslept by more than Slack.                                 *)
TimeInv ==
  /\ pc[Server] = "delay" => since[Server] <= Period + Slack
  /\ OnTheAir /\ initOk[Server] => since[Server] <= AirTime
  /\ \A c \in Clients : pc[c] = "pause" => since[c] <= Pause + Slack

-----------------------------------------------------------------------------
(* The buffers. *)

(* The server measures nothing for a while, and was last at a new place at   *)
(* most so long ago.                                                         *)
SilentFor(most) ==
  /\ pc[Server] # "loop" /\ ~OnTheAir
  /\ pc[Server] \in {"setup", "delay"} => since[Server] <= most

(* A broadcast in the buffer of a client came in its pause, or now.          *)
BufferedInv(c) == rxBuf[c] # None =>
  /\ pc[c] \in {"wait", "recv", "pause"}
  /\ rxBuf[c].latest
  /\ mode[c] = "rx" => pc[c] = "recv"
  /\ SilentFor(IF pc[c] = "pause" THEN since[c] ELSE Pause + Slack)
  /\ pc[c] = "wait" /\ ~InTime(c) /\ pc[Server] \in {"off", "setup", "delay"} =>
       since[Server] = 0

(* One that was received is shown before the pause is over.                  *)
ReceivedInv(c) == Received(c) =>
  /\ buf[c] \in Broadcasts /\ buf[c].latest
  /\ SilentFor(since[c] + Pause + Slack)

BufferInv == \A c \in Clients : BufferedInv(c) /\ ReceivedInv(c)

-----------------------------------------------------------------------------
(* The silence. *)

(* At most so long ago the last broadcast ended, and the one before.         *)
Cycle == Period + Slack + AirTime
Phase ==
  IF OnTheAir THEN Period + Slack + since[Server]
  ELSE IF pc[Server] = "loop" THEN Period + Slack
  ELSE IF pc[Server] = "delay" THEN since[Server] ELSE 0

(* At least so long ago the last pause of a client began.                    *)
Elapsed(c) == IF pc[c] = "wait" THEN Pause + since[c] ELSE since[c]

(* A client that missed fewer than two broadcasts since has not waited so    *)
(* long that there were two.                                                 *)
WaitInv(c) == missed[c] < 2 =>
  /\ pc[c] # "off" /\ Broadcasting /\ initOk[Server]
  /\ pc[c] \in {"wait", "pause"} /\ rxBuf[c] = None =>
       Elapsed(c) <= Phase + (IF missed[c] = 0 THEN 0 ELSE Cycle)
  /\ pc[c] = "wait" /\ rxBuf[c] # None => InTime(c)

SilenceInv == \A c \in Clients : WaitInv(c)

-----------------------------------------------------------------------------
(* Types. *)

LEMMA InitTyped == Init => LinkTypeInv
BY LinkAssumption, PacketAssumption, NoneAssumption
   DEF Init, LinkTypeInv, TypeOK, RadioInit, RadioTypeOK, Places

LEMMA GoesTyped ==
  ASSUME LinkTypeInv, NEW n \in Nodes, NEW from, NEW to \in Places, Goes(n, from, to),
         n = Server => to \in {"off", "halted", "setup", "loop", "sending", "delay"},
         n # Server => to \in {"off", "wait", "recv", "pause"}
  PROVE  /\ pc' \in [Nodes -> Places]
         /\ since' \in [Nodes -> 0 .. Timeout]
         /\ pc'[Server] \in {"off", "halted", "setup", "loop", "sending", "delay"}
         /\ \A c \in Clients : pc'[c] \in {"off", "wait", "recv", "pause"}
BY LinkAssumption DEF LinkTypeInv, TypeOK, Goes

LEMMA OutdatedTyped ==
  /\ \A p \in Packets \cup {None} : Outdated(p) \in Packets \cup {None}
  /\ \A p \in Broadcasts \cup {Garbage} : Outdated(p) \in Broadcasts \cup {Garbage}
BY PacketAssumption DEF Outdated, Broadcasts

LEMMA ServerTyped ==
  ASSUME LinkTypeInv, ServerStep
  PROVE  LinkTypeInv'
<1> USE LinkAssumption DEF Places
<1>1. CASE LcdStartup
  BY <1>1, GoesTyped DEF LcdStartup, LinkTypeInv, TypeOK, RadioTypeOK, radioVars
<1>2. CASE Server_sendBatteryStatus
  <2>1. rxBuf' \in [Nodes -> Packets \cup {None}]
    BY <1>2, OutdatedTyped DEF Server_sendBatteryStatus, LinkTypeInv, TypeOK, RadioTypeOK
  <2>2. buf' \in [Clients -> Broadcasts \cup {Garbage}]
    BY <1>2, OutdatedTyped DEF Server_sendBatteryStatus, LinkTypeInv, TypeOK
  <2>3. mode' \in [Nodes -> {"idle", "rx", "tx"}]
    BY <1>2 DEF Server_sendBatteryStatus, LinkTypeInv, TypeOK, RadioTypeOK, Sending
  <2>4. air' \in Broadcasts \cup {None} /\ tuned' \in SUBSET Clients
    BY <1>2 DEF Server_sendBatteryStatus, Broadcasts
  <2> QED
    BY <1>2, <2>1, <2>2, <2>3, <2>4, GoesTyped
       DEF Server_sendBatteryStatus, LinkTypeInv, TypeOK, RadioTypeOK
<1>3. CASE PacketSent
  BY <1>3, GoesTyped DEF PacketSent, LinkTypeInv, TypeOK, RadioTypeOK, radioVars
<1>4. CASE DelayOver
  BY <1>4, GoesTyped DEF DelayOver, LinkTypeInv, TypeOK, RadioTypeOK, radioVars
<1> QED
  BY <1>1, <1>2, <1>3, <1>4 DEF ServerStep

LEMMA ClientTyped ==
  ASSUME LinkTypeInv, NEW c \in Clients, ClientStep(c)
  PROVE  LinkTypeInv'
<1> USE LinkAssumption, PacketAssumption DEF Places
<1>0. c \in Nodes /\ c # Server
  OBVIOUS
<1>1. CASE Poll(c)
  BY <1>0, <1>1 DEF Poll, Listening, LinkTypeInv, TypeOK, RadioTypeOK
<1>2. CASE GotReply(c)
  <2>1. rxBuf[c] \in Broadcasts
    BY <1>0, <1>2 DEF GotReply, recv, available, LinkTypeInv, TypeOK, RadioTypeOK
  <2>2. RadioTypeOK'
    BY <1>0, <1>2 DEF GotReply, recv, Listening, LinkTypeInv, TypeOK, RadioTypeOK
  <2>3. /\ got' \in [Clients -> BOOLEAN]
        /\ buf' \in [Clients -> Broadcasts \cup {Garbage}]
        /\ missed' \in [Clients -> 0 .. 2]
    BY <1>2, <2>1 DEF GotReply, LinkTypeInv, TypeOK
  <2> QED
    BY <1>0, <1>2, <2>2, <2>3, GoesTyped DEF GotReply, LinkTypeInv, TypeOK
<1>3. CASE RecvFailed(c)
  <2>1. RadioTypeOK'
    BY <1>0, <1>3 DEF RecvFailed, recvFailed, Listening, LinkTypeInv, TypeOK, RadioTypeOK
  <2>2. /\ got' \in [Clients -> BOOLEAN]
        /\ buf' \in [Clients -> Broadcasts \cup {Garbage}]
    BY <1>3 DEF RecvFailed, LinkTypeInv, TypeOK
  <2> QED
    BY <1>0, <1>3, <2>1, <2>2, GoesTyped DEF RecvFailed, LinkTypeInv, TypeOK
<1>4. CASE NoReply(c)
  <2>1. /\ got' \in [Clients -> BOOLEAN]
        /\ buf' \in [Clients -> Broadcasts \cup {Garbage}]
    BY <1>4 DEF NoReply, LinkTypeInv, TypeOK
  <2> QED
    BY <1>0, <1>4, <2>1, GoesTyped
       DEF NoReply, LinkTypeInv, TypeOK, RadioTypeOK, radioVars
<1>5. CASE Show(c)
  BY <1>0, <1>5, GoesTyped DEF Show, LinkTypeInv, TypeOK, RadioTypeOK, radioVars
<1> QED
  BY <1>1, <1>2, <1>3, <1>4, <1>5 DEF ClientStep

LEMMA EnvironmentTyped ==
  ASSUME LinkTypeInv, Environment \/ Tick
  PROVE  LinkTypeInv'
<1> USE LinkAssumption, PacketAssumption DEF Places
<1>1. ASSUME NEW heard \in SUBSET tuned, Deliver(heard)
      PROVE  LinkTypeInv'
  <2>1. air \in Broadcasts \cup {None} /\ heard \subseteq Clients
    BY DEF LinkTypeInv, TypeOK
  <2>2. RadioTypeOK'
    BY <1>1, <2>1 DEF Deliver, Done, LinkTypeInv, TypeOK, RadioTypeOK
  <2>3. missed' \in [Clients -> 0 .. 2]
    BY <1>1 DEF Deliver, UpToTwo, LinkTypeInv, TypeOK
  <2> QED
    BY <1>1, <2>2, <2>3 DEF Deliver, LinkTypeInv, TypeOK
<1>2. ASSUME NEW c \in Clients, Noise(c)
      PROVE  LinkTypeInv'
  BY <1>2 DEF Noise, Garbled, linkVars, LinkTypeInv, TypeOK, RadioTypeOK
<1>3. ASSUME NEW n \in Nodes, NEW ok \in BOOLEAN, NEW found \in BOOLEAN, PowerOn(n, ok, found)
      PROVE  LinkTypeInv'
  <2>1. RadioTypeOK'
    BY <1>3 DEF PowerOn, init, LinkTypeInv, TypeOK, RadioTypeOK
  <2>2. pc' \in [Nodes -> Places] /\ since' \in [Nodes -> 0 .. Timeout]
    BY <1>3 DEF PowerOn, LinkTypeInv, TypeOK
  <2>3. /\ pc'[Server] \in {"off", "halted", "setup", "loop", "sending", "delay"}
        /\ \A c \in Clients : pc'[c] \in {"off", "wait", "recv", "pause"}
    BY <1>3 DEF PowerOn, LinkTypeInv, TypeOK
  <2> QED
    BY <1>3, <2>1, <2>2, <2>3 DEF PowerOn, LinkTypeInv, TypeOK
<1>4. ASSUME NEW n \in Nodes, PowerOff(n)
      PROVE  LinkTypeInv'
  <2>1. RadioTypeOK'
    BY <1>4 DEF PowerOff, init, LinkTypeInv, TypeOK, RadioTypeOK
  <2>2. pc' \in [Nodes -> Places] /\ since' \in [Nodes -> 0 .. Timeout]
    BY <1>4 DEF PowerOff, LinkTypeInv, TypeOK
  <2>3. /\ pc'[Server] \in {"off", "halted", "setup", "loop", "sending", "delay"}
        /\ \A c \in Clients : pc'[c] \in {"off", "wait", "recv", "pause"}
    BY <1>4 DEF PowerOff, LinkTypeInv, TypeOK
  <2>4. CASE n = Server
    BY <1>4, <2>1, <2>2, <2>3, <2>4 DEF PowerOff, LinkTypeInv, TypeOK
  <2>5. CASE n # Server
    <3>1. n \in Clients
      BY <2>5
    <3>2. /\ missed' = [missed EXCEPT ![n] = 2] /\ got' = [got EXCEPT ![n] = FALSE]
          /\ buf' = [buf EXCEPT ![n] = Garbage] /\ tuned' = tuned \ {n} /\ air' = air
      BY <1>4, <2>5 DEF PowerOff
    <3> QED
      BY <2>1, <2>2, <2>3, <3>1, <3>2 DEF LinkTypeInv, TypeOK
  <2> QED
    BY <2>4, <2>5
<1>5. CASE Tick
  <2>1. since' \in [Nodes -> 0 .. Timeout]
    BY <1>5 DEF Tick, Counts, LinkTypeInv, TypeOK
  <2> QED
    BY <1>5, <2>1 DEF Tick, LinkTypeInv, TypeOK, RadioTypeOK, radioVars
<1> QED
  BY <1>1, <1>2, <1>3, <1>4, <1>5 DEF Environment

LEMMA TypeStep ==
  ASSUME LinkTypeInv, [Next]_vars
  PROVE  LinkTypeInv'
<1>1. CASE UNCHANGED vars
  BY <1>1 DEF vars, radioVars, linkVars, LinkTypeInv, TypeOK, RadioTypeOK
<1> QED
  BY <1>1, ServerTyped, ClientTyped, EnvironmentTyped DEF Next

(* The radios, the single buffers and the places of all nodes have their     *)
(* types whatever is lost: TypeOK, for any number of clients.                *)
THEOREM LinkTypeCorrect == Spec => []TypeOK
<1>1. LinkTypeInv /\ [Next]_vars => LinkTypeInv'
  BY TypeStep
<1>2. LinkTypeInv => TypeOK
  BY DEF LinkTypeInv
<1> QED
  BY <1>1, <1>2, InitTyped, PTL DEF Spec

-----------------------------------------------------------------------------
(* What the steps of one node leave alone. *)

AsBefore(n) ==
  pc'[n] = pc[n] /\ since'[n] = since[n] /\ mode'[n] = mode[n] /\ rxBuf'[n] = rxBuf[n]
ShownAsBefore(c) == got'[c] = got[c] /\ buf'[c] = buf[c] /\ missed'[c] = missed[c]

LEMMA ClientLocal ==
  ASSUME LinkTypeInv, NEW c \in Clients, ClientStep(c)
  PROVE  /\ initOk' = initOk /\ air' = air /\ tuned' = tuned
         /\ pc[c] # "off" /\ pc'[c] \in {"wait", "recv", "pause"}
         /\ mode'[c] = mode[c] \/ mode'[c] = "rx"
         /\ \A n \in Nodes \ {c} : AsBefore(n)
         /\ \A k \in Clients \ {c} : ShownAsBefore(k)
<1> USE LinkAssumption DEF LinkTypeInv, TypeOK, RadioTypeOK, AsBefore, ShownAsBefore, Goes
<1>0. c \in Nodes /\ c # Server
  OBVIOUS
<1>1. CASE Poll(c)
  BY <1>0, <1>1 DEF Poll, Listening
<1>2. CASE GotReply(c)
  BY <1>0, <1>2 DEF GotReply, recv, Listening
<1>3. CASE RecvFailed(c)
  BY <1>0, <1>3 DEF RecvFailed, recvFailed, Listening
<1>4. CASE NoReply(c)
  BY <1>0, <1>4 DEF NoReply, radioVars
<1>5. CASE Show(c)
  BY <1>0, <1>5 DEF Show, radioVars
<1> QED
  BY <1>1, <1>2, <1>3, <1>4, <1>5 DEF ClientStep

LEMMA ServerLocal ==
  ASSUME LinkTypeInv, LcdStartup \/ PacketSent \/ DelayOver
  PROVE  /\ UNCHANGED <<radioVars, air, tuned, got, buf, missed>>
         /\ pc[Server] # "off" /\ pc'[Server] # "off" /\ since'[Server] = 0
         /\ \A n \in Nodes \ {Server} : AsBefore(n)
         /\ \A k \in Clients : ShownAsBefore(k)
<1> USE LinkAssumption
    DEF LinkTypeInv, TypeOK, RadioTypeOK, AsBefore, ShownAsBefore, Goes, radioVars
<1>1. CASE LcdStartup
  BY <1>1 DEF LcdStartup
<1>2. CASE PacketSent
  BY <1>2 DEF PacketSent
<1>3. CASE DelayOver
  BY <1>3 DEF DelayOver
<1> QED
  BY <1>1, <1>2, <1>3

LEMMA SendLocal ==
  ASSUME LinkTypeInv, Server_sendBatteryStatus
  PROVE  /\ pc[Server] = "loop" /\ pc'[Server] = "sending" /\ since'[Server] = 0
         /\ mode'[Server] = "tx" /\ air' = [latest |-> TRUE] /\ air' # None
         /\ initOk' = initOk /\ got' = got /\ missed' = missed
         /\ \A c \in Clients : pc'[c] = pc[c] /\ since'[c] = since[c] /\ mode'[c] = mode[c]
         /\ \A n \in Nodes : rxBuf'[n] = Outdated(rxBuf[n])
         /\ \A c \in tuned' : c \in Clients /\ initOk[c]
<1>1. [latest |-> TRUE] \in Packets
  BY PacketAssumption DEF Broadcasts
<1> QED
  BY <1>1, LinkAssumption, NoneAssumption
     DEF Server_sendBatteryStatus, Goes, Sending, Tuned, LinkTypeInv, TypeOK, RadioTypeOK

LEMMA DeliverLocal ==
  ASSUME LinkTypeInv, NEW heard \in SUBSET tuned, Deliver(heard)
  PROVE  /\ since[Server] = AirTime /\ initOk[Server] /\ mode[Server] = "tx"
         /\ mode'[Server] = "idle" /\ air' = None /\ tuned' = {}
         /\ UNCHANGED <<pc, since, got, buf, initOk>>
         /\ \A c \in heard : mode'[c] = "idle" /\ rxBuf'[c] = air /\ missed'[c] = missed[c]
         /\ \A c \in Clients \ heard :
              mode'[c] = mode[c] /\ rxBuf'[c] = rxBuf[c] /\ missed'[c] = UpToTwo(missed[c])
BY LinkAssumption DEF Deliver, Done, LinkTypeInv, TypeOK, RadioTypeOK

LEMMA NoiseLocal ==
  ASSUME LinkTypeInv, NEW c \in Clients, Noise(c)
  PROVE  /\ UNCHANGED linkVars /\ initOk' = initOk /\ mode' = mode
         /\ mode[c] = "rx" /\ rxBuf'[c] = None
         /\ \A n \in Nodes \ {c} : rxBuf'[n] = rxBuf[n]
BY LinkAssumption DEF Noise, Garbled, Tuned, LinkTypeInv, TypeOK, RadioTypeOK

LEMMA PowerOnLocal ==
  ASSUME LinkTypeInv, NEW n \in Nodes, NEW ok \in BOOLEAN, NEW found \in BOOLEAN,
         PowerOn(n, ok, found)
  PROVE  /\ UNCHANGED <<air, tuned, got, buf, missed>>
         /\ pc[n] = "off" /\ since[n] > 0 /\ since'[n] = 0
         /\ pc'[n] \in (IF n = Server THEN {"setup", "halted"} ELSE {"wait"})
         /\ mode'[n] = "idle" /\ rxBuf'[n] = None
         /\ \A k \in Nodes \ {n} : AsBefore(k) /\ initOk'[k] = initOk[k]
         /\ \A c \in Clients : ShownAsBefore(c)
BY LinkAssumption
   DEF PowerOn, init, LinkTypeInv, TypeOK, RadioTypeOK, AsBefore, ShownAsBefore

LEMMA PowerOffLocal ==
  ASSUME LinkTypeInv, NEW n \in Nodes, PowerOff(n)
  PROVE  /\ pc'[n] = "off" /\ since'[n] = 0 /\ initOk'[n] = FALSE
         /\ mode'[n] = "idle" /\ rxBuf'[n] = None
         /\ \A k \in Nodes \ {n} : AsBefore(k) /\ initOk'[k] = initOk[k]
         /\ n = Server => /\ air' = None /\ tuned' = {} /\ UNCHANGED <<got, buf>>
                          /\ \A c \in Clients : missed'[c] = 2
         /\ n # Server => /\ air' = air /\ tuned' = tuned \ {n}
                          /\ missed'[n] = 2 /\ got'[n] = FALSE
                          /\ \A c \in Clients \ {n} : ShownAsBefore(c)
<1>1. /\ pc'[n] = "off" /\ since'[n] = 0 /\ initOk'[n] = FALSE
      /\ mode'[n] = "idle" /\ rxBuf'[n] = None
      /\ \A k \in Nodes \ {n} : AsBefore(k) /\ initOk'[k] = initOk[k]
  BY LinkAssumption DEF PowerOff, init, LinkTypeInv, TypeOK, RadioTypeOK, AsBefore
<1>2. CASE n = Server
  BY <1>1, <1>2 DEF PowerOff
<1>3. CASE n # Server
  <2>1. n \in Clients
    BY <1>3, LinkAssumption
  <2>2. /\ missed' = [missed EXCEPT ![n] = 2] /\ got' = [got EXCEPT ![n] = FALSE]
        /\ buf' = [buf EXCEPT ![n] = Garbage] /\ tuned' = tuned \ {n} /\ air' = air
    BY <1>3 DEF PowerOff
  <2> QED
    BY <1>1, <1>3, <2>1, <2>2 DEF LinkTypeInv, TypeOK, ShownAsBefore
<1> QED
  BY <1>2, <1>3

LEMMA TickLocal ==
  ASSUME LinkTypeInv, Tick
  PROVE  /\ UNCHANGED <<radioVars, pc, air, tuned, got, buf, missed>>
         /\ ~ServerBusy /\ \A c \in Clients : ~ClientBusy(c)
         /\ \A n \in Nodes : since'[n] \in {since[n], since[n] + 1}
         /\ \A n \in Nodes : pc[n] \notin {"off", "halted"} =>
              since'[n] = IF since[n] < Timeout THEN since[n] + 1 ELSE since[n]
BY DEF Tick, Counts, LinkTypeInv, TypeOK, radioVars

-----------------------------------------------------------------------------
(* The radios and the delays. *)

LEMMA ClientsAir ==
  ASSUME LinkTypeInv, AirInv, NEW c \in Clients, ClientStep(c)
  PROVE  AirInv'
<1>1. c \in Nodes /\ c # Server /\ Server \in Nodes /\ Clients \subseteq Nodes
  BY LinkAssumption
<1>2. \A k \in Clients : mode'[k] # "tx"
  BY <1>1, ClientLocal DEF AirInv, AsBefore
<1>3. \A n \in Nodes : pc'[n] = "off" => ~initOk'[n]
  BY <1>1, ClientLocal DEF AirInv, AsBefore
<1>4. \A k \in tuned' : pc'[k] # "off"
  BY <1>1, ClientLocal DEF AirInv, AsBefore, LinkTypeInv, TypeOK
<1>5. AsBefore(Server) /\ air' = air /\ initOk' = initOk
  BY <1>1, ClientLocal
<1> QED
  BY <1>2, <1>3, <1>4, <1>5 DEF AirInv, OnTheAir, AsBefore

LEMMA AirStep ==
  ASSUME LinkTypeInv, AirInv, [Next]_vars
  PROVE  AirInv'
<1>0. Server \in Nodes /\ Clients \subseteq Nodes /\ Server \notin Clients
      /\ tuned \subseteq Clients
  BY LinkAssumption DEF LinkTypeInv, TypeOK
<1>1. CASE LcdStartup
  BY <1>0, <1>1, ServerLocal DEF LcdStartup, Goes, AirInv, OnTheAir, AsBefore, radioVars, LinkTypeInv
<1>2. CASE Server_sendBatteryStatus
  <2>1. \A c \in tuned' : pc'[c] # "off"
    BY <1>0, <1>2, SendLocal DEF AirInv
  <2>2. air'.latest
    BY <1>2, SendLocal
  <2>3. \A n \in Nodes : pc'[n] = "off" => ~initOk'[n]
    BY <1>2, SendLocal, LinkAssumption DEF AirInv
  <2> QED
    BY <1>0, <1>2, <2>1, <2>2, <2>3, SendLocal DEF AirInv, OnTheAir
<1>3. CASE PacketSent
  <2>1. pc[Server] = "sending" /\ mode[Server] # "tx" /\ pc'[Server] = "delay"
    BY <1>0, <1>3 DEF PacketSent, Goes, LinkTypeInv
  <2> QED
    BY <1>0, <1>3, <2>1, ServerLocal DEF AirInv, OnTheAir, AsBefore, radioVars
<1>4. CASE DelayOver
  BY <1>0, <1>4, ServerLocal DEF DelayOver, Goes, AirInv, OnTheAir, AsBefore, radioVars, LinkTypeInv
<1>5. ASSUME NEW c \in Clients, ClientStep(c)
      PROVE  AirInv'
  BY <1>5, ClientsAir
<1>6. ASSUME NEW heard \in SUBSET tuned, Deliver(heard)
      PROVE  AirInv'
  BY <1>0, <1>6, DeliverLocal DEF AirInv, OnTheAir
<1>7. ASSUME NEW c \in Clients, Noise(c)
      PROVE  AirInv'
  BY <1>0, <1>7, NoiseLocal DEF AirInv, OnTheAir, linkVars
<1>8. ASSUME NEW n \in Nodes, NEW ok \in BOOLEAN, NEW found \in BOOLEAN, PowerOn(n, ok, found)
      PROVE  AirInv'
  <2>1. CASE n = Server
    BY <1>0, <1>8, <2>1, PowerOnLocal DEF AirInv, OnTheAir, AsBefore
  <2>2. CASE n # Server
    BY <1>0, <1>8, <2>2, PowerOnLocal, LinkAssumption DEF AirInv, OnTheAir, AsBefore
  <2> QED
    BY <2>1, <2>2
<1>9. ASSUME NEW n \in Nodes, PowerOff(n)
      PROVE  AirInv'
  <2>1. CASE n = Server
    BY <1>0, <1>9, <2>1, PowerOffLocal DEF AirInv, OnTheAir, AsBefore
  <2>2. CASE n # Server
    <3>1. AsBefore(Server) /\ initOk'[Server] = initOk[Server] /\ air' = air /\ tuned' = tuned \ {n}
      BY <1>0, <1>9, <2>2, PowerOffLocal
    <3>2. \A k \in Nodes : k # n => AsBefore(k) /\ initOk'[k] = initOk[k]
      BY <1>9, PowerOffLocal
    <3>3. initOk'[n] = FALSE /\ mode'[n] = "idle"
      BY <1>9, PowerOffLocal
    <3>4. \A k \in Nodes : pc'[k] = "off" => ~initOk'[k]
      BY <3>2, <3>3 DEF AirInv, AsBefore
    <3>5. \A c \in Clients : mode'[c] # "tx"
      BY <1>0, <3>2, <3>3 DEF AirInv, AsBefore
    <3> QED
      BY <1>0, <3>1, <3>2, <3>4, <3>5 DEF AirInv, OnTheAir, AsBefore
  <2> QED
    BY <2>1, <2>2
<1>10. CASE Tick
  BY <1>10, TickLocal DEF AirInv, OnTheAir, radioVars
<1>11. CASE UNCHANGED vars
  BY <1>11 DEF AirInv, OnTheAir, vars, radioVars, linkVars
<1> QED
  BY <1>1, <1>2, <1>3, <1>4, <1>5, <1>6, <1>7, <1>8, <1>9, <1>10, <1>11
     DEF Next, ServerStep, Environment

LEMMA TimeStep ==
  ASSUME LinkTypeInv, TimeInv, [Next]_vars
  PROVE  TimeInv'
<1>0. /\ Server \in Nodes /\ Clients \subseteq Nodes /\ Server \notin Clients
      /\ tuned \subseteq Clients /\ Nodes = Clients \cup {Server}
      /\ {Period, Pause, AirTime, Slack, Timeout} \subseteq Nat
  BY LinkAssumption DEF LinkTypeInv, TypeOK
<1>1. CASE LcdStartup \/ PacketSent \/ DelayOver
  <2>1. OnTheAir' => OnTheAir
    BY <1>0, <1>1, ServerLocal
       DEF LcdStartup, PacketSent, DelayOver, Goes, OnTheAir, LinkTypeInv
  <2> QED
    BY <1>0, <1>1, <2>1, ServerLocal DEF TimeInv, AsBefore
<1>2. CASE Server_sendBatteryStatus
  BY <1>0, <1>2, SendLocal DEF TimeInv, OnTheAir
<1>3. ASSUME NEW c \in Clients, ClientStep(c)
      PROVE  TimeInv'
  <2>1. AsBefore(Server) /\ initOk' = initOk
        /\ \A k \in Clients \ {c} : AsBefore(k)
    BY <1>0, <1>3, ClientLocal
  <2>2. pc'[c] = "pause" => since'[c] = 0
    BY <1>0, <1>3 DEF ClientStep, Poll, GotReply, RecvFailed, NoReply, Show, Goes, LinkTypeInv, TypeOK
  <2> QED
    BY <1>0, <2>1, <2>2 DEF TimeInv, OnTheAir, AsBefore
<1>4. ASSUME NEW heard \in SUBSET tuned, Deliver(heard)
      PROVE  TimeInv'
  BY <1>0, <1>4, DeliverLocal DEF TimeInv, OnTheAir
<1>5. ASSUME NEW c \in Clients, Noise(c)
      PROVE  TimeInv'
  BY <1>5, NoiseLocal DEF TimeInv, OnTheAir, linkVars
<1>6. ASSUME NEW n \in Nodes, NEW ok \in BOOLEAN, NEW found \in BOOLEAN, PowerOn(n, ok, found)
      PROVE  TimeInv'
  BY <1>0, <1>6, PowerOnLocal DEF TimeInv, OnTheAir, AsBefore
<1>7. ASSUME NEW n \in Nodes, PowerOff(n)
      PROVE  TimeInv'
  BY <1>0, <1>7, PowerOffLocal DEF TimeInv, OnTheAir, AsBefore
<1>8. CASE Tick
  <2> USE <1>0, <1>8, TickLocal DEF LinkTypeInv, TypeOK, RadioTypeOK
  <2>1. pc[Server] = "delay" => since'[Server] <= Period + Slack
    BY DEF ServerBusy, TimeInv
  <2>2. OnTheAir /\ initOk[Server] => since'[Server] <= AirTime
    BY DEF ServerBusy, TimeInv, OnTheAir
  <2>3. \A c \in Clients : pc[c] = "pause" => since'[c] <= Pause + Slack
    BY DEF ClientBusy, PauseOver, TimeInv
  <2> QED
    BY <2>1, <2>2, <2>3 DEF TimeInv, OnTheAir, radioVars
<1>9. CASE UNCHANGED vars
  BY <1>9 DEF TimeInv, OnTheAir, vars, radioVars, linkVars
<1> QED
  BY <1>1, <1>2, <1>3, <1>4, <1>5, <1>6, <1>7, <1>8, <1>9
     DEF Next, ServerStep, Environment

-----------------------------------------------------------------------------
(* The buffers. *)

LEMMA Delays ==
  /\ {StartUp, Period, Timeout, Pause, AirTime, Slack} \subseteq Nat
  /\ 0 < Period /\ 0 < Pause /\ Timeout = 2 * Period
  /\ 2 * Slack + 2 * AirTime < Pause
  /\ 2 * Pause + 2 * Slack < StartUp /\ StartUp < Period
BY LinkAssumption

AllFree == \A c \in Clients : rxBuf[c] = None /\ ~Received(c)

(* By the time the server goes on to its next measurement, no client is left *)
(* with a broadcast it has not shown.                                        *)
LEMMA FreeInTime ==
  ASSUME LinkTypeInv, TimeInv, BufferInv,
         \/ pc[Server] = "loop"
         \/ OnTheAir
         \/ pc[Server] = "setup" /\ since[Server] >= StartUp
         \/ pc[Server] = "delay" /\ since[Server] >= Period
  PROVE  AllFree
<1> SUFFICES ASSUME NEW c \in Clients
             PROVE  rxBuf[c] = None /\ ~Received(c)
  BY DEF AllFree
<1>1. /\ since[Server] \in Nat /\ since[c] \in Nat
      /\ pc[c] = "pause" => since[c] <= Pause + Slack
  BY LinkAssumption DEF LinkTypeInv, TypeOK, TimeInv
<1>2. \A most \in Nat : SilentFor(most) => most > 2 * Pause + 2 * Slack
  BY <1>1, Delays DEF SilentFor
<1>3. rxBuf[c] = None
  BY <1>1, <1>2, Delays DEF BufferInv, BufferedInv
<1>4. ~Received(c)
  BY <1>1, <1>2, Delays DEF BufferInv, ReceivedInv, Received
<1> QED
  BY <1>3, <1>4

LEMMA ServerBuffer ==
  ASSUME LinkTypeInv, AirInv, TimeInv, BufferInv, ServerStep
  PROVE  BufferInv'
<1>0. /\ Server \in Nodes /\ Clients \subseteq Nodes /\ Server \notin Clients
      /\ since \in [Nodes -> Nat]
  BY LinkAssumption DEF LinkTypeInv, TypeOK
<1>1. CASE LcdStartup \/ DelayOver
  <2>1. AllFree
    BY <1>1, FreeInTime DEF LcdStartup, DelayOver, PeriodOver, Goes
  <2>2. AllFree'
    BY <1>0, <1>1, <2>1, ServerLocal DEF AllFree, Received, AsBefore, ShownAsBefore
  <2> QED
    BY <2>2 DEF AllFree, BufferInv, BufferedInv, ReceivedInv
<1>2. CASE Server_sendBatteryStatus
  <2>1. AllFree
    BY <1>2, SendLocal, FreeInTime
  <2>2. AllFree'
    BY <1>0, <1>2, <2>1, SendLocal DEF AllFree, Received, Outdated
  <2> QED
    BY <2>2 DEF AllFree, BufferInv, BufferedInv, ReceivedInv
<1>3. CASE PacketSent
  <2>1. pc[Server] = "sending" /\ pc'[Server] = "delay" /\ since'[Server] = 0 /\ ~OnTheAir'
    BY <1>0, <1>3 DEF PacketSent, Goes, OnTheAir, LinkTypeInv, TypeOK
  <2>2. \A most \in Nat : SilentFor(most)'
    BY <2>1 DEF SilentFor
  <2>3. ASSUME NEW c \in Clients
        PROVE  BufferedInv(c)' /\ ReceivedInv(c)'
    <3>1. /\ AsBefore(c) /\ buf'[c] = buf[c] /\ got'[c] = got[c] /\ BufferedInv(c) /\ ReceivedInv(c)
          /\ since[c] \in Nat
      BY <1>0, <1>3, <2>3, ServerLocal DEF ShownAsBefore, BufferInv
    <3>2. BufferedInv(c)'
      BY <2>1, <2>2, <3>1, Delays DEF BufferedInv, AsBefore
    <3>3. ReceivedInv(c)'
      BY <2>2, <3>1, Delays DEF ReceivedInv, Received, AsBefore
    <3> QED
      BY <3>2, <3>3
  <2> QED
    BY <2>3 DEF BufferInv
<1> QED
  BY <1>1, <1>2, <1>3 DEF ServerStep

LEMMA ClientBuffer ==
  ASSUME LinkTypeInv, AirInv, TimeInv, BufferInv, NEW c \in Clients, ClientStep(c)
  PROVE  BufferInv'
<1>0. /\ Server \in Nodes /\ c \in Nodes /\ c # Server /\ Clients \subseteq Nodes
      /\ since \in [Nodes -> Nat] /\ since[c] \in Nat
      /\ pc \in [Nodes -> Places] /\ mode \in [Nodes -> {"idle", "rx", "tx"}]
      /\ rxBuf \in [Nodes -> Packets \cup {None}] /\ mode[c] # "tx"
      /\ got \in [Clients -> BOOLEAN]
      /\ buf \in [Clients -> Broadcasts \cup {Garbage}]
  BY LinkAssumption DEF LinkTypeInv, TypeOK, RadioTypeOK, AirInv
<1>1. AsBefore(Server)
  BY <1>0, ClientLocal
<1>2. \A most : SilentFor(most)' <=> SilentFor(most)
  BY <1>1 DEF SilentFor, OnTheAir, AsBefore
<1>3. \A most, more \in Nat : SilentFor(most) /\ most <= more => SilentFor(more)
  BY <1>0 DEF SilentFor
<1>4. ASSUME NEW k \in Clients, k # c
      PROVE  BufferedInv(k)' /\ ReceivedInv(k)'
  <2>1. AsBefore(k) /\ ShownAsBefore(k) /\ BufferedInv(k) /\ ReceivedInv(k)
    BY <1>0, <1>4, ClientLocal DEF BufferInv
  <2>2. BufferedInv(k)'
    BY <1>1, <1>2, <2>1 DEF BufferedInv, AsBefore, InTime
  <2>3. ReceivedInv(k)'
    BY <1>2, <2>1 DEF ReceivedInv, Received, AsBefore, ShownAsBefore
  <2> QED
    BY <2>2, <2>3
<1>5. BufferedInv(c) /\ ReceivedInv(c)
      /\ (pc[c] = "pause" => since[c] <= Pause + Slack)
  BY DEF BufferInv, TimeInv
<1>6. ASSUME Poll(c)
      PROVE  BufferedInv(c)' /\ ReceivedInv(c)'
  <2>1. /\ pc[c] = "wait" /\ InTime(c) /\ mode'[c] = "rx" /\ rxBuf'[c] = rxBuf[c]
        /\ pc'[c] = IF available(c) THEN "recv" ELSE "wait"
        /\ since'[c] = since[c]
    BY <1>0, <1>6 DEF Poll, Listening
  <2>2. BufferedInv(c)'
    BY <1>0, <1>2, <1>5, <2>1 DEF BufferedInv, InTime, available
  <2>3. ReceivedInv(c)'
    BY <2>1 DEF ReceivedInv, Received
  <2> QED
    BY <2>2, <2>3
<1>7. ASSUME GotReply(c)
      PROVE  BufferedInv(c)' /\ ReceivedInv(c)'
  <2>1. /\ pc[c] = "recv" /\ pc'[c] = "pause" /\ since'[c] = 0 /\ rxBuf[c] # None
        /\ rxBuf'[c] = None /\ buf'[c] = rxBuf[c]
    BY <1>0, <1>7 DEF GotReply, Goes, recv, available
  <2>2. rxBuf[c] \in Broadcasts
    BY <1>0, <2>1, PacketAssumption
  <2>3. BufferedInv(c)'
    BY <2>1 DEF BufferedInv
  <2>4. ReceivedInv(c)'
    BY <1>2, <1>5, <2>1, <2>2, Delays DEF ReceivedInv, BufferedInv
  <2> QED
    BY <2>3, <2>4
<1>8. ASSUME RecvFailed(c)
      PROVE  BufferedInv(c)' /\ ReceivedInv(c)'
  <2>1. rxBuf'[c] = None /\ got'[c] = FALSE
    BY <1>0, <1>8 DEF RecvFailed, recvFailed, available
  <2> QED
    BY <2>1 DEF BufferedInv, ReceivedInv, Received
<1>9. ASSUME NoReply(c)
      PROVE  BufferedInv(c)' /\ ReceivedInv(c)'
  <2>1. /\ pc[c] = "wait" /\ ~InTime(c) /\ pc'[c] = "pause" /\ since'[c] = 0
        /\ rxBuf'[c] = rxBuf[c] /\ mode'[c] = mode[c] /\ got'[c] = FALSE
    BY <1>0, <1>9 DEF NoReply, Goes, radioVars
  <2>2. rxBuf[c] # None => SilentFor(0)
    BY <1>0, <1>5, <2>1 DEF BufferedInv, SilentFor
  <2>3. BufferedInv(c)'
    BY <1>2, <1>5, <2>1, <2>2 DEF BufferedInv
  <2>4. ReceivedInv(c)'
    BY <2>1 DEF ReceivedInv, Received
  <2> QED
    BY <2>3, <2>4
<1>10. ASSUME Show(c)
      PROVE  BufferedInv(c)' /\ ReceivedInv(c)'
  <2>1. /\ pc[c] = "pause" /\ pc'[c] = "wait" /\ since'[c] = 0
        /\ rxBuf'[c] = rxBuf[c] /\ mode'[c] = mode[c]
    BY <1>0, <1>10 DEF Show, Goes, radioVars
  <2>2. SilentFor(since[c]) => SilentFor(Pause + Slack)
    BY <1>0, <1>3, <1>5, <2>1, Delays
  <2>3. BufferedInv(c)'
    BY <1>2, <1>5, <2>1, <2>2, Delays DEF BufferedInv, InTime
  <2>4. ReceivedInv(c)'
    BY <2>1 DEF ReceivedInv, Received
  <2> QED
    BY <2>3, <2>4
<1>11. BufferedInv(c)' /\ ReceivedInv(c)'
  BY <1>6, <1>7, <1>8, <1>9, <1>10 DEF ClientStep
<1> QED
  BY <1>4, <1>11 DEF BufferInv

LEMMA DeliverBuffer ==
  ASSUME LinkTypeInv, AirInv, TimeInv, BufferInv, NEW heard \in SUBSET tuned, Deliver(heard)
  PROVE  BufferInv'
<1>0. heard \subseteq Clients
  BY DEF LinkTypeInv, TypeOK
<1>1. /\ pc[Server] = "sending" /\ OnTheAir /\ air.latest /\ air # None
      /\ mode'[Server] = "idle" /\ pc' = pc /\ since' = since
  BY DeliverLocal DEF AirInv, OnTheAir
<1>2. AllFree
  BY <1>1, FreeInTime
<1>3. \A most : SilentFor(most)'
  BY <1>1 DEF SilentFor, OnTheAir
<1> SUFFICES ASSUME NEW c \in Clients
             PROVE  BufferedInv(c)' /\ ReceivedInv(c)'
  BY DEF BufferInv
<1>4. ReceivedInv(c)'
  BY <1>2, DeliverLocal DEF ReceivedInv, AllFree, Received
<1>5. CASE c \in heard
  <2>1. pc[c] \in {"wait", "recv", "pause"}
    BY <1>5 DEF AirInv, LinkTypeInv, TypeOK
  <2>2. rxBuf'[c] = air /\ mode'[c] = "idle"
    BY <1>5, DeliverLocal
  <2>3. BufferedInv(c)'
    BY <1>1, <1>3, <2>1, <2>2 DEF BufferedInv
  <2> QED
    BY <1>4, <2>3
<1>6. CASE c \notin heard
  BY <1>0, <1>2, <1>4, <1>6, DeliverLocal DEF AllFree, BufferedInv
<1> QED
  BY <1>5, <1>6

LEMMA PowerOnBuffer ==
  ASSUME LinkTypeInv, AirInv, TimeInv, BufferInv,
         NEW n \in Nodes, NEW ok \in BOOLEAN, NEW found \in BOOLEAN, PowerOn(n, ok, found)
  PROVE  BufferInv'
<1>0. /\ Server \in Nodes /\ Clients \subseteq Nodes /\ Server \notin Clients
      /\ since \in [Nodes -> Nat]
  BY LinkAssumption DEF LinkTypeInv, TypeOK
<1> SUFFICES ASSUME NEW c \in Clients
             PROVE  BufferedInv(c)' /\ ReceivedInv(c)'
  BY DEF BufferInv
<1>1. /\ BufferedInv(c) /\ ReceivedInv(c) /\ ShownAsBefore(c)
      /\ since[c] \in Nat
  BY <1>0, PowerOnLocal DEF BufferInv
<1>2. CASE n = Server
  <2>1. /\ pc[Server] = "off" /\ since[Server] > 0 /\ since'[Server] = 0
        /\ pc'[Server] \in {"setup", "halted"} /\ AsBefore(c)
    BY <1>0, <1>2, PowerOnLocal
  <2>2. \A most \in Nat : SilentFor(most)'
    BY <2>1 DEF SilentFor, OnTheAir
  <2>3. BufferedInv(c)'
    BY <1>1, <2>1, <2>2, Delays DEF BufferedInv, AsBefore
  <2>4. ReceivedInv(c)'
    BY <1>1, <2>1, <2>2, Delays DEF ReceivedInv, Received, AsBefore, ShownAsBefore
  <2> QED
    BY <2>3, <2>4
<1>3. CASE n = c
  <2>1. rxBuf'[c] = None /\ pc'[c] = "wait"
    BY <1>0, <1>3, PowerOnLocal
  <2> QED
    BY <2>1 DEF BufferedInv, ReceivedInv, Received
<1>4. CASE n # Server /\ n # c
  <2>1. AsBefore(c) /\ AsBefore(Server)
    BY <1>0, <1>4, PowerOnLocal
  <2> QED
    BY <1>1, <2>1
       DEF BufferedInv, ReceivedInv, Received, AsBefore, ShownAsBefore, SilentFor, OnTheAir, InTime
<1> QED
  BY <1>2, <1>3, <1>4

LEMMA PowerOffBuffer ==
  ASSUME LinkTypeInv, AirInv, TimeInv, BufferInv, NEW n \in Nodes, PowerOff(n)
  PROVE  BufferInv'
<1>0. /\ Server \in Nodes /\ Clients \subseteq Nodes /\ Server \notin Clients
      /\ since \in [Nodes -> Nat]
  BY LinkAssumption DEF LinkTypeInv, TypeOK
<1> SUFFICES ASSUME NEW c \in Clients
             PROVE  BufferedInv(c)' /\ ReceivedInv(c)'
  BY DEF BufferInv
<1>1. BufferedInv(c) /\ ReceivedInv(c) /\ since[c] \in Nat
  BY <1>0 DEF BufferInv
<1>2. CASE n = Server
  <2>1. /\ pc'[Server] = "off" /\ since'[Server] = 0 /\ AsBefore(c)
        /\ got' = got /\ buf' = buf
    BY <1>0, <1>2, PowerOffLocal
  <2>2. \A most \in Nat : SilentFor(most)'
    BY <2>1 DEF SilentFor, OnTheAir
  <2>3. BufferedInv(c)'
    BY <1>1, <2>1, <2>2, Delays DEF BufferedInv, AsBefore
  <2>4. ReceivedInv(c)'
    BY <1>1, <2>1, <2>2, Delays DEF ReceivedInv, Received, AsBefore
  <2> QED
    BY <2>3, <2>4
<1>3. CASE n = c
  <2>1. rxBuf'[c] = None /\ pc'[c] = "off"
    BY <1>3, PowerOffLocal
  <2> QED
    BY <2>1 DEF BufferedInv, ReceivedInv, Received
<1>4. CASE n # Server /\ n # c
  <2>1. AsBefore(c) /\ AsBefore(Server) /\ ShownAsBefore(c)
    BY <1>0, <1>4, PowerOffLocal
  <2> QED
    BY <1>1, <2>1
       DEF BufferedInv, ReceivedInv, Received, AsBefore, ShownAsBefore, SilentFor, OnTheAir, InTime
<1> QED
  BY <1>2, <1>3, <1>4

(* A client with a broadcast in its buffer takes it before the next tick,    *)
(* unless it is in its pause.                                                *)
LEMMA TickWaits ==
  ASSUME LinkTypeInv, AirInv, BufferInv, Tick, NEW c \in Clients
  PROVE  /\ pc[c] # "recv"
         /\ pc[c] = "wait" => InTime(c)
         /\ rxBuf[c] # None => pc[c] = "pause"
BY TickLocal DEF ClientBusy, BufferInv, BufferedInv, available

LEMMA TickBuffer ==
  ASSUME LinkTypeInv, AirInv, TimeInv, BufferInv, Tick
  PROVE  BufferInv'
<1>0. /\ Server \in Nodes /\ Clients \subseteq Nodes /\ since \in [Nodes -> Nat]
  BY LinkAssumption DEF LinkTypeInv, TypeOK
<1>1. UNCHANGED <<pc, mode, rxBuf, got, buf>>
  BY TickLocal DEF radioVars
<1> SUFFICES ASSUME NEW c \in Clients
             PROVE  BufferedInv(c)' /\ ReceivedInv(c)'
  BY DEF BufferInv
<1>2. BufferedInv(c) /\ ReceivedInv(c) /\ since[c] \in Nat /\ since[Server] \in Nat
  BY <1>0 DEF BufferInv
<1>3. pc[c] = "pause" => since'[c] = since[c] + 1
  <2> SUFFICES ASSUME pc[c] = "pause"
               PROVE  since'[c] = since[c] + 1
    OBVIOUS
  <2>1. since[c] < Timeout
    BY <1>2, Delays DEF TimeInv
  <2> QED
    BY <1>0, <2>1, TickLocal
<1>4. since'[Server] \in {since[Server], since[Server] + 1}
  BY <1>0, TickLocal
<1>5. \A most \in Nat : SilentFor(most) =>
        /\ pc'[Server] # "loop" /\ ~OnTheAir'
        /\ pc'[Server] \in {"setup", "delay"} => since'[Server] <= most + 1
  BY <1>1, <1>2, <1>4 DEF SilentFor, OnTheAir
<1>6. BufferedInv(c)'
  <2> SUFFICES ASSUME rxBuf[c] # None
               PROVE  BufferedInv(c)'
    BY <1>1 DEF BufferedInv
  <2>1. pc[c] = "pause"
    BY TickWaits
  <2>2. SilentFor(since[c])
    BY <1>2, <2>1 DEF BufferedInv
  <2>3. SilentFor(since[c])'
    BY <1>2, <1>3, <1>5, <2>1, <2>2 DEF SilentFor
  <2> QED
    BY <1>1, <1>2, <2>1, <2>3 DEF BufferedInv
<1>7. ReceivedInv(c)'
  <2> SUFFICES ASSUME Received(c)
               PROVE  ReceivedInv(c)'
    BY <1>1 DEF ReceivedInv, Received
  <2>1. SilentFor(since[c] + Pause + Slack) /\ since'[c] = since[c] + 1
    BY <1>2, <1>3 DEF ReceivedInv, Received
  <2>2. since[c] + Pause + Slack \in Nat /\ since'[c] + Pause + Slack = since[c] + Pause + Slack + 1
    BY <1>2, <2>1, Delays
  <2>3. SilentFor(since[c] + Pause + Slack)'
    BY <1>5, <2>1, <2>2 DEF SilentFor
  <2> QED
    BY <1>1, <1>2, <2>3 DEF ReceivedInv, Received
<1> QED
  BY <1>6, <1>7

LEMMA BufferStep ==
  ASSUME LinkTypeInv, AirInv, TimeInv, BufferInv, [Next]_vars
  PROVE  BufferInv'
<1>1. ASSUME NEW c \in Clients, Noise(c)
      PROVE  BufferInv'
  <2>1. UNCHANGED <<pc, since, got, buf, mode>> /\ \A k \in Clients : rxBuf'[k] \in {None, rxBuf[k]}
    BY <1>1, NoiseLocal, LinkAssumption DEF linkVars
  <2>2. \A most : SilentFor(most)' <=> SilentFor(most)
    BY <2>1 DEF SilentFor, OnTheAir
  <2> QED
    BY <2>1, <2>2 DEF BufferInv, BufferedInv, ReceivedInv, Received, InTime
<1>2. CASE UNCHANGED vars
  BY <1>2 DEF vars, radioVars, linkVars, BufferInv, BufferedInv, ReceivedInv, Received, InTime,
    SilentFor, OnTheAir
<1> QED
  BY <1>1, <1>2, ServerBuffer, ClientBuffer, DeliverBuffer, PowerOnBuffer, PowerOffBuffer,
     TickBuffer
  DEF Next, Environment

LinkInv == LinkTypeInv /\ AirInv /\ TimeInv /\ BufferInv

LEMMA LinkInvariant == Spec => []LinkInv
<1>1. Init => LinkInv
  <2> SUFFICES ASSUME Init PROVE LinkInv
    OBVIOUS
  <2>1. LinkTypeInv
    BY InitTyped
  <2>2. AirInv
    BY LinkAssumption DEF Init, RadioInit, AirInv, OnTheAir
  <2>3. TimeInv
    BY LinkAssumption DEF Init, RadioInit, TimeInv, OnTheAir
  <2>4. BufferInv
    BY LinkAssumption
       DEF Init, RadioInit, BufferInv, BufferedInv, ReceivedInv, Received
  <2> QED
    BY <2>1, <2>2, <2>3, <2>4 DEF LinkInv
<1>2. LinkInv /\ [Next]_vars => LinkInv'
  <2> SUFFICES ASSUME LinkInv, [Next]_vars PROVE LinkInv'
    OBVIOUS
  <2>1. LinkTypeInv'
    BY TypeStep DEF LinkInv
  <2>2. AirInv'
    BY AirStep DEF LinkInv
  <2>3. TimeInv'
    BY TimeStep DEF LinkInv
  <2>4. BufferInv'
    BY BufferStep DEF LinkInv
  <2> QED
    BY <2>1, <2>2, <2>3, <2>4 DEF LinkInv
<1> QED
  BY <1>1, <1>2, PTL DEF Spec

(* No broadcast finds a client whose single buffer is still full, whatever   *)
(* losses of power and air came before: AlwaysListening.                     *)
THEOREM LinkAlwaysListening == Spec => AlwaysListening
<1>1. LinkInv /\ [Next]_vars => [Sends => \A c \in Clients : initOk[c] => rxBuf[c] = None]_vars
  BY FreeInTime DEF LinkInv, Sends, AllFree
<1> QED
  BY <1>1, LinkInvariant, PTL DEF Spec, AlwaysListening

(* A client prints what it received before the server measures again:        *)
(* FreshWhenShown, and no new voltage slips in between.                      *)
THEOREM LinkFreshWhenShown == Spec => FreshWhenShown
<1>1. LinkInv /\ [Next]_vars => [\A c \in Clients : Shows(c) /\ got[c] => buf[c].latest]_vars
  BY DEF LinkInv, Shows, BufferInv, ReceivedInv, Received
<1> QED
  BY <1>1, LinkInvariant, PTL DEF Spec, FreshWhenShown

-----------------------------------------------------------------------------
(* The promise. *)

(* What client c holds, in the words of the promise. *)
Holds(c) ==
  IF Received(c) THEN Age(buf[c])
  ELSE IF rxBuf[c] # None THEN Age(rxBuf[c]) ELSE "nothing"
Channel == IF air = None THEN "quiet" ELSE "busy"

(* A client that holds something holds the latest voltage. *)
LEMMA HoldsLatest ==
  ASSUME BufferInv, NEW c \in Clients
  PROVE  /\ Holds(c) \in {"nothing", "latest"}
         /\ Holds(c) = "nothing" <=> rxBuf[c] = None /\ ~Received(c)
BY DEF BufferInv, BufferedInv, ReceivedInv, Holds, Age

LEMMA WillHoldLatest ==
  ASSUME BufferInv', NEW c \in Clients
  PROVE  /\ Holds(c)' \in {"nothing", "latest"}
         /\ Holds(c)' = "nothing" <=> rxBuf'[c] = None /\ ~Received(c)'
BY DEF BufferInv, BufferedInv, ReceivedInv, Holds, Age

LEMMA HoldsAsBefore ==
  ASSUME NEW c \in Clients, pc'[c] = pc[c], rxBuf'[c] = rxBuf[c], got'[c] = got[c],
         buf'[c] = buf[c]
  PROVE  Holds(c)' = Holds(c)
BY DEF Holds, Received, Age

(* What is held by all, when it changes for one client at most.              *)
LEMMA OneLetsGo ==
  ASSUME BufferInv, NEW c \in Clients, Channel' = Channel,
         Holds(c)' \in {Holds(c), "nothing"},
         \A k \in Clients \ {c} : Holds(k)' = Holds(k)
  PROVE  [Promise!PromiseNext]_(Promise!promiseVars)
<1> DEFINE held == [k \in Clients |-> Holds(k)]
<1>1. CASE Holds(c)' = Holds(c)
  <2>1. \A k \in Clients : Holds(k)' = Holds(k)
    BY <1>1
  <2>2. held' = held
    BY <2>1
  <2> QED
    BY <2>2 DEF Promise!promiseVars, Channel, Holds
<1>2. CASE Holds(c)' # Holds(c)
  <2>1. Holds(c) = "latest" /\ Holds(c)' = "nothing"
    BY <1>2, HoldsLatest
  <2>2. held' = [held EXCEPT ![c] = "nothing"] /\ held[c] = "latest"
    BY <2>1
  <2>3. Promise!LetGo(c)
    BY <2>2 DEF Promise!LetGo, Channel, Holds
  <2> QED
    BY <2>3 DEF Promise!PromiseNext
<1> QED
  BY <1>1, <1>2

LEMMA NobodyLetsGo ==
  ASSUME Channel' = Channel, \A k \in Clients : Holds(k)' = Holds(k)
  PROVE  [Promise!PromiseNext]_(Promise!promiseVars)
<1> DEFINE held == [k \in Clients |-> Holds(k)]
<1>1. held' = held
  OBVIOUS
<1> QED
  BY <1>1 DEF Promise!promiseVars, Channel, Holds

(* What reaches the clients when a broadcast ends, or is cut off. *)
LEMMA AllArrive ==
  ASSUME air # None, air' = None, BufferInv'
  PROVE  [Promise!PromiseNext]_(Promise!promiseVars)
<1> DEFINE held == [k \in Clients |-> Holds(k)]
<1>1. held' \in [Clients -> {"nothing", "latest"}]
  BY WillHoldLatest
<1>2. Promise!Arrive
  BY <1>1 DEF Promise!Arrive, Holds
<1> QED
  BY <1>2 DEF Promise!PromiseNext

(* The single steps. *)
LEMMA ServerPromise ==
  ASSUME LinkInv, LinkInv', ServerStep
  PROVE  [Promise!PromiseNext]_(Promise!promiseVars)
<1>1. CASE LcdStartup \/ PacketSent \/ DelayOver
  <2>1. \A k \in Clients : Holds(k)' = Holds(k)
    BY <1>1, ServerLocal, HoldsAsBefore, LinkAssumption
       DEF LinkInv, AsBefore, ShownAsBefore
  <2>2. Channel' = Channel
    BY <1>1, ServerLocal DEF LinkInv, Channel
  <2> QED
    BY <2>1, <2>2, NobodyLetsGo
<1>2. CASE Server_sendBatteryStatus
  <2>1. AllFree
    BY <1>2, SendLocal, FreeInTime DEF LinkInv
  <2>2. air = None /\ air' # None
    BY <1>2, SendLocal DEF LinkInv, AirInv
  <2>3. \A k \in Clients : rxBuf'[k] = None /\ ~Received(k)'
    BY <1>2, <2>1, SendLocal, LinkAssumption DEF LinkInv, AllFree, Outdated, Received
  <2>4. \A k \in Clients : Holds(k) = "nothing" /\ Holds(k)' = "nothing"
    BY <2>1, <2>3 DEF AllFree, Holds
  <2> DEFINE held == [k \in Clients |-> Holds(k)]
  <2>5. held = [k \in Clients |-> "nothing"] /\ held' = held
    BY <2>4
  <2>6. Promise!Measure
    BY <2>2, <2>5 DEF Promise!Measure, Promise!NothingHeld, Holds
  <2> QED
    BY <2>6 DEF Promise!PromiseNext
<1> QED
  BY <1>1, <1>2 DEF ServerStep

LEMMA ClientPromise ==
  ASSUME LinkInv, LinkInv', NEW c \in Clients, ClientStep(c)
  PROVE  [Promise!PromiseNext]_(Promise!promiseVars)
<1>0. c \in Nodes /\ c # Server /\ Clients \subseteq Nodes
  BY LinkAssumption
<1>1. Channel' = Channel
  BY ClientLocal DEF LinkInv, Channel
<1>2. \A k \in Clients \ {c} : Holds(k)' = Holds(k)
  BY <1>0, ClientLocal, HoldsAsBefore DEF LinkInv, AsBefore, ShownAsBefore
<1> USE <1>0 DEF LinkInv, LinkTypeInv, TypeOK, RadioTypeOK, Holds, Received, Goes
<1>3. CASE Poll(c)
  <2>1. pc[c] = "wait" /\ pc'[c] \in {"wait", "recv"} /\ rxBuf' = rxBuf
    BY <1>3 DEF Poll
  <2>2. Holds(c)' = Holds(c)
    BY <2>1
  <2> QED
    BY <1>1, <1>2, <2>2, OneLetsGo
<1>4. CASE GotReply(c)
  <2>1. /\ pc[c] = "recv" /\ pc'[c] = "pause" /\ got'[c] = TRUE
        /\ rxBuf[c] # None /\ buf'[c] = rxBuf[c]
    BY <1>4 DEF GotReply, recv, available
  <2>2. Holds(c)' = Holds(c)
    BY <2>1 DEF Age
  <2> QED
    BY <1>1, <1>2, <2>2, OneLetsGo
<1>5. CASE RecvFailed(c) \/ NoReply(c)
  <2>1. /\ pc[c] \in {"recv", "wait"} /\ pc'[c] = "pause" /\ got'[c] = FALSE
        /\ rxBuf' = rxBuf
    BY <1>5 DEF RecvFailed, recvFailed, NoReply, radioVars
  <2>2. Holds(c)' = Holds(c)
    BY <2>1
  <2> QED
    BY <1>1, <1>2, <2>2, OneLetsGo
<1>6. CASE Show(c)
  <2>1. /\ pc[c] = "pause" /\ pc'[c] = "wait" /\ rxBuf' = rxBuf
    BY <1>6 DEF Show, radioVars
  <2>2. ~Received(c)'
    BY <2>1
  <2>3. Holds(c)' = "nothing" \/ (rxBuf'[c] # None /\ Holds(c)' = "latest")
    BY <2>2, WillHoldLatest
  <2>4. rxBuf[c] # None => Holds(c) = "latest"
    BY HoldsLatest
  <2>5. Holds(c)' \in {Holds(c), "nothing"}
    BY <2>1, <2>3, <2>4
  <2> QED
    BY <1>1, <1>2, <2>5, OneLetsGo
<1> QED
  BY <1>3, <1>4, <1>5, <1>6 DEF ClientStep

LEMMA EnvironmentPromise ==
  ASSUME LinkInv, LinkInv', Environment
  PROVE  [Promise!PromiseNext]_(Promise!promiseVars)
<1>0. Clients \subseteq Nodes /\ Server \in Nodes /\ Server \notin Clients
      /\ Nodes = Clients \cup {Server}
  BY LinkAssumption
<1>1. ASSUME NEW heard \in SUBSET tuned, Deliver(heard)
      PROVE  [Promise!PromiseNext]_(Promise!promiseVars)
  BY <1>1, DeliverLocal, AllArrive DEF LinkInv, AirInv
<1>2. ASSUME NEW c \in Clients, Noise(c)
      PROVE  [Promise!PromiseNext]_(Promise!promiseVars)
  <2>1. UNCHANGED linkVars /\ rxBuf'[c] = None /\ \A k \in Clients \ {c} : rxBuf'[k] = rxBuf[k]
    BY <1>0, <1>2, NoiseLocal DEF LinkInv
  <2>2. \A k \in Clients \ {c} : Holds(k)' = Holds(k)
    BY <2>1, HoldsAsBefore DEF linkVars
  <2>3. Holds(c)' \in {Holds(c), "nothing"}
    BY <2>1 DEF Holds, Received, linkVars, Age
  <2>4. Channel' = Channel
    BY <2>1 DEF Channel, linkVars
  <2> QED
    BY <2>2, <2>3, <2>4, OneLetsGo DEF LinkInv
<1>3. ASSUME NEW n \in Nodes, NEW ok \in BOOLEAN, NEW found \in BOOLEAN, PowerOn(n, ok, found)
      PROVE  [Promise!PromiseNext]_(Promise!promiseVars)
  <2>1. Channel' = Channel
    BY <1>3, PowerOnLocal DEF LinkInv, Channel
  <2>2. \A k \in Clients \ {n} : Holds(k)' = Holds(k)
    BY <1>0, <1>3, PowerOnLocal, HoldsAsBefore DEF LinkInv, AsBefore
  <2>3. n \in Clients => Holds(n)' = "nothing"
    BY <1>0, <1>3, PowerOnLocal DEF LinkInv, Holds, Received
  <2>4. CASE n \in Clients
    BY <2>1, <2>2, <2>3, <2>4, OneLetsGo DEF LinkInv
  <2>5. CASE n = Server
    BY <1>0, <2>1, <2>2, <2>5, NobodyLetsGo
  <2> QED
    BY <1>0, <2>4, <2>5
<1>4. ASSUME NEW n \in Nodes, PowerOff(n)
      PROVE  [Promise!PromiseNext]_(Promise!promiseVars)
  <2>1. CASE n \in Clients
    <3>1. Channel' = Channel
      BY <1>0, <1>4, <2>1, PowerOffLocal DEF LinkInv, Channel
    <3>2. \A k \in Clients \ {n} : Holds(k)' = Holds(k)
      <4>1. \A k \in Clients \ {n} : AsBefore(k) /\ ShownAsBefore(k)
        BY <1>0, <1>4, <2>1, PowerOffLocal DEF LinkInv
      <4> QED
        BY <4>1, HoldsAsBefore DEF AsBefore, ShownAsBefore
    <3>3. Holds(n)' = "nothing"
      BY <1>0, <1>4, <2>1, PowerOffLocal DEF LinkInv, Holds, Received
    <3> QED
      BY <2>1, <3>1, <3>2, <3>3, OneLetsGo DEF LinkInv
  <2>2. CASE n = Server
    <3>1. air' = None /\ UNCHANGED <<got, buf>> /\ \A k \in Clients : AsBefore(k)
      BY <1>0, <1>4, <2>2, PowerOffLocal DEF LinkInv
    <3>2. CASE air # None
      BY <3>1, <3>2, AllArrive DEF LinkInv
    <3>3. CASE air = None
      <4>1. \A k \in Clients : Holds(k)' = Holds(k)
        BY <3>1, HoldsAsBefore DEF AsBefore
      <4> QED
        BY <3>1, <3>3, <4>1, NobodyLetsGo DEF Channel
    <3> QED
      BY <3>2, <3>3
  <2> QED
    BY <1>0, <2>1, <2>2
<1> QED
  BY <1>1, <1>2, <1>3, <1>4 DEF Environment

LEMMA TickPromise ==
  ASSUME LinkInv, Tick \/ UNCHANGED vars
  PROVE  [Promise!PromiseNext]_(Promise!promiseVars)
<1>1. UNCHANGED <<radioVars, pc, air, tuned, got, buf, missed>>
  BY TickLocal DEF LinkInv, vars, linkVars
<1>2. \A k \in Clients : Holds(k)' = Holds(k)
  BY <1>1, HoldsAsBefore DEF radioVars
<1> QED
  BY <1>1, <1>2, NobodyLetsGo DEF Channel

(* One voltage at a time: the link keeps its promise, KeepsPromise.          *)
THEOREM LinkKeepsPromise == Spec => KeepsPromise
<1>1. ASSUME Init
      PROVE  Promise!PromiseInit
  <2>1. \A k \in Clients : Holds(k) = "nothing"
    BY <1>1, LinkAssumption DEF Init, RadioInit, Holds, Received
  <2> DEFINE held == [k \in Clients |-> Holds(k)]
  <2>2. held = [k \in Clients |-> "nothing"]
    BY <2>1
  <2> QED
    BY <1>1, <2>2 DEF Init, Promise!PromiseInit, Promise!NothingHeld, Holds
<1>2. LinkInv /\ LinkInv' /\ [Next]_vars => [Promise!PromiseNext]_(Promise!promiseVars)
  BY ServerPromise, ClientPromise, EnvironmentPromise, TickPromise DEF Next
<1> QED
  BY <1>1, <1>2, LinkInvariant, PTL DEF Spec, KeepsPromise, Promise!PromiseSpec

-----------------------------------------------------------------------------
(* The silence. *)

LEMMA PhaseBounds ==
  ASSUME LinkInv
  PROVE  /\ Phase \in Nat /\ Cycle \in Nat
         /\ initOk[Server] => Phase <= Cycle
<1>1. since[Server] \in Nat
  BY LinkAssumption DEF LinkInv, LinkTypeInv, TypeOK
<1>2. /\ pc[Server] = "delay" => since[Server] <= Period + Slack
      /\ OnTheAir /\ initOk[Server] => since[Server] <= AirTime
  BY DEF LinkInv, TimeInv
<1> QED
  BY <1>1, <1>2, Delays DEF Phase, Cycle

LEMMA PhaseNext ==
  ASSUME LinkTypeInv'
  PROVE  Phase' \in Nat
<1>1. since'[Server] \in Nat
  BY LinkAssumption DEF LinkTypeInv, TypeOK
<1> QED
  BY <1>1, Delays DEF Phase

(* A step that concerns neither the client nor shortens the phase.           *)
LEMMA OthersSilence ==
  ASSUME LinkInv, LinkTypeInv', NEW c \in Clients, WaitInv(c),
         AsBefore(c), missed'[c] = missed[c],
         Broadcasting => Broadcasting' /\ initOk'[Server] = initOk[Server] /\ Phase' >= Phase
  PROVE  WaitInv(c)'
<1>1. /\ Phase \in Nat /\ Cycle \in Nat /\ Phase' \in Nat
      /\ since[c] \in Nat /\ Pause \in Nat
  BY PhaseBounds, PhaseNext, LinkAssumption DEF LinkInv, LinkTypeInv, TypeOK
<1>2. Elapsed(c)' = Elapsed(c) /\ Elapsed(c) \in Nat
  BY <1>1 DEF Elapsed, AsBefore
<1> SUFFICES ASSUME missed[c] < 2
             PROVE  WaitInv(c)'
  BY DEF WaitInv
<1>3. pc[c] # "off" /\ Broadcasting' /\ initOk'[Server] /\ Phase' >= Phase
  BY DEF WaitInv
<1> QED
  BY <1>1, <1>2, <1>3 DEF WaitInv, AsBefore, InTime

LEMMA ServerSilence ==
  ASSUME LinkInv, LinkTypeInv', SilenceInv, ServerStep
  PROVE  SilenceInv'
<1>0. /\ Server \in Nodes /\ Clients \subseteq Nodes /\ Server \notin Clients
      /\ since[Server] \in Nat /\ pc \in [Nodes -> Places] /\ LinkTypeInv
  BY LinkAssumption DEF LinkInv, LinkTypeInv, TypeOK
<1> SUFFICES ASSUME NEW c \in Clients
             PROVE  WaitInv(c)'
  BY DEF SilenceInv
<1>1. WaitInv(c)
  BY DEF SilenceInv
<1>2. CASE LcdStartup
  <2>1. ~Broadcasting
    BY <1>2 DEF LcdStartup, Goes, Broadcasting
  <2> QED
    BY <1>0, <1>1, <1>2, <2>1, ServerLocal, OthersSilence DEF ShownAsBefore
<1>3. CASE Server_sendBatteryStatus
  <2>1. /\ pc[Server] = "loop" /\ pc'[Server] = "sending" /\ since'[Server] = 0
        /\ mode'[Server] = "tx" /\ initOk' = initOk /\ missed' = missed
    BY <1>0, <1>3, SendLocal
  <2>2. AllFree
    BY <2>1, FreeInTime DEF LinkInv
  <2>3. AsBefore(c)
    BY <1>0, <1>3, <2>2, SendLocal DEF AllFree, AsBefore, Outdated
  <2>4. Broadcasting' /\ Phase' = Period + Slack /\ Phase = Period + Slack
    BY <2>1, Delays DEF Broadcasting, Phase, OnTheAir
  <2>5. Phase' >= Phase
    BY <2>4, Delays
  <2> QED
    BY <1>1, <2>1, <2>3, <2>4, <2>5, OthersSilence
<1>4. CASE PacketSent
  <2>1. pc[Server] = "sending" /\ mode[Server] # "tx" /\ pc'[Server] = "delay" /\ since'[Server] = 0
    BY <1>0, <1>4, ServerLocal DEF PacketSent, Goes
  <2>2. Broadcasting' /\ Phase' = 0 /\ Phase = 0
    BY <2>1 DEF Broadcasting, Phase, OnTheAir
  <2> QED
    BY <1>0, <1>1, <1>4, <2>2, ServerLocal, OthersSilence DEF ShownAsBefore, radioVars
<1>5. CASE DelayOver
  <2>1. pc[Server] = "delay" /\ pc'[Server] = "loop"
    BY <1>0, <1>5 DEF DelayOver, Goes
  <2>2. Broadcasting' /\ Phase' = Period + Slack /\ Phase = since[Server]
    BY <2>1 DEF Broadcasting, Phase, OnTheAir
  <2>3. Phase' >= Phase
    BY <1>0, <2>1, <2>2, Delays DEF LinkInv, TimeInv
  <2> QED
    BY <1>0, <1>1, <1>5, <2>2, <2>3, ServerLocal, OthersSilence DEF ShownAsBefore, radioVars
<1> QED
  BY <1>2, <1>3, <1>4, <1>5 DEF ServerStep

LEMMA ClientSilence ==
  ASSUME LinkInv, LinkTypeInv', SilenceInv, NEW k \in Clients, ClientStep(k)
  PROVE  SilenceInv'
<1>0. /\ Server \in Nodes /\ Clients \subseteq Nodes /\ k # Server /\ LinkTypeInv
      /\ since[k] \in Nat /\ Phase \in Nat /\ Phase' \in Nat /\ Cycle \in Nat
  BY LinkAssumption, PhaseBounds, PhaseNext DEF LinkInv, LinkTypeInv, TypeOK
<1>1. AsBefore(Server) /\ initOk' = initOk
  BY <1>0, ClientLocal
<1>2. Phase' = Phase /\ (Broadcasting' <=> Broadcasting)
  BY <1>1 DEF AsBefore, Phase, OnTheAir, Broadcasting
<1>3. ASSUME NEW c \in Clients, c # k
      PROVE  WaitInv(c)'
  <2>1. AsBefore(c) /\ missed'[c] = missed[c] /\ WaitInv(c)
    BY <1>0, <1>3, ClientLocal DEF ShownAsBefore, SilenceInv
  <2> QED
    BY <1>0, <1>1, <1>2, <2>1, OthersSilence
<1>4. /\ WaitInv(k) /\ BufferedInv(k) /\ AirInv /\ mode[k] # "tx"
      /\ pc \in [Nodes -> Places] /\ since \in [Nodes -> 0 .. Timeout]
      /\ rxBuf \in [Nodes -> Packets \cup {None}] /\ mode \in [Nodes -> {"idle", "rx", "tx"}]
      /\ missed \in [Clients -> 0 .. 2]
  BY DEF SilenceInv, LinkInv, BufferInv, AirInv, LinkTypeInv, TypeOK, RadioTypeOK
<1>5. ASSUME Poll(k)
      PROVE  WaitInv(k)'
  <2>1. /\ pc[k] = "wait" /\ InTime(k) /\ since'[k] = since[k] /\ rxBuf'[k] = rxBuf[k]
        /\ missed'[k] = missed[k] /\ pc'[k] \in {"wait", "recv"}
    BY <1>0, <1>4, <1>5 DEF Poll
  <2> QED
    BY <1>0, <1>1, <1>2, <1>4, <2>1 DEF WaitInv, Elapsed, InTime
(* A pause that has just begun is no longer than any phase.                  *)
<1>6. ASSUME pc'[k] = "pause", since'[k] = 0,
             missed'[k] < 2 => Broadcasting /\ initOk[Server]
      PROVE  WaitInv(k)'
  BY <1>0, <1>1, <1>2, <1>6 DEF WaitInv, Elapsed
<1>7. ASSUME GotReply(k)
      PROVE  WaitInv(k)'
  <2>1. rxBuf[k] # None /\ pc'[k] = "pause" /\ since'[k] = 0
    BY <1>0, <1>4, <1>7 DEF GotReply, recv, available, Goes
  <2>2. pc[Server] # "loop" /\ ~OnTheAir
    BY <1>4, <2>1 DEF BufferedInv, SilentFor
  <2>3. Broadcasting => initOk[Server]
    BY <1>4, <2>2 DEF AirInv, Broadcasting
  <2>4. ~Broadcasting => missed'[k] = missed[k]
    BY <1>4, <1>7 DEF GotReply
  <2>5. missed'[k] < 2 => Broadcasting /\ initOk[Server]
    BY <1>4, <2>3, <2>4 DEF WaitInv
  <2> QED
    BY <1>6, <2>1, <2>5
<1>8. ASSUME RecvFailed(k) \/ NoReply(k)
      PROVE  WaitInv(k)'
  <2>1. pc'[k] = "pause" /\ since'[k] = 0 /\ missed' = missed
    BY <1>0, <1>4, <1>8 DEF RecvFailed, NoReply, Goes
  <2> QED
    BY <1>4, <1>6, <2>1 DEF WaitInv
<1>9. ASSUME Show(k)
      PROVE  WaitInv(k)'
  <2>1. /\ pc[k] = "pause" /\ pc'[k] = "wait" /\ since'[k] = 0 /\ since[k] >= Pause
        /\ rxBuf' = rxBuf /\ missed' = missed
    BY <1>0, <1>4, <1>9 DEF Show, Goes, PauseOver, radioVars
  <2>2. Elapsed(k) = since[k] /\ Elapsed(k)' = Pause
    BY <2>1, Delays DEF Elapsed
  <2>3. InTime(k)'
    BY <2>1, Delays DEF InTime
  <2> QED
    BY <1>0, <1>1, <1>2, <1>4, <2>1, <2>2, <2>3, Delays DEF WaitInv
<1> QED
  BY <1>3, <1>5, <1>7, <1>8, <1>9 DEF ClientStep, SilenceInv

(* The second broadcast a client misses ends after it has waited too long,   *)
(* and the one before while it still waits.                                  *)
LEMMA DeliverSilence ==
  ASSUME LinkInv, LinkTypeInv', SilenceInv, NEW heard \in SUBSET tuned, Deliver(heard)
  PROVE  SilenceInv'
<1>0. heard \subseteq Clients /\ LinkTypeInv
  BY DEF LinkInv, LinkTypeInv, TypeOK
<1>1. /\ pc[Server] = "sending" /\ OnTheAir /\ air # None /\ since[Server] = AirTime
      /\ initOk[Server] /\ mode'[Server] = "idle" /\ UNCHANGED <<pc, since, initOk>>
  BY <1>0, DeliverLocal DEF LinkInv, AirInv, OnTheAir
<1>2. AllFree
  BY <1>1, FreeInTime DEF LinkInv
<1>3. Phase = Cycle /\ Phase' = 0 /\ Broadcasting'
  BY <1>1, Delays DEF Phase, Cycle, OnTheAir, Broadcasting
<1> SUFFICES ASSUME NEW c \in Clients, missed'[c] < 2
             PROVE  WaitInv(c)'
  BY DEF SilenceInv, WaitInv
<1>4. /\ WaitInv(c) /\ rxBuf[c] = None /\ missed[c] \in 0 .. 2
      /\ since[c] \in Nat /\ Cycle \in Nat
  BY <1>2, PhaseBounds, LinkAssumption DEF SilenceInv, AllFree, LinkInv, LinkTypeInv, TypeOK
<1>5. CASE c \in heard
  <2>1. rxBuf'[c] = air /\ missed'[c] = missed[c]
    BY <1>0, <1>5, DeliverLocal
  <2>2. pc[c] # "off" /\ (pc[c] = "wait" => Pause + since[c] <= 2 * Cycle)
    BY <1>3, <1>4, <2>1, Delays DEF WaitInv, Elapsed
  <2>3. pc[c] = "wait" => InTime(c)
    BY <1>4, <2>2, Delays DEF Cycle, InTime
  <2> QED
    BY <1>1, <1>3, <2>1, <2>2, <2>3 DEF WaitInv, InTime
<1>6. CASE c \notin heard
  <2>1. rxBuf'[c] = None /\ missed[c] = 0 /\ missed'[c] = 1
    BY <1>0, <1>4, <1>6, DeliverLocal DEF UpToTwo
  <2>2. Elapsed(c)' = Elapsed(c)
    BY <1>1 DEF Elapsed
  <2>3. /\ pc[c] # "off"
        /\ pc[c] \in {"wait", "pause"} => Elapsed(c) <= Cycle
    BY <1>3, <1>4, <2>1 DEF WaitInv
  <2> QED
    BY <1>1, <1>3, <1>4, <2>1, <2>2, <2>3 DEF WaitInv
<1> QED
  BY <1>5, <1>6

LEMMA TickSilence ==
  ASSUME LinkInv, LinkTypeInv', SilenceInv, Tick
  PROVE  SilenceInv'
<1>0. /\ Server \in Nodes /\ Clients \subseteq Nodes /\ LinkTypeInv
      /\ UNCHANGED <<pc, mode, initOk, rxBuf, missed>>
  BY LinkAssumption, TickLocal DEF LinkInv, radioVars
<1> SUFFICES ASSUME NEW c \in Clients, missed[c] < 2
             PROVE  WaitInv(c)'
  BY <1>0 DEF SilenceInv, WaitInv
<1>1. /\ WaitInv(c) /\ since[c] \in Nat /\ since[Server] \in Nat /\ since'[c] \in Nat
      /\ Cycle \in Nat /\ Phase \in Nat /\ Phase' \in Nat
  BY <1>0, PhaseBounds, PhaseNext DEF SilenceInv, LinkInv, LinkTypeInv, TypeOK
<1>2. pc[c] # "off" /\ Broadcasting /\ initOk[Server]
  BY <1>1 DEF WaitInv
<1>3. pc[Server] = "delay" \/ OnTheAir
  BY <1>0, <1>2, TickLocal DEF Broadcasting, ServerBusy, OnTheAir
<1>4. since[Server] < Timeout
  BY <1>1, <1>2, <1>3, Delays DEF LinkInv, TimeInv, OnTheAir
<1>5. since'[Server] = since[Server] + 1
  BY <1>0, <1>3, <1>4, TickLocal DEF OnTheAir
<1>6. Phase' = Phase + 1
  <2>1. CASE OnTheAir
    BY <1>0, <1>1, <1>5, <2>1, Delays DEF Phase, OnTheAir
  <2>2. CASE pc[Server] = "delay"
    BY <1>0, <1>1, <1>5, <2>2 DEF Phase, OnTheAir
  <2> QED
    BY <1>3, <2>1, <2>2
<1>7. since'[c] <= since[c] + 1
  BY <1>0, <1>1, TickLocal
<1>8. pc[c] # "recv" /\ (rxBuf[c] # None => pc[c] = "pause")
  BY TickWaits DEF LinkInv
<1>9. Elapsed(c)' <= Elapsed(c) + 1 /\ Elapsed(c) \in Nat /\ Elapsed(c)' \in Nat
  BY <1>0, <1>1, <1>7, Delays DEF Elapsed
<1> QED
  BY <1>0, <1>1, <1>2, <1>6, <1>8, <1>9 DEF WaitInv, Broadcasting

LEMMA SilenceStep ==
  ASSUME LinkInv, LinkTypeInv', SilenceInv, [Next]_vars
  PROVE  SilenceInv'
<1>0. /\ Server \in Nodes /\ Clients \subseteq Nodes /\ Server \notin Clients /\ LinkTypeInv
      /\ Phase \in Nat
  BY LinkAssumption, PhaseBounds DEF LinkInv
<1>1. ASSUME AsBefore(Server), initOk'[Server] = initOk[Server],
             NEW c \in Clients, AsBefore(c), missed'[c] = missed[c]
      PROVE  WaitInv(c)'
  <2>1. WaitInv(c) /\ Phase' = Phase /\ (Broadcasting' <=> Broadcasting)
    BY <1>1 DEF SilenceInv, AsBefore, Phase, OnTheAir, Broadcasting
  <2> QED
    BY <1>0, <1>1, <2>1, OthersSilence
<1>2. ASSUME NEW k \in Clients, Noise(k)
      PROVE  SilenceInv'
  <2> SUFFICES ASSUME NEW c \in Clients
               PROVE  WaitInv(c)'
    BY DEF SilenceInv
  <2>1. /\ UNCHANGED linkVars /\ initOk' = initOk /\ mode' = mode /\ mode[k] = "rx"
        /\ \A n \in Nodes \ {k} : rxBuf'[n] = rxBuf[n]
        /\ rxBuf'[k] = None
    BY <1>0, <1>2, NoiseLocal
  <2>2. AsBefore(Server)
    BY <1>0, <2>1 DEF AsBefore, linkVars
  <2>3. CASE c # k \/ rxBuf[c] = None
    <3>1. AsBefore(c) /\ missed'[c] = missed[c]
      BY <1>0, <2>1, <2>3 DEF AsBefore, linkVars
    <3> QED
      BY <1>1, <2>1, <2>2, <3>1
  <2>4. CASE c = k /\ rxBuf[c] # None
    <3>1. pc[c] = "recv"
      BY <2>1, <2>4 DEF LinkInv, BufferInv, BufferedInv
    <3>2. WaitInv(c)
      BY DEF SilenceInv
    <3> QED
      BY <2>1, <3>1, <3>2 DEF linkVars, WaitInv, Broadcasting
  <2> QED
    BY <2>3, <2>4
<1>3. ASSUME NEW n \in Nodes, NEW ok \in BOOLEAN, NEW found \in BOOLEAN, PowerOn(n, ok, found)
      PROVE  SilenceInv'
  <2> SUFFICES ASSUME NEW c \in Clients
               PROVE  WaitInv(c)'
    BY DEF SilenceInv
  <2>1. missed' = missed /\ missed[c] \in 0 .. 2 /\ pc[n] = "off" /\ WaitInv(c)
    BY <1>0, <1>3, PowerOnLocal DEF LinkTypeInv, TypeOK, SilenceInv
  <2>2. CASE n = Server \/ n = c
    BY <2>1, <2>2 DEF WaitInv, Broadcasting
  <2>3. CASE n # Server /\ n # c
    <3>1. AsBefore(Server) /\ AsBefore(c) /\ initOk'[Server] = initOk[Server]
      BY <1>0, <1>3, <2>3, PowerOnLocal
    <3> QED
      BY <1>1, <2>1, <3>1
  <2> QED
    BY <2>2, <2>3
<1>4. ASSUME NEW n \in Nodes, PowerOff(n)
      PROVE  SilenceInv'
  <2> SUFFICES ASSUME NEW c \in Clients
               PROVE  WaitInv(c)'
    BY DEF SilenceInv
  <2>1. CASE n = Server \/ n = c
    <3>1. missed'[c] = 2
      BY <1>0, <1>4, <2>1, PowerOffLocal
    <3> QED
      BY <3>1 DEF WaitInv
  <2>2. CASE n # Server /\ n # c
    <3>1. AsBefore(Server) /\ AsBefore(c) /\ initOk'[Server] = initOk[Server]
      BY <1>0, <1>4, <2>2, PowerOffLocal
    <3>2. ShownAsBefore(c)
      BY <1>0, <1>4, <2>2, PowerOffLocal
    <3> QED
      BY <1>1, <3>1, <3>2 DEF ShownAsBefore
  <2> QED
    BY <2>1, <2>2
<1>5. CASE UNCHANGED vars
  BY <1>5 DEF vars, radioVars, linkVars, SilenceInv, WaitInv, Broadcasting, Elapsed, Phase,
    OnTheAir, InTime
<1> QED
  BY <1>2, <1>3, <1>4, <1>5, ServerSilence, ClientSilence, DeliverSilence, TickSilence
  DEF Next, Environment

LEMMA SilenceInvariant == Spec => []SilenceInv
<1>1. Init => SilenceInv
  BY DEF Init, SilenceInv, WaitInv
<1>2. LinkInv /\ LinkInv' /\ SilenceInv /\ [Next]_vars => SilenceInv'
  BY SilenceStep DEF LinkInv
<1> QED
  BY <1>1, <1>2, LinkInvariant, PTL DEF Spec

(* A single broadcast lost by the air, by noise or by a recv() that fails is *)
(* no reason for "No reply": NoReplyMeansSilence, for every delay the boards *)
(* allow, since a client's pause outweighs what two rounds of the server add *)
(* to twice its delay.                                                       *)
THEOREM LinkNoReplyMeansSilence == Spec => NoReplyMeansSilence
<1>1. LinkInv /\ SilenceInv /\ [Next]_vars =>
        [\A c \in Clients : pc[c] = "wait" /\ pc'[c] = "pause" => missed[c] = 2]_vars
  <2> SUFFICES ASSUME LinkInv, SilenceInv, Next,
                      NEW c \in Clients, pc[c] = "wait", pc'[c] = "pause"
               PROVE  missed[c] = 2
    OBVIOUS
  <2>0. /\ c \in Nodes /\ c # Server /\ LinkTypeInv /\ Server \in Nodes /\ Clients \subseteq Nodes
        /\ pc \in [Nodes -> Places] /\ since[c] \in Nat /\ missed[c] \in 0 .. 2
    BY LinkAssumption DEF LinkInv, LinkTypeInv, TypeOK
  <2>1. ~InTime(c)
    <3>1. ASSUME NEW k \in Clients, ClientStep(k)
          PROVE  ~InTime(c)
      <4>1. k = c
        BY <2>0, <3>1, ClientLocal DEF AsBefore
      <4> QED
        BY <2>0, <3>1, <4>1 DEF ClientStep, Poll, GotReply, RecvFailed, NoReply, Show, Goes
    <3>2. ServerStep => pc'[c] = pc[c]
      BY <2>0, ServerLocal, SendLocal DEF ServerStep, AsBefore
    <3>3. Environment => pc'[c] # "pause"
      BY <2>0 DEF Environment, Deliver, Noise, PowerOn, PowerOff, linkVars
    <3>4. Tick => pc'[c] = pc[c]
      BY TickLocal, <2>0
    <3> QED
      BY <3>1, <3>2, <3>3, <3>4 DEF Next
  <2>2. SUFFICES ASSUME missed[c] < 2 PROVE FALSE
    BY <2>0
  <2>3. WaitInv(c)
    BY DEF SilenceInv
  <2>4. rxBuf[c] = None /\ initOk[Server]
    BY <2>1, <2>2, <2>3 DEF WaitInv
  <2>5. Phase \in Nat /\ Cycle \in Nat /\ Phase <= Cycle
    BY <2>4, PhaseBounds
  <2>6. Pause + since[c] <= 2 * Cycle
    BY <2>0, <2>2, <2>3, <2>4, <2>5, Delays DEF WaitInv, Elapsed
  <2> QED
    BY <2>0, <2>1, <2>6, Delays DEF InTime, Cycle
<1> QED
  BY <1>1, LinkInvariant, SilenceInvariant, PTL DEF Spec, NoReplyMeansSilence
=============================================================================
