---------------------------- MODULE BatteryLink ----------------------------
(***************************************************************************)
(* The battery voltage broadcast by LoRa: the server of the main house     *)
(* measures it, sends it and sleeps; each client (the responsive light,    *)
(* the fridge of the backporch) waits for a broadcast, sleeps and prints   *)
(* what it got.  All run on their own boards, lose power and come back;    *)
(* the air loses broadcasts.  Time is in ticks, one tick longer than an    *)
(* iteration of any loop.                                                  *)
(***************************************************************************)
EXTENDS Rf95

CONSTANTS
  Server, Clients,
  StartUp,     \* delay(2000) in the setup() of the server
  Period,      \* delay(10000) of the server
  Timeout,     \* waitAvailableTimeout(20000)
  Pause,       \* delay(400) of the clients
  AirTime,     \* ticks a broadcast is on the air
  Slack,       \* bound on what the clocks and the other work add to a delay
  Garbage      \* what a stack may hold that was never received

(* Period etc. are ordered as on the boards; a client's pause outweighs what *)
(* two rounds of the server take beyond 2 * Period.                          *)
ASSUME LinkAssumption ==
  /\ Nodes = Clients \cup {Server} /\ Server \notin Clients
  /\ {StartUp, Period, Timeout, Pause, AirTime} \subseteq Nat \ {0}
  /\ Slack \in Nat
  /\ Timeout = 2 * Period
  /\ 2 * (Slack + AirTime) < Pause
  /\ 2 * (Pause + Slack) < StartUp /\ StartUp < Period

VARIABLES
  pc,          \* where the sketch of a node is; "off" without power
  since,       \* ticks a node has been there, up to Timeout
  air,         \* the packet being sent
  tuned,       \* radios that listened when it began
  got,         \* has receiveBatteryVoltage received in this call?
  buf,         \* its local buffer: what it received, or what the stack holds
  missed       \* history: broadcasts a client missed since it last got one, up
               \*   to 2; a client or server without power misses two

linkVars == <<pc, since, air, tuned, got, buf, missed>>
vars == <<radioVars, linkVars>>

(* A packet is a voltage, of which is told apart (history) whether it is the *)
(* latest one measured.                                                      *)
Broadcasts == [latest : BOOLEAN]

(* Nothing else is on the air that the radios of the link accept.            *)
ASSUME PacketAssumption == Packets = Broadcasts

Init ==
  /\ RadioInit
  /\ pc = [n \in Nodes |-> "off"]
  /\ since = [n \in Nodes |-> 1]
  /\ air = None
  /\ tuned = {}
  /\ got = [c \in Clients |-> FALSE]
  /\ buf = [c \in Clients |-> Garbage]
  /\ missed = [c \in Clients |-> 2]

(* Node n goes on at a new place. *)
Goes(n, from, to) ==
  /\ pc[n] = from
  /\ pc' = [pc EXCEPT ![n] = to]
  /\ since' = [since EXCEPT ![n] = 0]

-----------------------------------------------------------------------------
(* The server. *)

(* A packet that is no longer the latest. *)
Outdated(p) == IF p \in {None, Garbage} THEN p ELSE [p EXCEPT !.latest = FALSE]

(* The "activated" of the LCD has been shown. *)
LcdStartup ==
  /\ since[Server] >= StartUp
  /\ Goes(Server, "setup", "loop")
  /\ UNCHANGED <<radioVars, air, tuned, got, buf, missed>>

(* The voltage is read, shown on the LCD and sent.  *)
Server_sendBatteryStatus ==
  /\ Goes(Server, "loop", "sending")
  /\ air' = [latest |-> TRUE]
  /\ mode' = Sending(Server)
  /\ rxBuf' = [n \in Nodes |-> Outdated(rxBuf[n])]
  /\ buf' = [c \in Clients |-> Outdated(buf[c])]
  /\ tuned' = Tuned \cap Clients
  /\ UNCHANGED <<initOk, got, missed>>

(* Mutant of PacketSent: waitPacketSent() waits for the sending to begin. *)
PacketSentInverted ==
  /\ mode[Server] = "tx"
  /\ Goes(Server, "sending", "delay")
  /\ UNCHANGED <<radioVars, air, tuned, got, buf, missed>>

(* waitPacketSent() returns and delay() begins. *)
PacketSent ==
  /\ mode[Server] # "tx"
  /\ Goes(Server, "sending", "delay")
  /\ UNCHANGED <<radioVars, air, tuned, got, buf, missed>>

(* Mutant of PeriodOver: the delay between two broadcasts is lost. *)
PeriodNone == TRUE

PeriodOver == since[Server] >= Period

DelayOver ==
  /\ PeriodOver
  /\ Goes(Server, "delay", "loop")
  /\ UNCHANGED <<radioVars, air, tuned, got, buf, missed>>

ServerStep == LcdStartup \/ Server_sendBatteryStatus \/ PacketSent \/ DelayOver

-----------------------------------------------------------------------------
(* The clients. *)

(* Mutant of InTime: the timeout is no longer than the server's delay. *)
InTimeOnePeriod(c) == since[c] < Period

InTime(c) == since[c] < Timeout

(* One iteration of waitAvailableTimeout. *)
Poll(c) ==
  /\ pc[c] = "wait"
  /\ InTime(c)
  /\ mode' = Listening(c)
  /\ pc' = [pc EXCEPT ![c] = IF available(c) THEN "recv" ELSE "wait"]
  /\ UNCHANGED <<initOk, rxBuf, since, air, tuned, got, buf, missed>>

Broadcasting == pc[Server] \in {"loop", "sending", "delay"}

(* "got reply"; a successful recv() is followed by delay(). *)
GotReply(c) ==
  /\ Goes(c, "recv", "pause")
  /\ recv(c)
  /\ got' = [got EXCEPT ![c] = TRUE]
  /\ buf' = [buf EXCEPT ![c] = rxBuf[c]]
  /\ missed' = [missed EXCEPT ![c] = IF Broadcasting THEN 0 ELSE @]
  /\ UNCHANGED <<air, tuned>>

(* "recv failed": the packet was lost between the two calls. *)
RecvFailed(c) ==
  /\ Goes(c, "recv", "pause")
  /\ recvFailed(c)
  /\ got' = [got EXCEPT ![c] = FALSE]
  /\ \E left \in {buf[c], Garbage} : buf' = [buf EXCEPT ![c] = left]
  /\ UNCHANGED <<air, tuned, missed>>

(* "No reply, is rf95_server running?": the buffer, a local array, is left   *)
(* as the stack has it: whatever is there, or the last thing received.       *)
NoReply(c) ==
  /\ ~InTime(c)
  /\ Goes(c, "wait", "pause")
  /\ got' = [got EXCEPT ![c] = FALSE]
  /\ \E left \in {buf[c], Garbage} : buf' = [buf EXCEPT ![c] = left]
  /\ UNCHANGED <<radioVars, air, tuned, missed>>

(* Mutant of PauseOver: the two times of the client are exchanged. *)
PauseSwapped(c) == since[c] >= Timeout

PauseOver(c) == since[c] >= Pause

(* Mutant of Show: the wait goes on from where the pause ended. *)
ShowKeepStart(c) ==
  /\ PauseOver(c)
  /\ pc[c] = "pause"
  /\ pc' = [pc EXCEPT ![c] = "wait"]
  /\ since' = [since EXCEPT ![c] = Timeout]
  /\ UNCHANGED <<radioVars, air, tuned, got, buf, missed>>

(* receiveBatteryVoltage returns, "Battery Voltage received: " is printed    *)
(* with the buffer, and loop() begins again.                                 *)
Show(c) ==
  /\ PauseOver(c)
  /\ Goes(c, "pause", "wait")
  /\ UNCHANGED <<radioVars, air, tuned, got, buf, missed>>

ClientStep(c) ==
  Poll(c) \/ GotReply(c) \/ RecvFailed(c) \/ NoReply(c) \/ Show(c)

-----------------------------------------------------------------------------
(* The environment. *)

UpToTwo(k) == IF k < 2 THEN k + 1 ELSE 2

(* A broadcast ends and some of the radios that listened receive it. *)
Deliver(heard) ==
  /\ since[Server] = AirTime
  /\ Done(Server, air, heard)
  /\ air' = None
  /\ tuned' = {}
  /\ missed' = [c \in Clients |-> IF c \in heard THEN missed[c] ELSE UpToTwo(missed[c])]
  /\ UNCHANGED <<pc, since, got, buf>>

(* A garbled packet, of whoever, reaches a client. *)
Noise(c) ==
  /\ Garbled(c)
  /\ UNCHANGED linkVars

(* setup().  The server stops for good if it does not find the INA260; every *)
(* sketch goes on if its radio fails.                                        *)
PowerOn(n, ok, found) ==
  /\ pc[n] = "off"
  /\ since[n] > 0
  /\ init(n, ok)
  /\ pc' = [pc EXCEPT ![n] =
       IF n # Server THEN "wait" ELSE IF found THEN "setup" ELSE "halted"]
  /\ since' = [since EXCEPT ![n] = 0]
  /\ UNCHANGED <<air, tuned, got, buf, missed>>

(* The power goes for a tick or more; a broadcast on the air is lost, and the RAM with it. *)
PowerOff(n) ==
  /\ pc[n] # "off"
  /\ init(n, FALSE)
  /\ pc' = [pc EXCEPT ![n] = "off"]
  /\ since' = [since EXCEPT ![n] = 0]
  /\ IF n = Server
       THEN /\ air' = None
            /\ tuned' = {}
            /\ missed' = [c \in Clients |-> 2]
            /\ UNCHANGED <<got, buf>>
       ELSE /\ tuned' = tuned \ {n}
            /\ missed' = [missed EXCEPT ![n] = 2]
            /\ got' = [got EXCEPT ![n] = FALSE]
            /\ buf' = [buf EXCEPT ![n] = Garbage]
            /\ UNCHANGED air

(* A node with a step to take before the next tick. *)
ServerBusy ==
  \/ pc[Server] = "setup" /\ since[Server] >= StartUp + Slack
  \/ pc[Server] = "loop"
  \/ pc[Server] = "sending" /\ (mode[Server] # "tx" \/ (initOk[Server] /\ since[Server] = AirTime))
  \/ pc[Server] = "delay" /\ since[Server] >= Period + Slack

ClientBusy(c) ==
  \/ pc[c] = "recv"
  \/ pc[c] = "wait" /\ (~InTime(c) \/ mode[c] # "rx" \/ available(c))
  \/ pc[c] = "pause" /\ PauseOver(c) /\ since[c] >= Pause + Slack

(* How far the ticks at a place are told apart. *)
Counts(n) == CASE pc[n] = "off" -> 1 [] pc[n] = "halted" -> 0 [] OTHER -> Timeout

Tick ==
  /\ ~ServerBusy
  /\ \A c \in Clients : ~ClientBusy(c)
  /\ since' = [n \in Nodes |-> IF since[n] < Counts(n) THEN since[n] + 1 ELSE since[n]]
  /\ UNCHANGED <<radioVars, pc, air, tuned, got, buf, missed>>

Environment ==
  \/ \E heard \in SUBSET tuned : Deliver(heard)
  \/ \E c \in Clients : Noise(c)
  \/ \E n \in Nodes, ok, found \in BOOLEAN : PowerOn(n, ok, found)
  \/ \E n \in Nodes : PowerOff(n)

Next ==
  \/ ServerStep
  \/ \E c \in Clients : ClientStep(c)
  \/ Environment
  \/ Tick

Spec == Init /\ [][Next]_vars

(* Every board with power runs its sketch, a broadcast ends, time passes.    *)
Fairness ==
  /\ WF_vars(ServerStep)
  /\ \A c \in Clients : WF_vars(ClientStep(c))
  /\ WF_vars(\E heard \in SUBSET tuned : Deliver(heard))
  /\ WF_vars(Tick)

FairSpec == Spec /\ Fairness

-----------------------------------------------------------------------------
TypeOK ==
  /\ RadioTypeOK
  /\ pc[Server] \in {"off", "halted", "setup", "loop", "sending", "delay"}
  /\ \A c \in Clients : pc[c] \in {"off", "wait", "recv", "pause"}
  /\ since \in [Nodes -> 0 .. Timeout]
  /\ air \in Broadcasts \cup {None}
  /\ tuned \in SUBSET Clients
  /\ got \in [Clients -> BOOLEAN]
  /\ buf \in [Clients -> Broadcasts \cup {Garbage}]
  /\ missed \in [Clients -> 0 .. 2]

Sends == pc[Server] = "loop" /\ pc'[Server] = "sending"

(* No broadcast is missed because a client was busy with the one before: its *)
(* single buffer is free whenever one begins.                                *)
AlwaysListening ==
  [][Sends => \A c \in Clients : initOk[c] => rxBuf[c] = None]_vars

Shows(c) == pc[c] = "pause" /\ pc'[c] = "wait"
Received(c) == got[c] /\ pc[c] = "pause"

(* One voltage at a time: what a client has in its radio, or received and    *)
(* not yet printed, is the latest measured, and it has let go of it when the *)
(* next is; whatever is lost and whoever loses power.                        *)
Age(p) == IF p.latest THEN "latest" ELSE "older"
Promise == INSTANCE LinkPromise WITH
  channel <- IF air = None THEN "quiet" ELSE "busy",
  held <- [c \in Clients |->
             IF Received(c) THEN Age(buf[c])
             ELSE IF rxBuf[c] # None THEN Age(rxBuf[c]) ELSE "nothing"]
KeepsPromise == Promise!PromiseSpec

(* A voltage that was received is printed before the next one is measured.   *)
FreshWhenShown ==
  [][\A c \in Clients : Shows(c) /\ got[c] => buf[c].latest]_vars

(* "No reply, is rf95_server running?" is not printed for a single lost      *)
(* broadcast: the second one arrives within the timeout.                     *)
NoReplyMeansSilence ==
  [][\A c \in Clients : pc[c] = "wait" /\ pc'[c] = "pause" => missed[c] = 2]_vars

Running(n) == pc[n] \notin {"off", "halted"} /\ initOk[n]

(* A client that stays on and hears a broadcast again and again shows the    *)
(* voltage again and again, however many it misses in between, unless noise  *)
(* that never ends destroys them between two calls.                          *)
KeepsShowing ==
  \A c \in Clients :
    <>[]Running(c) /\ <>[][~Noise(c)]_vars /\ []<>(rxBuf[c] # None) => []<>Received(c)

(* The server measures again and again as long as it has power and a radio   *)
(* that works; it hangs in its first broadcast if init() has failed.         *)
Measures == pc[Server] = "loop"
KeepsMeasuring == <>[]Running(Server) => []<>Measures

(* "Battery Voltage received: " is printed only for what was received.       *)
PrintedWasReceived == [][\A c \in Clients : Shows(c) => got[c]]_vars
=============================================================================
