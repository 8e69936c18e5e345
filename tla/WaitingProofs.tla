---------------------------- MODULE WaitingProofs ----------------------------
(***************************************************************************)
(* The programs that wait for the clock or for a key.  Ping: which slot a  *)
(* reply marks, and what poisons the mutex, for every range of sequence    *)
(* numbers, every number of requests and every set of foreign packets.     *)
(* Timeout: what the exit status tells, for every set of durations, every  *)
(* interval and every bound on the clock.  Less: what is on the screen,    *)
(* for every file, every size of the terminal and every sequence of keys.  *)
(***************************************************************************)
EXTENDS Ping, Timeout, Less, FiniteSetTheorems, DataLemmas

\* The bound on the requests holds where a slot is appended, and a request is
\* sent for a slot there is.
SlotInv ==
  /\ main = "push" /\ ~poisoned => Len(pings) < MaxPings
  /\ main = "send" => Len(pings) > 0
  /\ requests \subseteq 1..Len(pings)

\* A packet carries the number of the request it answers, or is foreign.
Genuine(p) == IF p.ping = 0 THEN p.seq \in Foreign
              ELSE p.ping \in requests /\ p.seq = SequenceOf(p.ping)

\* The packets on their way and the one the listener works on, once it runs.
PacketInv ==
  /\ main = "start" => listener = "none"
  /\ \A p \in replies : Genuine(p)
  /\ listener = "lock" => Genuine(packet) /\ (packet.ping # 0 => packet.ping \in answered)
  /\ listener # "lock" => packet = NoPacket
  /\ answered \subseteq requests

\* The inductive invariant.
IInv == TypeOK /\ SlotInv /\ PacketInv /\ RepliesFindTheirSlot /\ PoisonOnlyAfterWrap

-----------------------------------------------------------------------------

\* A sequence number is in its range; it is the number of the slot before the
\* wrap, and it is not 0 before.
LEMMA SequenceOfSlot ==
  ASSUME NEW i \in Nat \ {0}
  PROVE  /\ SequenceOf(i) \in 0..(Wrap - 1)
         /\ i < Wrap => SequenceOf(i) = i
         /\ SequenceOf(i) = 0 => i >= Wrap
BY WrapAssumption DEF SequenceOf

\* No request has been sent.
LEMMA InitEstablishes == Init => IInv
<1> SUFFICES ASSUME Init PROVE IInv
  OBVIOUS
<1>1. TypeOK
  <2>1. {running, poisoned, printFailed} \subseteq BOOLEAN
    BY Zenon DEF Init
  <2>2. NoPacket \in Packet /\ replies \subseteq Packet
    BY WrapAssumption, MaxPingsAssumption, ForeignAssumption DEF Init, NoPacket, Packet
  <2> QED
    BY <2>1, <2>2, MaxPingsAssumption DEF Init, TypeOK, MainState
<1>2. SlotInv /\ PacketInv
  BY DEF Init, SlotInv, PacketInv, Genuine
<1>3. RepliesFindTheirSlot /\ PoisonOnlyAfterWrap
  BY DEF Init, RepliesFindTheirSlot, PoisonOnlyAfterWrap, Received
<1> QED
  BY <1>1, <1>2, <1>3 DEF IInv

\* The main thread.  Only Push touches the slots.
LEMMA PushPreserves ==
  ASSUME IInv, Push
  PROVE  IInv'
<1>1. CASE poisoned
  BY <1>1 DEF Push, setting, IInv, TypeOK, MainState, SlotInv, PacketInv, Genuine,
              RepliesFindTheirSlot, PoisonOnlyAfterWrap, Received
<1>2. CASE ~poisoned
  <2>1. /\ pings' = Append(pings, "sent") /\ main' = "send"
        /\ pings \in Seq({"sent", "received"}) /\ Len(pings) < MaxPings
    BY <1>2 DEF Push, IInv, TypeOK, SlotInv
  <2>2. /\ Len(pings') = Len(pings) + 1
        /\ \A i \in 1..Len(pings) : pings'[i] = pings[i]
        /\ pings'[Len(pings) + 1] = "sent"
        /\ pings' \in Seq({"sent", "received"})
    BY <2>1
  <2>3. Received' = Received
    BY <2>1, <2>2 DEF Received
  <2>4. TypeOK'
    BY <2>1, <2>2, MaxPingsAssumption DEF Push, setting, IInv, TypeOK, MainState
  <2>5. SlotInv' /\ PacketInv'
    BY <2>1, <2>2 DEF Push, setting, IInv, TypeOK, SlotInv, PacketInv, Genuine
  <2>6. RepliesFindTheirSlot'
    BY <2>1, <2>2, <2>3, WrapAssumption DEF Push, setting, IInv, RepliesFindTheirSlot
  <2>7. PoisonOnlyAfterWrap'
    BY <1>2 DEF Push, setting, PoisonOnlyAfterWrap
  <2> QED
    BY <2>4, <2>5, <2>6, <2>7 DEF IInv
<1> QED
  BY <1>1, <1>2

\* The steps of the main thread.
LEMMA MainPreserves ==
  ASSUME IInv, Main
  PROVE  IInv'
<1> USE DEF setting, IInv, TypeOK, MainState, SlotInv, PacketInv, Genuine,
            RepliesFindTheirSlot, PoisonOnlyAfterWrap, Received
<1>1. CASE Loop
  BY <1>1 DEF Loop
<1>2. CASE Push
  BY <1>2, PushPreserves
<1>3. CASE Send
  <2>1. Len(pings) \in 1..MaxPings /\ Len(pings) \in 1..Len(pings)
    <3>1. Len(pings) \in Nat /\ Len(pings) > 0 /\ Len(pings) <= MaxPings
      BY <1>3 DEF Send
    <3> QED
      BY <3>1, MaxPingsAssumption
  <2>2. requests' \subseteq 1..MaxPings /\ requests' \subseteq 1..Len(pings')
    BY <1>3, <2>1 DEF Send
  <2>3. TypeOK' /\ SlotInv'
    BY <1>3, <2>2 DEF Send
  <2>4. PacketInv'
    BY <1>3 DEF Send
  <2>5. RepliesFindTheirSlot' /\ PoisonOnlyAfterWrap'
    BY <1>3 DEF Send
  <2> QED
    BY <2>3, <2>4, <2>5
<1>4. CASE SendFails
  BY <1>4 DEF SendFails
<1>5. CASE Sleep
  BY <1>5 DEF Sleep
<1>6. CASE Summary
  BY <1>6 DEF Summary
<1>7. CASE Resolve
  BY <1>7 DEF Resolve
<1>8. CASE SetHandler
  BY <1>8 DEF SetHandler
<1> QED
  BY <1>1, <1>2, <1>3, <1>4, <1>5, <1>6, <1>7, <1>8 DEF Main

-----------------------------------------------------------------------------

\* The listener takes a packet from the network, which is in the invariant there.
LEMMA ReceivePreserves ==
  ASSUME IInv, Receive
  PROVE  IInv'
<1> PICK p \in replies :
      /\ packet' = p
      /\ replies' \in {replies, replies \ {p}}
      /\ answered' = answered \cup ({p.ping} \ {0})
  BY DEF Receive
<1>1. /\ listener = "recv" /\ listener' = "lock"
      /\ UNCHANGED <<setting, pings, running, main, poisoned, requests>>
  BY DEF Receive
<1>2. p \in Packet /\ Genuine(p)
  BY DEF IInv, TypeOK, PacketInv
<1>3. TypeOK'
  <2>1. {p.ping} \ {0} \subseteq 1..MaxPings
    BY <1>2, MaxPingsAssumption DEF Packet
  <2>2. answered' \subseteq 1..MaxPings /\ replies' \subseteq Packet /\ packet' \in Packet
    BY <1>2, <2>1 DEF IInv, TypeOK
  <2> QED
    BY <1>1, <2>2 DEF IInv, TypeOK, setting
<1>4. SlotInv' /\ PacketInv'
  BY <1>1, <1>2 DEF IInv, SlotInv, PacketInv, Genuine
<1>5. RepliesFindTheirSlot'
  BY <1>1 DEF IInv, TypeOK, PacketInv, NoPacket, RepliesFindTheirSlot, Received, setting
<1>6. PoisonOnlyAfterWrap'
  BY <1>1 DEF IInv, PoisonOnlyAfterWrap, setting
<1> QED
  BY <1>3, <1>4, <1>5, <1>6 DEF IInv

\* Before the wrap, the slot that a reply selects is the one of its request.
LEMMA OwnSlot ==
  ASSUME IInv, listener = "lock", version = "V4", Len(pings) < Wrap
  PROVE  IF packet.ping = 0 THEN packet.seq \in Foreign
         ELSE packet.seq = packet.ping /\ packet.ping \in 1..Len(pings)
                /\ packet.ping \in answered
<1>1. Genuine(packet) /\ (packet.ping # 0 => packet.ping \in answered)
  BY DEF IInv, PacketInv
<1>2. CASE packet.ping # 0
  <2>1. packet.ping \in 1..Len(pings) /\ packet.seq = SequenceOf(packet.ping)
    BY <1>1, <1>2 DEF Genuine, IInv, SlotInv
  <2>2. packet.ping \in Nat \ {0} /\ packet.ping < Wrap
    BY <2>1, WrapAssumption DEF IInv, TypeOK
  <2> QED
    BY <1>1, <1>2, <2>1, <2>2, SequenceOfSlot
<1> QED
  BY <1>1, <1>2 DEF Genuine

\* What both ways to mark a slot do.
LEMMA MarkPreserves ==
  ASSUME IInv, ProcessAlive, listener = "lock", SequenceNumber \in Nat,
         pings' = [i \in 1..Len(pings) |->
                     IF i = SequenceNumber THEN "received" ELSE pings[i]],
         packet' = NoPacket,
         UNCHANGED <<version, requests, replies, answered>>,
         main' \in {main, "failure"}
  PROVE  /\ pings' \in Seq({"sent", "received"}) /\ Len(pings') = Len(pings)
         /\ RepliesFindTheirSlot'
<1>1. pings \in Seq({"sent", "received"})
  BY DEF IInv, TypeOK
<1>2. /\ Len(pings') = Len(pings) /\ Len(pings) \in Nat
      /\ \A i \in 1..Len(pings) :
           pings'[i] = IF i = SequenceNumber THEN "received" ELSE pings[i]
      /\ pings' \in Seq({"sent", "received"})
  BY <1>1
<1>3. Received' = Received \cup ({SequenceNumber} \cap 1..Len(pings))
  BY <1>2 DEF Received
<1>4. version = "V4" /\ Len(pings) < Wrap =>
        /\ Received' \subseteq answered \cup Foreign
        /\ answered \subseteq Received'
  <2> SUFFICES ASSUME version = "V4", Len(pings) < Wrap
               PROVE  /\ Received' \subseteq answered \cup Foreign
                      /\ answered \subseteq Received'
    OBVIOUS
  <2>1. /\ Received \subseteq answered \cup Foreign
        /\ answered \ {packet.ping} \subseteq Received
    BY DEF IInv, RepliesFindTheirSlot
  <2>2. SequenceNumber = packet.seq
    BY DEF SequenceNumber
  <2>3. CASE packet.ping = 0
    <3>1. packet.seq \in Foreign /\ 0 \notin answered
      BY <2>3, OwnSlot DEF IInv, TypeOK
    <3> QED
      BY <1>3, <2>1, <2>2, <2>3, <3>1
  <2>4. CASE packet.ping # 0
    <3>1. packet.seq = packet.ping /\ packet.ping \in 1..Len(pings) /\ packet.ping \in answered
      BY <2>4, OwnSlot
    <3> QED
      BY <1>3, <2>1, <2>2, <3>1
  <2> QED
    BY <2>3, <2>4
<1>5. version = "V6" => Received' \subseteq {1}
  BY <1>3 DEF IInv, RepliesFindTheirSlot, SequenceNumber
<1>6. main' # "none"
  BY DEF ProcessAlive
<1> QED
  BY <1>2, <1>4, <1>5, <1>6 DEF RepliesFindTheirSlot, NoPacket

\* The poisoning of the mutex does not depend on anything else a step changes.
LEMMA RegisterPreserves ==
  ASSUME IInv, ProcessAlive, Register
  PROVE  IInv'
<1>1. SequenceNumber \in Nat
  BY WrapAssumption DEF SequenceNumber, IInv, TypeOK, Packet
<1>2. /\ pings' \in Seq({"sent", "received"}) /\ Len(pings') = Len(pings)
      /\ RepliesFindTheirSlot'
  BY <1>1, MarkPreserves DEF Register, setting
<1>3. TypeOK'
  <2>1. NoPacket \in Packet
    BY WrapAssumption, MaxPingsAssumption DEF NoPacket, Packet
  <2> QED
    BY <1>2, <2>1 DEF Register, setting, IInv, TypeOK
<1>4. SlotInv' /\ PacketInv'
  BY <1>2 DEF Register, setting, IInv, SlotInv, PacketInv, Genuine
<1>5. PoisonOnlyAfterWrap'
  BY <1>2 DEF Register, setting, IInv, PoisonOnlyAfterWrap
<1> QED
  BY <1>2, <1>3, <1>4, <1>5 DEF IInv

\* A reply that cannot be printed: the listener dies with the mutex held.
LEMMA RegisterPrintFailsPreserves ==
  ASSUME IInv, ProcessAlive, RegisterPrintFails
  PROVE  IInv'
<1>1. SequenceNumber \in Nat
  BY WrapAssumption DEF SequenceNumber, IInv, TypeOK, Packet
<1>3. /\ pings' \in Seq({"sent", "received"}) /\ Len(pings') = Len(pings)
      /\ RepliesFindTheirSlot'
  BY <1>1, MarkPreserves DEF RegisterPrintFails
<1>4. TypeOK'
  <2>1. NoPacket \in Packet
    BY WrapAssumption, MaxPingsAssumption DEF NoPacket, Packet
  <2>2. {running', poisoned', printFailed'} \subseteq BOOLEAN
    <3>1. printFailed' \in BOOLEAN /\ running' \in BOOLEAN
      BY DEF RegisterPrintFails, IInv, TypeOK
    <3>2. poisoned' \in BOOLEAN
      BY DEF RegisterPrintFails, IInv, TypeOK
    <3> QED
      BY <3>1, <3>2
  <2> QED
    BY <1>3, <2>1, <2>2 DEF RegisterPrintFails, IInv, TypeOK, MainState
<1>5. SlotInv' /\ PacketInv'
  BY <1>3 DEF RegisterPrintFails, IInv, SlotInv, PacketInv, Genuine
<1>6. PoisonOnlyAfterWrap'
  BY DEF RegisterPrintFails, PoisonOnlyAfterWrap
<1> QED
  BY <1>3, <1>4, <1>5, <1>6 DEF IInv

\* A sequence number 0 is a foreign one, or comes from a request after the wrap.
LEMMA RegisterPanicsPreserves ==
  ASSUME IInv, ProcessAlive, RegisterPanics
  PROVE  IInv'
<1>1. version = "V4" /\ packet.seq = 0 /\ build = "dev" /\ Genuine(packet)
  BY VersionsAssumption
  DEF RegisterPanics, SequenceNumber, IInv, TypeOK, PacketInv
<1>2. Len(pings) < Wrap => packet.ping = 0 /\ 0 \in Foreign
  <2> SUFFICES ASSUME Len(pings) < Wrap
               PROVE  packet.ping = 0 /\ 0 \in Foreign
    OBVIOUS
  <2>1. IF packet.ping = 0 THEN packet.seq \in Foreign
        ELSE packet.seq = packet.ping /\ packet.ping \in 1..Len(pings)
               /\ packet.ping \in answered
    BY <1>1, OwnSlot DEF RegisterPanics
  <2> QED
    BY <1>1, <2>1
<1>3. TypeOK'
  <2>1. NoPacket \in Packet
    BY WrapAssumption, MaxPingsAssumption DEF NoPacket, Packet
  <2>2. {running', poisoned', printFailed'} \subseteq BOOLEAN
    BY Zenon DEF RegisterPanics, setting, IInv, TypeOK
  <2> QED
    BY <2>1, <2>2 DEF RegisterPanics, setting, IInv, TypeOK
<1>4. SlotInv' /\ PacketInv'
  BY DEF RegisterPanics, setting, IInv, SlotInv, PacketInv, Genuine
<1>5. RepliesFindTheirSlot'
  <2>1. 0 \notin answered
    BY DEF IInv, TypeOK
  <2>2. version = "V4" /\ UNCHANGED <<version, pings, main, answered>>
    BY <1>1 DEF RegisterPanics, setting
  <2>3. main' # "none" /\ Received' = Received
    BY <2>2 DEF ProcessAlive, Received
  <2>4. Len(pings) < Wrap => answered \subseteq Received /\ Received \subseteq answered \cup Foreign
    BY <1>1, <1>2, <2>1 DEF IInv, RepliesFindTheirSlot
  <2> QED
    BY <2>2, <2>3, <2>4 DEF RepliesFindTheirSlot
<1>6. PoisonOnlyAfterWrap'
  <2>1. Len(pings) >= Wrap \/ 0 \in Foreign
    BY <1>2, WrapAssumption DEF IInv, TypeOK
  <2> QED
    BY <1>1, <2>1 DEF RegisterPanics, setting, PoisonOnlyAfterWrap
<1> QED
  BY <1>3, <1>4, <1>5, <1>6 DEF IInv

\* The network, and the threads that end.
LEMMA OthersPreserve ==
  ASSUME IInv, ListenerQuits \/ Answer \/ CtrlC
  PROVE  IInv'
<1> USE DEF setting, IInv, TypeOK, MainState, SlotInv, PacketInv, Genuine,
            RepliesFindTheirSlot, PoisonOnlyAfterWrap, Received
<1>1. CASE ListenerQuits
  BY <1>1 DEF ListenerQuits
<1>2. CASE Answer
  <2> PICK i \in requests : replies' = replies \cup {[seq |-> SequenceOf(i), ping |-> i]}
    BY <1>2 DEF Answer
  <2>1. i \in 1..MaxPings /\ SequenceOf(i) \in 0..(Wrap - 1)
    BY SequenceOfSlot
  <2>2. replies' \subseteq Packet
    BY <2>1, MaxPingsAssumption DEF Packet
  <2>3. \A p \in replies' : Genuine(p)
    BY <2>1
  <2> QED
    BY <1>2, <2>2, <2>3 DEF Answer
<1>3. CASE CtrlC
  <2>1. {running', poisoned', printFailed'} \subseteq BOOLEAN
    BY <1>3, Zenon DEF CtrlC
  <2> QED
    BY <1>3, <2>1 DEF CtrlC
<1> QED
  BY <1>1, <1>2, <1>3

-----------------------------------------------------------------------------

\* The inductive invariant.
THEOREM Invariance == Spec => []IInv
<1>1. ASSUME IInv, [Next]_vars
      PROVE  IInv'
  <2>1. CASE ProcessAlive /\ (Main \/ Receive \/ Register \/ RegisterPrintFails
                                 \/ RegisterPanics \/ ListenerQuits \/ Answer \/ CtrlC)
    BY <1>1, <2>1, MainPreserves, ReceivePreserves, RegisterPreserves,
       RegisterPrintFailsPreserves, RegisterPanicsPreserves, OthersPreserve
  <2>2. CASE UNCHANGED vars
    BY <1>1, <2>2 DEF vars, IInv, TypeOK, SlotInv, PacketInv, Genuine,
                      RepliesFindTheirSlot, PoisonOnlyAfterWrap, Received
  <2> QED
    BY <1>1, <2>1, <2>2 DEF Next, Ended
<1> QED
  BY InitEstablishes, <1>1, PTL DEF Spec

\* Every variable keeps its type; no more slots are made than the bound allows,
\* and every request on the network has a slot.
THEOREM TypeCorrect == Spec => []TypeOK
<1>1. IInv => TypeOK
  BY DEF IInv
<1> QED
  BY Invariance, <1>1, PTL

\* Until the sequence number wraps, the replies that came and no others mark their
\* slots, whatever is lost, late, duplicated or reordered.
THEOREM RepliesAreMatched == Spec => []RepliesFindTheirSlot
<1>1. IInv => RepliesFindTheirSlot
  BY DEF IInv
<1> QED
  BY Invariance, <1>1, PTL

\* The only ways in which the listener can die with the mutex held.
THEOREM PoisonExplained == Spec => []PoisonOnlyAfterWrap
<1>1. IInv => PoisonOnlyAfterWrap
  BY DEF IInv
<1> QED
  BY Invariance, <1>1, PTL

-----------------------------------------------------------------------------
(* timeout. *)

\* Which children there can be where.
ChildInv ==
  /\ at \in {"parse", "spawn"} => child = "none"
  /\ at \in {"poll", "check", "sleep", "kill"} => child \in {"running", "exited"}
  /\ at = "done" /\ child = "running" => status = Aborted /\ (foreign \/ pollFailed)
  /\ child = "none" => ~foreign

\* A child that was running at the last poll has not ended before it, unless it
\* has been polled again; the program gives up only for a reason.
PollInv ==
  /\ lastPoll <= now
  /\ at \in {"check", "sleep", "kill"} /\ child = "exited" /\ ~pollFailed =>
       endedAt >= lastPoll
  /\ at = "kill" => pollFailed \/ now > duration
  /\ at = "done" /\ child = "running" /\ ~pollFailed => now > duration

\* The inductive invariant.
TimeoutIInv == TimeoutTypeOK /\ ChildInv /\ PollInv /\ StatusTellsTheEnd

-----------------------------------------------------------------------------

\* There is no child yet.
LEMMA TimeoutInitEstablishes == TimeoutInit => TimeoutIInv
<1> SUFFICES ASSUME TimeoutInit PROVE TimeoutIInv
  OBVIOUS
<1>1. TimeoutTypeOK
  <2>1. pollFailed \in BOOLEAN /\ foreign \in BOOLEAN
    BY Zenon DEF TimeoutInit
  <2> QED
    BY <2>1, IntervalAssumption, MaxTimeAssumption DEF TimeoutInit, TimeoutTypeOK, Place
<1>2. ChildInv /\ PollInv /\ StatusTellsTheEnd
  BY DEF TimeoutInit, ChildInv, PollInv, StatusTellsTheEnd
<1> QED
  BY <1>1, <1>2 DEF TimeoutIInv

\* The exit status of the child, in the range of exit().
LEMMA ExitTypes ==
  ASSUME TimeoutTypeOK
  PROVE  (IF code = BySignal THEN Failed ELSE code) \in 0..255
BY CodesAssumption DEF TimeoutTypeOK, BySignal, Failed

\* The steps of the program.
LEMMA ProgramPreserves ==
  ASSUME TimeoutIInv, Program
  PROVE  TimeoutIInv'
<1> USE DurationsAssumption, IntervalAssumption, MaxTimeAssumption
    DEF arguments, childVars, pollVars, Exit, Place
<1>1. CASE Parse
  BY <1>1 DEF Parse, TimeoutIInv, TimeoutTypeOK, ChildInv, PollInv, StatusTellsTheEnd
<1>2. CASE Spawn
  <2>1. CASE child' = "running" /\ foreign' \in BOOLEAN /\ at' = "poll" /\ UNCHANGED status
    BY <1>2, <2>1 DEF Spawn, TimeoutIInv, TimeoutTypeOK, ChildInv, PollInv, StatusTellsTheEnd
  <2>2. CASE SpawnFails /\ UNCHANGED <<child, foreign>>
    BY <1>2, <2>2
    DEF Spawn, SpawnFails, Failed, Aborted, TimeoutIInv, TimeoutTypeOK, ChildInv, PollInv,
        StatusTellsTheEnd
  <2> QED
    BY <1>2, <2>1, <2>2 DEF Spawn
<1>3. CASE PollExited
  BY <1>3, ExitTypes DEF PollExited, TimeoutIInv, TimeoutTypeOK, ChildInv, PollInv, StatusTellsTheEnd
<1>4. CASE PollRunning
  BY <1>4 DEF PollRunning, TimeoutIInv, TimeoutTypeOK, ChildInv, PollInv, StatusTellsTheEnd
<1>5. CASE PollFails
  <2>1. TimeoutTypeOK'
    <3>1. pollFailed' \in BOOLEAN /\ foreign' \in BOOLEAN
      BY <1>5, Zenon DEF PollFails, TimeoutIInv, TimeoutTypeOK
    <3> QED
      BY <1>5, <3>1 DEF PollFails, TimeoutIInv, TimeoutTypeOK, Aborted
  <2>2. ChildInv' /\ PollInv' /\ StatusTellsTheEnd'
    BY <1>5 DEF PollFails, TimeoutIInv, TimeoutTypeOK, ChildInv, PollInv, StatusTellsTheEnd
  <2> QED
    BY <2>1, <2>2 DEF TimeoutIInv
<1>6. CASE Check
  BY <1>6 DEF Check, TimeoutIInv, TimeoutTypeOK, ChildInv, PollInv, StatusTellsTheEnd
<1>7. CASE Wake
  BY <1>7 DEF Wake, TimeoutIInv, TimeoutTypeOK, ChildInv, PollInv, StatusTellsTheEnd
<1>8. CASE Kill
  BY <1>8 DEF Kill, TimeoutIInv, TimeoutTypeOK, ChildInv, PollInv, StatusTellsTheEnd, TimedOut
<1>9. CASE KillFails
  BY <1>9 DEF KillFails, TimeoutIInv, TimeoutTypeOK, ChildInv, PollInv, StatusTellsTheEnd, Aborted
<1> QED
  BY <1>1, <1>2, <1>3, <1>4, <1>5, <1>6, <1>7, <1>8, <1>9 DEF Program

\* The child exits, or time passes.
LEMMA EnvironmentPreserves ==
  ASSUME TimeoutIInv, ChildExits \/ Tick
  PROVE  TimeoutIInv'
<1> USE DurationsAssumption, MaxTimeAssumption
    DEF arguments, childVars, pollVars, Place
<1>1. CASE ChildExits
  BY <1>1 DEF ChildExits, TimeoutIInv, TimeoutTypeOK, ChildInv, PollInv, StatusTellsTheEnd
<1>2. CASE Tick
  BY <1>2 DEF Tick, TimeoutIInv, TimeoutTypeOK, ChildInv, PollInv, StatusTellsTheEnd
<1> QED
  BY <1>1, <1>2

\* The inductive invariant.
THEOREM TimeoutInvariance == TimeoutSpec => []TimeoutIInv
<1>1. ASSUME TimeoutIInv, [TimeoutNext]_timeoutVars
      PROVE  TimeoutIInv'
  <2>1. CASE Program
    BY <1>1, <2>1, ProgramPreserves
  <2>2. CASE ChildExits \/ Tick
    BY <1>1, <2>2, EnvironmentPreserves
  <2>3. CASE UNCHANGED timeoutVars
    BY <1>1, <2>3 DEF timeoutVars, TimeoutIInv, TimeoutTypeOK, ChildInv, PollInv, StatusTellsTheEnd
  <2> QED
    BY <1>1, <2>1, <2>2, <2>3 DEF TimeoutNext, ProgramEnded
<1> QED
  BY TimeoutInitEstablishes, <1>1, PTL DEF TimeoutSpec

\* Every variable keeps its type: the exit status fits in a byte, and the clock
\* stays within its bound.
THEOREM TimeoutTypeCorrect == TimeoutSpec => []TimeoutTypeOK
<1>1. TimeoutIInv => TimeoutTypeOK
  BY DEF TimeoutIInv
<1> QED
  BY TimeoutInvariance, <1>1, PTL

\* 124 is given, and the command killed, only after its time was up and when it
\* was still running at the last poll; so is the panic about a command that may not
\* be killed; otherwise the status is the command's own.
THEOREM StatusIsTrue == TimeoutSpec => []StatusTellsTheEnd
<1>1. TimeoutIInv => StatusTellsTheEnd
  BY DEF TimeoutIInv
<1> QED
  BY TimeoutInvariance, <1>1, PTL

-----------------------------------------------------------------------------
(* less. *)

USE SizesAssumption

-----------------------------------------------------------------------------
(* Positions in the file. *)

\* The newlines are positions in the text.
LEMMA TextFacts ==
  text \in Texts => /\ Size \in Nat
                    /\ \A i \in Newlines : i \in Nat /\ i < Size
BY TextsAssumption, LenProperties DEF Size, Newlines

\* A set inside a set of one element has at most one.
LEMMA AtMostOne ==
  ASSUME NEW x, NEW T, T \subseteq {x}
  PROVE  Cardinality(T) <= 1
<1>1. IsFiniteSet({x}) /\ Cardinality({x}) = 1
  BY FS_Singleton
<1> QED BY <1>1, FS_Subset

\* Between the line above a position and the position there is at most one newline.
LEMMA LineAboveFacts ==
  ASSUME text \in Texts, NEW pos \in 0..Size
  PROVE  /\ LineAbove(pos) \in 0..pos
         /\ LineAbove(pos) = 0 \/ LineAbove(pos) = 1 \/ LineAbove(pos) - 1 \in Newlines
         /\ Cardinality({i \in Newlines : LineAbove(pos) <= i /\ i < pos}) <= 1
         /\ Size > 1 => LineAbove(pos) < Size
         /\ pos <= 1 => LineAbove(pos) = pos
<1> DEFINE ends == {i \in Newlines : i < pos - 1}
<1>1. pos \in Nat /\ pos <= Size /\ Size \in Nat /\ \A i \in Newlines : i \in Nat /\ i < Size
  BY TextFacts
<1>2. ends \subseteq 0..Size
  BY <1>1
<1>3. ends # {} => Max(ends) \in ends /\ \A i \in ends : i <= Max(ends)
  <2> HIDE DEF ends
  <2> QED BY <1>1, <1>2, MaxIsGreatest
<1>4. LineAbove(pos) = IF pos <= 1 THEN pos ELSE IF ends = {} THEN 0 ELSE Max(ends) + 1
  BY DEF LineAbove
<1>5. \A i \in Newlines : LineAbove(pos) <= i /\ i < pos => i = pos - 1
  BY <1>1, <1>3, <1>4, SMTT(30)
<1>6. Cardinality({i \in Newlines : LineAbove(pos) <= i /\ i < pos}) <= 1
  BY <1>5, AtMostOne
<1> QED BY <1>1, <1>3, <1>4, <1>6

\* The line above a position further down is not above the line one came from.
LEMMA LineAboveNotBefore ==
  ASSUME text \in Texts, NEW pos \in 0..Size, NEW line \in Nat, line < pos,
         line = 0 \/ line - 1 \in Newlines
  PROVE  /\ line <= LineAbove(pos)
         /\ LineAbove(pos) < pos \/ pos = 1
<1> DEFINE ends == {i \in Newlines : i < pos - 1}
<1>1. pos \in Nat /\ pos <= Size /\ Size \in Nat /\ \A i \in Newlines : i \in Nat /\ i < Size
  BY TextFacts
<1>2. ends \subseteq 0..Size
  BY <1>1
<1>3. ends # {} => Max(ends) \in ends /\ \A i \in ends : i <= Max(ends)
  <2> HIDE DEF ends
  <2> QED BY <1>1, <1>2, MaxIsGreatest
<1>4. LineAbove(pos) = IF pos <= 1 THEN pos ELSE IF ends = {} THEN 0 ELSE Max(ends) + 1
  BY DEF LineAbove
<1>5. line # 0 => line - 1 \in ends
  BY <1>1
<1>6. ends # {} => Max(ends) \in Nat /\ Max(ends) + 1 < pos
  BY <1>1, <1>3
<1> DEFINE top == Max(ends)
<1>7. /\ LineAbove(pos) = IF pos <= 1 THEN pos ELSE IF ends = {} THEN 0 ELSE top + 1
      /\ ends # {} => top \in Nat /\ top + 1 < pos /\ \A i \in ends : i <= top
  BY <1>3, <1>4, <1>6
<1> HIDE DEF ends, top
<1>8. CASE line = 0
  BY <1>1, <1>7, <1>8
<1>9. CASE line # 0
  <2>1. line - 1 <= top /\ top \in Nat /\ top + 1 < pos /\ pos > 1
    BY <1>1, <1>5, <1>7, <1>9
  <2>2. LineAbove(pos) = top + 1
    BY <1>1, <1>5, <1>7, <1>9, <2>1
  <2> QED BY <1>1, <2>1, <2>2
<1> QED BY <1>8, <1>9

\* The line below a position starts after a newline, or there is none.
LEMMA LineBelowFacts ==
  ASSUME text \in Texts, NEW pos \in 0..Size
  PROVE  \/ LineBelow(pos) = pos
         \/ LineBelow(pos) \in 1..(Size - 1) /\ LineBelow(pos) - 1 \in Newlines
<1> DEFINE ends == {i \in Newlines : i >= pos}
<1>1. pos \in Nat /\ pos <= Size /\ Size \in Nat /\ \A i \in Newlines : i \in Nat /\ i < Size
  BY TextFacts
<1>2. ends # {} => Min(ends) \in ends
  <2>1. ends \subseteq Nat
    BY <1>1
  <2> HIDE DEF ends
  <2> QED BY <2>1, MinIsLeast
<1>3. LineBelow(pos) = IF ends = {} \/ Min(ends) + 1 >= Size THEN pos ELSE Min(ends) + 1
  BY DEF LineBelow
<1> QED BY <1>1, <1>2, <1>3

\* Whether a pattern matches depends on the file only.
LEMMA MatchesUnchanged ==
  ASSUME UNCHANGED text
  PROVE  \A p, pos : MatchesAt(p, pos)' = MatchesAt(p, pos)
BY DEF MatchesAt, Eats, Starred, Size

-----------------------------------------------------------------------------
(* The matcher. *)

\* The table of MatchesAt, from itself.
Body(f, p) ==
  [s \in (1..(Len(p) + 1)) \X (1..(Size + 1)) |->
     LET k == s[1]
         i == s[2]
     IN  IF k > Len(p) THEN TRUE
         ELSE IF p[k] = "*" THEN f[<<k + 1, i>>]
         ELSE IF Starred(p, k)
              THEN f[<<k + 1, i>>] \/ (Eats(p, k, i) /\ f[<<k, i + 1>>])
              ELSE Eats(p, k, i) /\ f[<<k + 1, i + 1>>]]

\* MatchesAt looks its answer up in the table that is its own body.
LEMMA Unfolded ==
  ASSUME NEW p, NEW pos
  PROVE  MatchesAt(p, pos) = (CHOOSE f : f = Body(f, p))[<<1, pos + 1>>]
BY DEF MatchesAt, Body

\* A pattern without operators; from its k-th place it is in the file from the i-th.
Literal(p) == Range(p) \cap {".", "*", "("} = {}
Agrees(p, k, i) == \A j \in k..Len(p) : i + (j - k) <= Size /\ text[i + (j - k)] = p[j]

\* For literals only the last case of the matcher is left.
LEMMA LiteralBody ==
  ASSUME text \in Texts, NEW p \in Seq(Chars), Literal(p), NEW f,
         NEW k \in 1..(Len(p) + 1), NEW i \in 1..(Size + 1)
  PROVE  Body(f, p)[<<k, i>>] = IF k > Len(p) THEN TRUE ELSE Eats(p, k, i) /\ f[<<k + 1, i + 1>>]
<1>1. Len(p) \in Nat /\ \A j \in 1..Len(p) : p[j] \in Range(p)
  BY LenProperties DEF Range
<1>2. \A j \in 1..Len(p) : p[j] # "*"
  BY <1>1 DEF Literal
<1>3. ~Starred(p, k)
  BY <1>1, <1>2 DEF Starred
<1>4. Body(f, p)[<<k, i>>] =
        IF k > Len(p) THEN TRUE
        ELSE IF p[k] = "*" THEN f[<<k + 1, i>>]
        ELSE IF Starred(p, k)
             THEN f[<<k + 1, i>>] \/ (Eats(p, k, i) /\ f[<<k, i + 1>>])
             ELSE Eats(p, k, i) /\ f[<<k + 1, i + 1>>]
  BY DEF Body
<1>5. CASE k > Len(p)
  BY <1>4, <1>5, Zenon
<1>6. CASE ~(k > Len(p))
  <2>1. k \in 1..Len(p)
    BY <1>1, <1>6
  <2>2. p[k] # "*"
    BY <1>2, <2>1
  <2> QED BY <1>3, <1>4, <1>6, <2>2, Zenon
<1> QED BY <1>5, <1>6

\* Reading a literal off the file byte by byte is the same recursion.
LEMMA AgreesStep ==
  ASSUME text \in Texts, NEW p \in Seq(Chars), Literal(p),
         NEW k \in 1..(Len(p) + 1), NEW i \in 1..(Size + 1)
  PROVE  Agrees(p, k, i) = IF k > Len(p) THEN TRUE
                           ELSE Eats(p, k, i) /\ Agrees(p, k + 1, i + 1)
<1>1. Len(p) \in Nat /\ Size \in Nat /\ \A j \in 1..Len(p) : p[j] # "."
  BY LenProperties, TextFacts DEF Range, Literal
<1>2. CASE k > Len(p)
  BY <1>1, <1>2 DEF Agrees
<1>3. CASE k <= Len(p)
  <2>1. Eats(p, k, i) = (i <= Size /\ text[i] = p[k])
    BY <1>1, <1>3 DEF Eats
  <2>2. ASSUME Agrees(p, k, i) PROVE Eats(p, k, i) /\ Agrees(p, k + 1, i + 1)
    <3>1. i + (k - k) = i /\ k \in k..Len(p)
      BY <1>1, <1>3
    <3>2. Eats(p, k, i)
      BY <2>1, <2>2, <3>1 DEF Agrees
    <3>3. ASSUME NEW j \in (k + 1)..Len(p)
          PROVE  (i + 1) + (j - (k + 1)) <= Size /\ text[(i + 1) + (j - (k + 1))] = p[j]
      <4>1. (i + 1) + (j - (k + 1)) = i + (j - k) /\ j \in k..Len(p)
        BY <1>1
      <4> QED BY <2>2, <4>1 DEF Agrees
    <3> QED BY <3>2, <3>3 DEF Agrees
  <2>3. ASSUME Eats(p, k, i), Agrees(p, k + 1, i + 1) PROVE Agrees(p, k, i)
    <3>1. ASSUME NEW j \in k..Len(p)
          PROVE  i + (j - k) <= Size /\ text[i + (j - k)] = p[j]
      <4>1. CASE j = k
        <5>1. i + (j - k) = i
          BY <4>1
        <5> QED BY <2>1, <2>3, <4>1, <5>1
      <4>2. CASE j # k
        <5>1. j \in (k + 1)..Len(p) /\ (i + 1) + (j - (k + 1)) = i + (j - k)
          BY <1>1, <4>2
        <5> QED BY <2>3, <5>1 DEF Agrees
      <4> QED BY <4>1, <4>2
    <3> QED BY <3>1 DEF Agrees
  <2>4. (Eats(p, k, i) \in BOOLEAN) /\ (Agrees(p, k, i) \in BOOLEAN)
    BY <2>1 DEF Agrees
  <2>5. ~(k > Len(p))
    BY <1>1, <1>3
  <2> QED BY <2>2, <2>3, <2>4, <2>5
<1>4. k > Len(p) \/ k <= Len(p)
  BY <1>1
<1> QED BY <1>2, <1>3, <1>4

\* The matcher finds a pattern of literals where the file has its bytes, by induction
\* on what is left of the pattern.
LEMMA LiteralMatches ==
  ASSUME text \in Texts, NEW p \in Seq(Chars), Literal(p), NEW pos \in 0..Size
  PROVE  MatchesAt(p, pos) <=> Agrees(p, 1, pos + 1)
<1> DEFINE K == 1..(Len(p) + 1)
           I == 1..(Size + 1)
           g == [s \in K \X I |-> Agrees(p, s[1], s[2])]
           f == CHOOSE h : h = Body(h, p)
<1>1. Len(p) \in Nat /\ Size \in Nat
  BY LenProperties, TextFacts
<1>2. g = Body(g, p)
  <2>1. ASSUME NEW k \in K, NEW i \in I PROVE g[<<k, i>>] = Body(g, p)[<<k, i>>]
    <3>1. g[<<k, i>>] = IF k > Len(p) THEN TRUE ELSE Eats(p, k, i) /\ Agrees(p, k + 1, i + 1)
      BY AgreesStep
    <3>2. Body(g, p)[<<k, i>>] = IF k > Len(p) THEN TRUE ELSE Eats(p, k, i) /\ g[<<k + 1, i + 1>>]
      <4> HIDE DEF g
      <4> QED BY LiteralBody
    <3>3. CASE k > Len(p)
      <4> HIDE DEF g
      <4> QED BY <3>1, <3>2, <3>3, Zenon
    <3>4. CASE ~(k > Len(p)) /\ ~Eats(p, k, i)
      <4> DEFINE X == Agrees(p, k + 1, i + 1)
                 Y == g[<<k + 1, i + 1>>]
      <4>1. (Eats(p, k, i) /\ X) = FALSE /\ (Eats(p, k, i) /\ Y) = FALSE
        <5> HIDE DEF X, Y
        <5> QED BY <3>4
      <4> HIDE DEF g
      <4> QED BY <3>1, <3>2, <3>4, <4>1, Zenon
    <3>5. CASE ~(k > Len(p)) /\ Eats(p, k, i)
      <4>1. k + 1 \in K /\ i + 1 \in I
        BY <1>1, <3>5 DEF Eats
      <4>2. g[<<k + 1, i + 1>>] = Agrees(p, k + 1, i + 1)
        BY <4>1
      <4> HIDE DEF g
      <4> QED BY <3>1, <3>2, <3>5, <4>2
    <3> QED BY <3>3, <3>4, <3>5
  <2>2. \A s \in K \X I : g[s] = Body(g, p)[s]
    <3> DEFINE b == Body(g, p)
    <3>1. \A k \in K, i \in I : g[<<k, i>>] = b[<<k, i>>]
      BY <2>1
    <3> HIDE DEF K, I, g, b
    <3>2. \A s \in K \X I : g[s] = b[s]
      BY <3>1
    <3> QED BY <3>2 DEF b
  <2>3. g = [s \in K \X I |-> g[s]] /\ Body(g, p) = [s \in K \X I |-> Body(g, p)[s]]
    BY DEF Body
  <2> HIDE DEF g
  <2> QED BY <2>2, <2>3
<1>3. f = Body(f, p)
  <2> HIDE DEF g
  <2> QED BY <1>2
<1> HIDE DEF f, g
<1> DEFINE P == {n \in Nat : \A k \in K, i \in I : Len(p) + 1 - k = n => (f[<<k, i>>] <=> Agrees(p, k, i))}
<1>4. ASSUME NEW k \in K, NEW i \in I
      PROVE  f[<<k, i>>] = IF k > Len(p) THEN TRUE ELSE Eats(p, k, i) /\ f[<<k + 1, i + 1>>]
  <2>1. Body(f, p)[<<k, i>>] = IF k > Len(p) THEN TRUE ELSE Eats(p, k, i) /\ f[<<k + 1, i + 1>>]
    BY LiteralBody
  <2> QED BY <1>3, <2>1, Zenon
<1>5. 0 \in P
  <2>1. ASSUME NEW k \in K, NEW i \in I, Len(p) + 1 - k = 0 PROVE f[<<k, i>>] <=> Agrees(p, k, i)
    <3>1. k > Len(p)
      BY <1>1, <2>1
    <3> QED BY <1>4, <3>1, AgreesStep
  <2> QED BY <2>1
<1>6. ASSUME NEW n \in Nat, n \in P PROVE n + 1 \in P
  <2>1. ASSUME NEW k \in K, NEW i \in I, Len(p) + 1 - k = n + 1 PROVE f[<<k, i>>] <=> Agrees(p, k, i)
    <3>1. k <= Len(p) /\ ~(k > Len(p)) /\ k + 1 \in K /\ Len(p) + 1 - (k + 1) = n
      BY <1>1, <2>1
    <3>2. Agrees(p, k, i) <=> Eats(p, k, i) /\ Agrees(p, k + 1, i + 1)
      BY <3>1, AgreesStep
    <3>3. f[<<k, i>>] <=> Eats(p, k, i) /\ f[<<k + 1, i + 1>>]
      BY <1>4, <3>1
    <3>4. Eats(p, k, i) => i + 1 \in I
      BY <1>1 DEF Eats
    <3>5. Eats(p, k, i) => (f[<<k + 1, i + 1>>] <=> Agrees(p, k + 1, i + 1))
      BY <1>6, <3>1, <3>4
    <3> QED BY <3>2, <3>3, <3>5
  <2> QED BY <2>1
<1>7. \A n \in Nat : n \in P
  <2> HIDE DEF P
  <2> QED BY <1>5, <1>6, Induction
<1>8. 1 \in K /\ pos + 1 \in I /\ Len(p) + 1 - 1 \in Nat
  BY <1>1
<1>9. f[<<1, pos + 1>>] <=> Agrees(p, 1, pos + 1)
  BY <1>7, <1>8
<1> QED BY <1>9, Unfolded DEF f


\* A pattern of literals always compiles.
LEMMA LiteralIsValid ==
  ASSUME NEW p \in Seq(Chars), Literal(p)
  PROVE  Valid(p)
<1>1. Len(p) \in Nat /\ \A j \in 1..Len(p) : p[j] # "(" /\ p[j] # "*"
  BY LenProperties DEF Range, Literal
<1>2. p # <<>> => 1 \in 1..Len(p)
  BY <1>1, EmptySeq
<1> QED BY <1>1, <1>2 DEF Valid, Contains

\* A longer literal matches only where the shorter one does.
LEMMA LongerMatchesLess ==
  ASSUME text \in Texts, NEW p \in Seq(Chars), NEW c \in Chars, Literal(Append(p, c)),
         NEW from \in Nat
  PROVE  /\ Literal(p)
         /\ Matches(Append(p, c), from) \subseteq Matches(p, from)
<1> DEFINE q == Append(p, c)
<1>1. /\ q \in Seq(Chars) /\ Len(p) \in Nat /\ Len(q) = Len(p) + 1
      /\ \A j \in 1..Len(p) : q[j] = p[j]
  BY AppendProperties, LenProperties
<1> HIDE DEF q
<1>2. Literal(p)
  <2>1. \A j \in 1..Len(q) : q[j] \in Range(q)
    BY <1>1, LenProperties DEF Range
  <2>2. \A x \in Range(p) : \E j \in 1..Len(p) : x = p[j]
    BY LenProperties DEF Range
  <2>3. Range(p) \subseteq Range(q)
    BY <1>1, <2>1, <2>2
  <2> QED BY <2>3 DEF Literal, q
<1>3. ASSUME NEW pos \in 0..Size, MatchesAt(q, pos) PROVE MatchesAt(p, pos)
  <2>1. Agrees(q, 1, pos + 1)
    BY <1>1, <1>3, LiteralMatches DEF q
  <2>2. Agrees(p, 1, pos + 1)
    <3>1. \A j \in 1..Len(q) : pos + 1 + (j - 1) <= Size /\ text[pos + 1 + (j - 1)] = q[j]
      BY <2>1 DEF Agrees
    <3>2. \A j \in 1..Len(p) : j \in 1..Len(q) /\ p[j] = q[j]
      BY <1>1
    <3>3. \A j \in 1..Len(p) : pos + 1 + (j - 1) <= Size /\ text[pos + 1 + (j - 1)] = p[j]
      BY <3>1, <3>2
    <3> QED BY <3>3 DEF Agrees
  <2> QED BY <1>2, <2>2, LiteralMatches
<1>4. Size \in Nat
  BY TextFacts
<1>5. Matches(q, from) \subseteq Matches(p, from)
  BY <1>3, <1>4 DEF Matches
<1> QED BY <1>2, <1>5 DEF q

-----------------------------------------------------------------------------
(* The invariant. *)

Phases == {"start", "running", "success", "failure", "panicked"}

\* In a file of one byte the cursor is at the top of the screen.
PagerInv ==
  /\ scroll_pos \in Nat /\ cursor \in Nat
  /\ CursorOnScreen
  /\ Size = 1 => cursor = scroll_pos

\* A number that did not overflow is not negative.
NumberInv == number \in Int /\ (profile = "dev" => number \in Nat)

Inv ==
  /\ text \in Texts /\ phase \in Phases /\ mode \in {"Initial", "Slash", "Number"}
  /\ Size > 0 \/ phase \in {"start", "failure"}
  /\ NumberInv /\ PagerInv /\ ScreenInSync /\ PanicsExplained

\* At the start the pager is at the top of the file.
LEMMA InvInit == LessInit => Inv
<1> SUFFICES ASSUME LessInit PROVE Inv
  OBVIOUS
<1>1. /\ text \in Texts /\ phase = "start" /\ mode = "Initial" /\ number = 0
      /\ scroll_pos = 0 /\ cursor = 0
  BY DEF LessInit
<1>2. Size \in Nat
  BY <1>1, TextFacts
<1>3. Cardinality({i \in Newlines : scroll_pos <= i /\ i < cursor}) <= 1
  <2>1. {i \in Newlines : scroll_pos <= i /\ i < cursor} \subseteq {0}
    BY <1>1, TextFacts
  <2> QED BY <2>1, AtMostOne
<1>4. PagerInv
  BY <1>1, <1>2, <1>3 DEF PagerInv, CursorOnScreen
<1> QED BY <1>1, <1>4 DEF Inv, Phases, NumberInv, ScreenInSync, PanicsExplained

\* Drawing brings the screen up to date, and panics only without columns.
LEMMA Drawing ==
  ASSUME Draw, UNCHANGED start
  PROVE  /\ ScreenInSync' /\ phase' \in {"running", "panicked"}
         /\ phase' = "panicked" => columns' = 0
BY DEF Draw, DrawPanics, ScreenInSync, start

\* A position is a good one for the screen with the cursor further down.
LEMMA Placing ==
  ASSUME Inv, UNCHANGED start, NEW top \in Nat, NEW pos \in Nat,
         top <= pos, pos <= Size,
         top = 0 \/ top = 1 \/ top - 1 \in Newlines,
         Cardinality({i \in Newlines : top <= i /\ i < pos}) <= 1,
         Size > 1 => top < Size,
         Size > 1 /\ pos = Size => \E p \in search' : MatchesAt(p, Size),
         Size = 1 => pos = top,
         scroll_pos' = top, cursor' = pos
  PROVE  PagerInv'
<1>1. text' = text /\ Size' = Size /\ Newlines' = Newlines
  BY DEF start, Size, Newlines
<1>2. {i \in Newlines : top <= i /\ i < pos}'
        = {i \in Newlines : top <= i /\ i < pos}
  BY <1>1
<1>3. CursorOnScreen'
  <2>1. Size > 1 /\ pos = Size => \E p \in search' : MatchesAt(p, Size)'
    BY <1>1, MatchesUnchanged
  <2> QED BY <1>1, <2>1 DEF CursorOnScreen
<1> QED BY <1>1, <1>3 DEF PagerInv

\* The pager moves to the start of a line.
LEMMA Moving ==
  ASSUME Inv, UNCHANGED start, Size > 0, NEW pos \in 0..Size,
         pos = 0 \/ pos = 1 \/ pos - 1 \in Newlines, Size > 1 => pos < Size,
         MoveTo(pos)
  PROVE  /\ PagerInv' /\ ScreenInSync' /\ phase' \in {"running", "panicked"}
         /\ phase' = "panicked" => columns' = 0
<1>1. Size \in Nat /\ pos \in Nat /\ pos <= Size /\ pos <= pos
  BY TextFacts DEF Inv
<1>2. Cardinality({i \in Newlines : pos <= i /\ i < pos}) <= 1
  <2>1. {i \in Newlines : pos <= i /\ i < pos} \subseteq {0}
    BY <1>1, TextFacts DEF Inv
  <2> QED BY <2>1, AtMostOne
<1>3. scroll_pos' = pos /\ cursor' = pos /\ search' = search /\ Draw
  BY DEF MoveTo
<1>4. PagerInv'
  <2>1. Size > 1 => pos # Size
    BY <1>1
  <2> HIDE DEF PagerInv
  <2> QED BY <1>1, <1>2, <1>3, <2>1, Placing
<1> QED BY <1>3, <1>4, Drawing

\* Searching moves to the first match after the top of the screen, or back to it.
LEMMA Searching ==
  ASSUME Inv, UNCHANGED start, Size > 0, NEW p, Search(p)
  PROVE  /\ PagerInv' /\ phase' \in {"running", "panicked"}
         /\ ScreenInSync'
         /\ phase' = "panicked" => columns' = 0 \/ (Size' = 1 /\ scroll_pos' = 1)
<1> DEFINE found == IF Valid(p) THEN Matches(p, Origin + 1) ELSE {}
<1>1. /\ text \in Texts /\ scroll_pos \in Nat /\ cursor \in Nat
      /\ scroll_pos <= cursor /\ cursor <= Size
      /\ scroll_pos = 0 \/ scroll_pos = 1 \/ scroll_pos - 1 \in Newlines
      /\ Size > 1 => scroll_pos < Size
      /\ Size = 1 => cursor = scroll_pos
  BY DEF Inv, PagerInv, CursorOnScreen
<1>2. Size \in Nat /\ Size' = Size /\ text' = text
  BY <1>1, TextFacts DEF start, Size
<1>3. /\ search' = IF Valid(p) THEN {p} ELSE {}
      /\ IF found = {} THEN cursor' = scroll_pos /\ UNCHANGED scroll_pos
                       ELSE PlaceAt(Min(found))
      /\ IF Valid(p) /\ BeyondEnd(scroll_pos + 1)
         THEN phase' = "panicked" /\ UNCHANGED drawn
         ELSE Draw
  BY DEF Search, Origin, Redraw
<1>4. found # {} => /\ Min(found) \in (scroll_pos + 1)..Size
                    /\ Valid(p) /\ MatchesAt(p, Min(found))
  <2>1. found \subseteq Nat /\ found \subseteq (scroll_pos + 1)..Size
    BY <1>1, <1>2 DEF Matches, Origin
  <2>2. found # {} => Min(found) \in found
    <3> HIDE DEF found
    <3> QED BY <2>1, MinIsLeast
  <2> QED BY <2>1, <2>2 DEF Matches
<1> HIDE DEF found
<1>5. PagerInv'
  <2>1. CASE found = {}
    <3>1. Cardinality({i \in Newlines : scroll_pos <= i /\ i < scroll_pos}) <= 1
      <4>1. {i \in Newlines : scroll_pos <= i /\ i < scroll_pos} \subseteq {0}
        BY <1>1, TextFacts
      <4> QED BY <4>1, AtMostOne
    <3>2. scroll_pos' = scroll_pos /\ cursor' = scroll_pos
      BY <1>3, <2>1
    <3>3. scroll_pos <= Size /\ scroll_pos <= scroll_pos /\ ~(Size > 1 /\ scroll_pos = Size)
      BY <1>1, <1>2
    <3> HIDE DEF PagerInv
    <3> QED BY <1>1, <3>1, <3>2, <3>3, Placing
  <2>2. CASE found # {}
    <3> DEFINE pos == Min(found)
    <3>1. pos \in 0..Size /\ pos \in Nat /\ pos <= Size /\ pos >= 1
      BY <1>1, <1>2, <1>4, <2>2
    <3>2. scroll_pos' = LineAbove(pos) /\ cursor' = pos
      BY <1>3, <2>2 DEF PlaceAt
    <3>3. \E q \in search' : MatchesAt(q, pos)
      BY <1>3, <1>4, <2>2
    <3> HIDE DEF pos
    <3>4. /\ LineAbove(pos) \in 0..pos
          /\ LineAbove(pos) = 0 \/ LineAbove(pos) = 1 \/ LineAbove(pos) - 1 \in Newlines
          /\ Cardinality({i \in Newlines : LineAbove(pos) <= i /\ i < pos}) <= 1
          /\ Size > 1 => LineAbove(pos) < Size
          /\ pos <= 1 => LineAbove(pos) = pos
      BY <1>1, <3>1, LineAboveFacts
    <3>5. LineAbove(pos) \in Nat /\ LineAbove(pos) <= pos /\ (Size = 1 => pos = LineAbove(pos))
      BY <1>2, <3>1, <3>4
    <3>6. Size > 1 /\ pos = Size => \E q \in search' : MatchesAt(q, Size)
      BY <3>3
    <3> HIDE DEF PagerInv
    <3> QED BY <3>1, <3>2, <3>4, <3>5, <3>6, Placing
  <2> QED BY <2>1, <2>2
<1>6. CASE Valid(p) /\ BeyondEnd(scroll_pos + 1)
  <2>1. Size = 1 /\ scroll_pos = 1
    BY <1>1, <1>2, <1>6 DEF BeyondEnd
  <2>2. found = {}
    BY <1>1, <1>4, <2>1
  <2> QED BY <1>2, <1>3, <1>5, <1>6, <2>1, <2>2 DEF ScreenInSync
<1>7. CASE ~(Valid(p) /\ BeyondEnd(scroll_pos + 1))
  <2>1. Draw
    BY <1>3, <1>7
  <2> QED BY <1>5, <2>1, Drawing
<1> QED BY <1>6, <1>7

\* Searching on does so after the cursor, and fails when that is at the end.
LEMMA SearchingOn ==
  ASSUME Inv, UNCHANGED start, Size > 0, phase = "running", SearchNext
  PROVE  /\ PagerInv' /\ phase' \in {"running", "panicked"}
         /\ ScreenInSync'
         /\ phase' = "panicked" =>
              \/ columns' = 0
              \/ cursor' = Size' /\ \E p \in search' : MatchesAt(p, Size)'
              \/ Size' = 1 /\ scroll_pos' = 1
<1> DEFINE q == CHOOSE q \in search : TRUE
           found == Matches(q, cursor + 1)
<1>1. /\ text \in Texts /\ scroll_pos \in Nat /\ cursor \in Nat
      /\ scroll_pos <= cursor /\ cursor <= Size
      /\ Size > 1 /\ cursor = Size => \E p \in search : MatchesAt(p, Size)
      /\ Size = 1 => cursor = scroll_pos
      /\ PagerInv /\ drawn = <<scroll_pos, search>>
  BY DEF Inv, PagerInv, CursorOnScreen, ScreenInSync
<1>2. Size \in Nat /\ Size' = Size /\ text' = text /\ Newlines' = Newlines
  BY <1>1, TextFacts DEF start, Size, Newlines
<1>3. CASE UNCHANGED pager
  <2>1. scroll_pos' = scroll_pos /\ cursor' = cursor /\ search' = search
    BY <1>3 DEF pager
  <2>2. \A p : MatchesAt(p, Size)' = MatchesAt(p, Size)
    BY <1>2, MatchesUnchanged
  <2>3. PagerInv'
    BY <1>1, <1>2, <2>1, <2>2 DEF PagerInv, CursorOnScreen
  <2>4. Bell \/ (BeyondEnd(cursor + 1) /\ Panics) \/ Draw
    BY DEF SearchNext
  <2>5. CASE Bell
    BY <1>1, <2>1, <2>3, <2>5 DEF Bell, ScreenInSync
  <2>6. CASE BeyondEnd(cursor + 1) /\ Panics
    <3>1. cursor = Size /\ phase' = "panicked"
      BY <1>1, <1>2, <2>6 DEF BeyondEnd, Panics
    <3>2. Size = 1 \/ Size > 1
      BY <1>2
    <3> QED BY <1>1, <1>2, <2>1, <2>2, <2>3, <3>1, <3>2 DEF ScreenInSync
  <2>7. CASE Draw
    BY <2>3, <2>7, Drawing
  <2> QED BY <2>4, <2>5, <2>6, <2>7
<1>4. CASE ~UNCHANGED pager
  <2>1. search # {} /\ found # {} /\ PlaceAt(Min(found)) /\ search' = search /\ Draw
    BY <1>4 DEF SearchNext, Bell, Panics
  <2>2. q \in search
    BY <2>1
  <2> HIDE DEF q
  <2>3. found \subseteq Nat /\ found \subseteq (cursor + 1)..Size
    BY <1>1, <1>2 DEF Matches
  <2>4. Min(found) \in found
    <3> HIDE DEF found
    <3> QED BY <2>1, <2>3, MinIsLeast
  <2> DEFINE pos == Min(found)
  <2>5. pos \in 0..Size /\ pos \in Nat /\ pos <= Size /\ pos >= 1 /\ MatchesAt(q, pos)
    BY <1>1, <1>2, <2>3, <2>4 DEF Matches
  <2>6. scroll_pos' = LineAbove(pos) /\ cursor' = pos
    BY <2>1 DEF PlaceAt
  <2> HIDE DEF pos
  <2>7. /\ LineAbove(pos) \in 0..pos
        /\ LineAbove(pos) = 0 \/ LineAbove(pos) = 1 \/ LineAbove(pos) - 1 \in Newlines
        /\ Cardinality({i \in Newlines : LineAbove(pos) <= i /\ i < pos}) <= 1
        /\ Size > 1 => LineAbove(pos) < Size
        /\ pos <= 1 => LineAbove(pos) = pos
    BY <1>1, <2>5, LineAboveFacts
  <2>8. LineAbove(pos) \in Nat /\ LineAbove(pos) <= pos /\ (Size = 1 => pos = LineAbove(pos))
    BY <1>2, <2>5, <2>7
  <2>9. Size > 1 /\ pos = Size => \E p \in search' : MatchesAt(p, Size)
    BY <2>1, <2>2, <2>5
  <2>10. PagerInv'
    <3> HIDE DEF PagerInv
    <3> QED BY <2>5, <2>6, <2>7, <2>8, <2>9, Placing
  <2> QED BY <2>1, <2>10, Drawing
<1> QED BY <1>3, <1>4

\* The pager stays where it is and the bell rings.
LEMMA Staying ==
  ASSUME Inv, phase = "running", UNCHANGED start, UNCHANGED <<pager, drawn>>
  PROVE  PagerInv' /\ ScreenInSync'
<1>1. text' = text /\ Size' = Size /\ Newlines' = Newlines
  BY DEF start, Size, Newlines
<1>2. \A p : MatchesAt(p, Size)' = MatchesAt(p, Size)
  BY <1>1, MatchesUnchanged
<1> QED BY <1>1, <1>2 DEF Inv, PagerInv, CursorOnScreen, ScreenInSync, pager

\* Scrolling to the start of a line draws a screen that is in sync.
LEMMA Scrolling ==
  ASSUME Inv, phase = "running", UNCHANGED start, Size > 0, NEW pos \in 0..Size,
         pos = scroll_pos \/ pos = 0 \/ pos = 1 \/ pos - 1 \in Newlines,
         pos = scroll_pos \/ (Size > 1 => pos < Size),
         Scroll(pos)
  PROVE  /\ PagerInv' /\ ScreenInSync' /\ phase' \in {"running", "panicked"}
         /\ phase' = "panicked" => columns' = 0
<1>1. CASE pos = scroll_pos
  BY <1>1, Staying DEF Scroll, Bell
<1>2. CASE pos # scroll_pos
  BY <1>2, Moving DEF Scroll
<1> QED BY <1>1, <1>2

-----------------------------------------------------------------------------
(* Numbers. *)

\* A digit has one of nine values.
LEMMA DigitIsSmall ==
  ASSUME NEW k \in Digits
  PROVE  ToDigit(k) \in 1..9
<1>1. \E d \in 1..9 : Numerals[d] = k
  BY DEF Digits, Range, Numerals
<1> QED BY <1>1 DEF ToDigit

\* A number that fits is not changed.
LEMMA WrappedFacts ==
  ASSUME NEW n \in Int
  PROVE  Wrapped(n) \in Int /\ (Fits(n) => Wrapped(n) = n)
<1> DEFINE w == 2 * (MaxI64 + 1)
           m == n + MaxI64 + 1
<1>1. w \in Nat /\ w > 0 /\ m \in Int
  OBVIOUS
<1>2. m % w \in Int
  <2> HIDE DEF w, m
  <2> QED BY <1>1
<1>3. ASSUME Fits(n) PROVE m % w = m
  <2>1. 0 <= m /\ m < w
    BY <1>3 DEF Fits
  <2> HIDE DEF w, m
  <2> QED BY <1>1, <2>1
<1> QED BY <1>2, <1>3 DEF Wrapped

\* A digit makes the number overflow, or keeps it one.
LEMMA TypeDigitPreserves ==
  ASSUME Inv, NEW k, TypeDigit(k), fatal' = IF phase' = "panicked" THEN k ELSE fatal
  PROVE  Inv'
<1> DEFINE n == 10 * number + ToDigit(k)
<1>1. /\ phase = "running" /\ mode = "Number" /\ mode' = "Number" /\ k \in Digits
      /\ UNCHANGED start /\ UNCHANGED <<pager, drawn>>
  BY DEF TypeDigit, Ready
<1>2. /\ text' = text /\ profile' = profile /\ Size' = Size /\ Size > 0
      /\ text \in Texts /\ NumberInv
  BY <1>1 DEF Inv, start, Size
<1>3. ToDigit(k) \in 1..9
  BY <1>1, DigitIsSmall
<1>4. PagerInv' /\ ScreenInSync'
  BY <1>1, Staying
<1>5. number \in Int /\ n \in Int /\ (profile = "dev" => number \in Nat /\ n \in Nat)
  BY <1>2, <1>3 DEF NumberInv
<1>6. CASE profile = "dev" /\ ~(Fits(10 * number) /\ Fits(n))
  <2>1. phase' = "panicked" /\ number' = number
    BY <1>6 DEF TypeDigit
  <2>2. ~Fits(10 * number + 9)
    BY <1>3, <1>5, <1>6 DEF Fits
  <2>3. PanicsExplained'
    BY <1>1, <1>2, <1>6, <2>1, <2>2 DEF PanicsExplained, Fits
  <2> QED BY <1>1, <1>2, <1>4, <2>1, <2>3 DEF Inv, Phases, NumberInv
<1>7. CASE ~(profile = "dev" /\ ~(Fits(10 * number) /\ Fits(n)))
  <2>1. phase' = "running" /\ number' = Wrapped(n)
    BY <1>1, <1>7 DEF TypeDigit
  <2>2. NumberInv'
    <3>1. Wrapped(n) \in Int /\ (Fits(n) => Wrapped(n) = n)
      BY <1>5, WrappedFacts
    <3> QED BY <1>2, <1>5, <1>7, <2>1, <3>1 DEF NumberInv
  <2> QED BY <1>1, <1>2, <1>4, <2>1, <2>2 DEF Inv, Phases, PanicsExplained
<1> QED BY <1>6, <1>7

-----------------------------------------------------------------------------
(* The other keys. *)

\* A key in the initial mode.
LEMMA InInitialPreserves ==
  ASSUME Inv, NEW k, InInitial(k), fatal' = IF phase' = "panicked" THEN k ELSE fatal
  PROVE  Inv'
<1>1. phase = "running" /\ mode = "Initial" /\ UNCHANGED start
  BY DEF InInitial, Ready
<1>2. /\ text' = text /\ columns' = columns /\ profile' = profile /\ Size' = Size /\ Newlines' = Newlines
      /\ Size \in Nat /\ Size > 0 /\ text \in Texts /\ NumberInv
  BY <1>1, TextFacts DEF Inv, start, Size, Newlines
<1>3. scroll_pos \in 0..Size
  BY <1>2 DEF Inv, PagerInv, CursorOnScreen
<1> DEFINE Moved == /\ PagerInv' /\ ScreenInSync' /\ phase' \in {"running", "panicked"}
                    /\ phase' = "panicked" => columns' = 0
<1>4. ASSUME Moved, UNCHANGED readline PROVE Inv'
  BY <1>1, <1>2, <1>4 DEF Inv, Phases, NumberInv, PanicsExplained, readline
<1>5. ASSUME phase' # "panicked", phase' \in Phases, UNCHANGED <<pager, drawn>>, NumberInv',
             mode' \in {"Initial", "Slash", "Number"}
      PROVE  Inv'
  BY <1>1, <1>2, <1>5, Staying DEF Inv, PanicsExplained
<1>6. NumberInv' \/ ~UNCHANGED <<profile, number>>
  BY <1>2 DEF NumberInv
<1>7. CASE k = "G" /\ JumpToBottom /\ UNCHANGED readline
  <2>1. CASE Bell
    BY <1>1, <1>4, <1>7, <2>1, Staying DEF Bell
  <2>2. CASE ~Bell
    <3>1. PICK i \in LastLines : MoveTo(i + 1)
      BY <1>7, <2>2 DEF JumpToBottom
    <3>2. i \in Newlines /\ i < Size - 1 /\ i \in Nat
      BY <1>2, <3>1, TextFacts DEF LastLines
    <3>3. i + 1 \in 0..Size /\ (i + 1) - 1 \in Newlines /\ i + 1 < Size
      BY <1>2, <3>2
    <3>4. Moved
      BY <1>1, <1>2, <3>1, <3>3, Moving
    <3> QED BY <1>4, <1>7, <3>4
  <2> QED BY <2>1, <2>2
<1>8. CASE k = "g" /\ JumpToTop /\ UNCHANGED readline
  <2>1. Moved
    <3>1. 0 \in 0..Size /\ (Size > 1 => 0 < Size)
      BY <1>2
    <3> QED BY <1>1, <1>2, <1>8, <3>1, Scrolling DEF JumpToTop
  <2> QED BY <1>4, <1>8, <2>1
<1>9. CASE Scroll(LineBelow(scroll_pos)) /\ UNCHANGED readline
  <2> DEFINE pos == LineBelow(scroll_pos)
  <2>1. pos = scroll_pos \/ (pos \in 1..(Size - 1) /\ pos - 1 \in Newlines)
    BY <1>2, <1>3, LineBelowFacts
  <2>2. Scroll(pos)
    BY <1>9
  <2> HIDE DEF pos
  <2>3. pos \in 0..Size /\ (pos = scroll_pos \/ pos - 1 \in Newlines)
        /\ (pos = scroll_pos \/ (Size > 1 => pos < Size))
    BY <1>2, <1>3, <2>1
  <2>4. Moved
    BY <1>1, <1>2, <2>2, <2>3, Scrolling
  <2> QED BY <1>4, <1>9, <2>4
<1>10. CASE Scroll(LineAbove(scroll_pos)) /\ UNCHANGED readline
  <2> DEFINE pos == LineAbove(scroll_pos)
  <2>1. pos \in 0..scroll_pos /\ (pos = 0 \/ pos = 1 \/ pos - 1 \in Newlines)
        /\ (Size > 1 => pos < Size)
    BY <1>2, <1>3, LineAboveFacts
  <2>2. Scroll(pos)
    BY <1>10
  <2> HIDE DEF pos
  <2>3. pos \in 0..Size
    BY <1>2, <1>3, <2>1
  <2>4. Moved
    BY <1>1, <1>2, <2>1, <2>2, <2>3, Scrolling
  <2> QED BY <1>4, <1>10, <2>4
<1>11. CASE k = "n" /\ SearchNext /\ UNCHANGED readline
  <2>1. /\ PagerInv' /\ ScreenInSync' /\ phase' \in {"running", "panicked"}
        /\ phase' = "panicked" =>
             \/ columns' = 0
             \/ cursor' = Size' /\ \E p \in search' : MatchesAt(p, Size)'
             \/ Size' = 1 /\ scroll_pos' = 1
    BY <1>1, <1>2, <1>11, SearchingOn
  <2>2. PanicsExplained'
    BY <1>1, <1>11, <2>1 DEF PanicsExplained, readline
  <2> QED BY <1>1, <1>2, <1>6, <1>11, <2>1, <2>2 DEF Inv, Phases, readline
<1>12. CASE k = "N" /\ (IF search = {} THEN Bell ELSE Panics) /\ UNCHANGED readline
  <2>1. CASE Bell
    BY <1>1, <1>4, <1>12, <2>1, Staying DEF Bell
  <2>2. CASE search # {} /\ Panics
    <3>1. phase' = "panicked" /\ PagerInv' /\ ScreenInSync' /\ search' # {}
      BY <1>1, <2>2, Staying DEF Panics, pager
    <3>2. PanicsExplained'
      BY <1>12, <3>1 DEF PanicsExplained
    <3> QED BY <1>1, <1>2, <1>6, <1>12, <3>1, <3>2 DEF Inv, Phases, readline
  <2> QED BY <1>12, <2>1, <2>2
<1>13. CASE k = "Ctrl-g" /\ UNCHANGED pager /\ Draw /\ UNCHANGED readline
  <2>1. PagerInv'
    <3>1. \A p : MatchesAt(p, Size)' = MatchesAt(p, Size)
      BY <1>2, MatchesUnchanged
    <3> QED BY <1>2, <1>13, <3>1 DEF Inv, PagerInv, CursorOnScreen, pager
  <2> QED BY <1>1, <1>4, <1>13, <2>1, Drawing
<1>14. CASE k = "q" /\ phase' = "success" /\ UNCHANGED <<pager, drawn, readline>>
  BY <1>1, <1>2, <1>5, <1>6, <1>14 DEF Phases, readline
<1>15. CASE k = "/" /\ mode' = "Slash" /\ pattern' = <<>> /\ UNCHANGED <<phase, number, pager, drawn>>
  BY <1>1, <1>2, <1>5, <1>6, <1>15 DEF Phases
<1>16. CASE /\ k \in Digits
            /\ mode' = "Number" /\ number' = ToDigit(k)
            /\ UNCHANGED <<phase, pattern, pager, drawn>>
  <2>1. NumberInv'
    BY <1>2, <1>16, DigitIsSmall DEF NumberInv
  <2> QED BY <1>1, <1>5, <1>16, <2>1 DEF Phases
<1>17. CASE UNCHANGED <<phase, pager, drawn, readline>>
  BY <1>1, <1>2, <1>5, <1>6, <1>17 DEF Phases, readline
<1> QED BY <1>7, <1>8, <1>9, <1>10, <1>11, <1>12, <1>13, <1>14, <1>15, <1>16, <1>17 DEF InInitial

\* A key that does not search, draw or panic.
LEMMA QuietPreserves ==
  ASSUME Inv, phase = "running", UNCHANGED start, UNCHANGED <<pager, drawn>>,
         phase' \in {"running", "success", "failure"}, NumberInv',
         mode' \in {"Initial", "Slash", "Number"}
  PROVE  Inv'
BY Staying DEF Inv, Phases, PanicsExplained, start, Size

\* A key that searches while the pattern is typed, taken back or entered.
LEMMA SearchPreserves ==
  ASSUME Inv, phase = "running", UNCHANGED start, NEW p, Search(p), NumberInv',
         mode' \in {"Initial", "Slash", "Number"}
  PROVE  Inv'
<1>1. Size > 0 /\ Size' = Size /\ text' = text
  BY DEF Inv, start, Size
<1>2. /\ PagerInv' /\ phase' \in {"running", "panicked"} /\ ScreenInSync'
      /\ phase' = "panicked" => columns' = 0 \/ (Size' = 1 /\ scroll_pos' = 1)
  BY <1>1, Searching
<1> QED BY <1>1, <1>2 DEF Inv, Phases, PanicsExplained

\* A key that only draws the screen again, or the first screen.
LEMMA DrawPreserves ==
  ASSUME Inv, phase \in {"start", "running"}, Size > 0, UNCHANGED start, UNCHANGED pager, Draw,
         NumberInv', mode' \in {"Initial", "Slash", "Number"}
  PROVE  Inv'
<1>1. text' = text /\ Size' = Size /\ Newlines' = Newlines
  BY DEF start, Size, Newlines
<1>2. \A p : MatchesAt(p, Size)' = MatchesAt(p, Size)
  BY <1>1, MatchesUnchanged
<1>3. PagerInv'
  BY <1>1, <1>2 DEF Inv, PagerInv, CursorOnScreen, pager
<1>4. ScreenInSync' /\ phase' \in {"running", "panicked"} /\ (phase' = "panicked" => columns' = 0)
  BY Drawing
<1> QED BY <1>1, <1>3, <1>4 DEF Inv, Phases, PanicsExplained

\* Every key, in every mode.
LEMMA KeyPreserves ==
  ASSUME Inv, NEW k, Key(k)
  PROVE  Inv'
<1>1. fatal' = IF phase' = "panicked" THEN k ELSE fatal
  BY DEF Key
<1>2. UNCHANGED <<profile, number>> => NumberInv'
  BY DEF Inv, NumberInv
<1>3. Leave => NumberInv' /\ mode' \in {"Initial", "Slash", "Number"}
  BY DEF Leave, NumberInv
<1>4. UNCHANGED mode => mode' \in {"Initial", "Slash", "Number"}
  BY DEF Inv
<1>5. Inv /\ phase # "start" /\ phase # "failure" => Size > 0
  BY DEF Inv
<1>6. CASE InInitial(k)
  BY <1>1, <1>6, InInitialPreserves
<1>7. CASE TypeDigit(k)
  BY <1>1, <1>7, TypeDigitPreserves
<1>8. CASE TypePattern(k)
  <2>1. phase = "running" /\ UNCHANGED start /\ UNCHANGED <<profile, number, mode>>
    BY <1>8 DEF TypePattern, Ready, start
  <2>2. UNCHANGED <<phase, pager, drawn>> \/ Search(pattern')
    BY <1>8 DEF TypePattern
  <2>3. CASE UNCHANGED <<phase, pager, drawn>>
    BY <1>2, <1>4, <2>1, <2>3, QuietPreserves
  <2>4. CASE Search(pattern')
    BY <1>2, <1>4, <2>1, <2>4, SearchPreserves
  <2> QED BY <2>2, <2>3, <2>4
<1>9. CASE TakeBack(k)
  <2>1. phase = "running" /\ UNCHANGED start /\ profile' = profile
    BY <1>9 DEF TakeBack, Ready, start
  <2>2. CASE Leave /\ UNCHANGED <<phase, pager, drawn>>
    BY <1>3, <2>1, <2>2, QuietPreserves
  <2>3. CASE Search(pattern') /\ UNCHANGED <<mode, number>>
    BY <1>2, <1>4, <2>1, <2>3, SearchPreserves
  <2> QED BY <1>9, <2>2, <2>3 DEF TakeBack
<1>10. CASE EnterPattern(k)
  BY <1>3, <1>10, SearchPreserves DEF EnterPattern, Ready
<1>11. CASE ArrowInPattern(k)
  <2>1. /\ phase = "running" /\ UNCHANGED start /\ UNCHANGED <<pager, drawn>> /\ UNCHANGED <<profile, number, mode>>
        /\ mode = "Slash" /\ k \in {"Up", "Down"} /\ phase' = "panicked"
    BY <1>11 DEF ArrowInPattern, Ready, Panics, readline, start
  <2>2. PagerInv' /\ ScreenInSync'
    BY <2>1, Staying
  <2>3. PanicsExplained'
    BY <1>1, <2>1 DEF PanicsExplained
  <2> QED BY <1>2, <1>4, <2>1, <2>2, <2>3 DEF Inv, Phases, start, Size
<1>12. CASE EnterNumber(k)
  BY <1>3, <1>5, <1>12, DrawPreserves DEF EnterNumber, Ready
<1>13. CASE Escape(k)
  BY <1>3, <1>13, QuietPreserves DEF Escape, Ready
<1>14. CASE Ignored(k)
  BY <1>2, <1>4, <1>14, QuietPreserves DEF Ignored, Ready, readline, start
<1> QED BY <1>6, <1>7, <1>8, <1>9, <1>10, <1>11, <1>12, <1>13, <1>14 DEF Key

\* Every step.
LEMMA InvNext == Inv /\ [LessNext]_lessVars => Inv'
<1> SUFFICES ASSUME Inv, [LessNext]_lessVars PROVE Inv'
  OBVIOUS
<1>1. CASE UNCHANGED lessVars
  <2>1. /\ text' = text /\ columns' = columns /\ profile' = profile /\ phase' = phase
        /\ mode' = mode /\ number' = number /\ drawn' = drawn /\ fatal' = fatal
        /\ scroll_pos' = scroll_pos /\ cursor' = cursor /\ search' = search
        /\ unwritable' = unwritable
    BY <1>1 DEF lessVars, start, readline, pager
  <2>2. \A p, pos : MatchesAt(p, pos)' = MatchesAt(p, pos)
    BY <2>1, MatchesUnchanged
  <2> QED BY <2>1, <2>2 DEF Inv, NumberInv, PagerInv, CursorOnScreen, ScreenInSync, PanicsExplained,
            Size, Newlines, Fits
<1>2. CASE Start
  <2>1. /\ phase = "start" /\ UNCHANGED start /\ UNCHANGED pager
        /\ number' = number /\ mode' = mode /\ profile' = profile /\ text' = text
    BY <1>2 DEF Start, start, readline
  <2>2. NumberInv' /\ mode' \in {"Initial", "Slash", "Number"} /\ Size' = Size /\ Size \in Nat
    BY <2>1, TextFacts DEF Inv, NumberInv, Size
  <2>3. CASE text # <<>> /\ Draw
    <3>1. Size > 0
      BY <2>2, <2>3, TextsAssumption, EmptySeq DEF Inv, Size
    <3> QED BY <2>1, <2>2, <2>3, <3>1, DrawPreserves
  <2>4. CASE phase' = "failure" /\ UNCHANGED drawn
    <3>1. /\ text' = text /\ Newlines' = Newlines /\ \A p : MatchesAt(p, Size)' = MatchesAt(p, Size)
          /\ scroll_pos' = scroll_pos /\ cursor' = cursor /\ search' = search
      BY <2>1, MatchesUnchanged DEF Newlines, Size, pager
    <3>2. PagerInv'
      BY <2>2, <3>1 DEF Inv, PagerInv, CursorOnScreen
    <3> QED BY <2>1, <2>2, <2>4, <3>2 DEF Inv, Phases, ScreenInSync, PanicsExplained
  <2> QED BY <1>2, <2>3, <2>4 DEF Start
<1>3. CASE InputEnds
  <2>1. /\ phase = "running" /\ UNCHANGED start /\ UNCHANGED <<pager, drawn>>
        /\ number' = number /\ mode' = mode /\ profile' = profile
        /\ phase' \in {"running", "success", "failure"}
    BY <1>3 DEF InputEnds, start, readline
  <2>2. NumberInv' /\ mode' \in {"Initial", "Slash", "Number"}
    BY <2>1 DEF Inv, NumberInv
  <2> QED BY <2>1, <2>2, QuietPreserves
<1>4. CASE LessEnded
  BY <1>1, <1>4 DEF LessEnded
<1>5. CASE \E k \in Chars \cup OtherKeys : Key(k)
  BY <1>5, KeyPreserves
<1>6. CASE WriteFails
  <2>1. /\ text' = text /\ number' = number /\ mode' = mode /\ profile' = profile
        /\ scroll_pos' = scroll_pos /\ cursor' = cursor /\ search' = search
        /\ text # <<>> /\ phase' \in {"failure", "panicked"} /\ unwritable'
    BY <1>6 DEF WriteFails, readline, pager
  <2>2. /\ Newlines' = Newlines /\ Size' = Size
        /\ \A p : MatchesAt(p, Size)' = MatchesAt(p, Size)
    BY <2>1, MatchesUnchanged DEF Newlines, Size
  <2>3. PagerInv' /\ NumberInv'
    BY <2>1, <2>2 DEF Inv, PagerInv, NumberInv, CursorOnScreen
  <2>4. Size' > 0
    BY <2>1, <2>2, TextFacts, TextsAssumption, EmptySeq DEF Inv, Size
  <2> QED BY <2>1, <2>3, <2>4 DEF Inv, Phases, ScreenInSync, PanicsExplained
<1> QED BY <1>1, <1>2, <1>3, <1>4, <1>5, <1>6 DEF LessNext

-----------------------------------------------------------------------------
(* The incremental search. *)

\* From where the search began, p is nowhere up to the top of the screen, but perhaps
\* at the second byte of the file.
Searched(p) ==
  began <= scroll_pos /\ \A pos \in Matches(p, began + 1) : pos > scroll_pos \/ pos = 1

\* While the pattern grows, the search began at the start of a line, and nothing that
\* the pattern matches has been scrolled past.
FindInv ==
  /\ pattern \in Seq(Chars)
  /\ growing => began \in Nat /\ mode # "Number" /\ phase # "start"
  /\ growing => began = 0 \/ began = 1 \/ began - 1 \in Newlines
  /\ growing /\ mode = "Slash" /\ began # 1 /\ Literal(pattern) => Searched(pattern)
  /\ IncrementalFindsFirst

\* Searching from the top of the screen finds what searching from the beginning would,
\* and scrolls past no match.
LEMMA SearchFinds ==
  ASSUME Inv, UNCHANGED start, UNCHANGED began, began \in Nat, NEW p \in Seq(Chars), Literal(p), Search(p),
         began = 0 \/ began - 1 \in Newlines, Searched(p)
  PROVE  /\ Searched(p)' /\ search' = {p}
         /\ LET found == Matches(p, began + 1)'
            IN  1 \notin found => cursor' = IF found = {} THEN scroll_pos' ELSE Min(found)
<1> DEFINE F == Matches(p, began + 1)
           M == Matches(p, scroll_pos + 1)
<1>1. /\ text \in Texts /\ text' = text /\ Size' = Size /\ Size \in Nat /\ scroll_pos \in Nat
      /\ began' = began /\ \A i \in Newlines : i \in Nat
  BY TextFacts DEF Inv, PagerInv, start, Size
<1>2. began \in Nat /\ began <= scroll_pos /\ \A pos \in F : pos > scroll_pos \/ pos = 1
  BY <1>1 DEF Searched
<1>3. Matches(p, began + 1)' = F
  BY <1>1, MatchesUnchanged DEF Matches
<1>4. Valid(p)
  BY LiteralIsValid
<1>5. /\ search' = {p}
      /\ IF M = {} THEN cursor' = scroll_pos /\ UNCHANGED scroll_pos ELSE PlaceAt(Min(M))
  BY <1>4 DEF Search, Origin
<1>6. /\ F \subseteq 1..Size /\ M \subseteq 1..Size /\ M \subseteq F
      /\ \A pos \in F : pos > scroll_pos => pos \in M
      /\ \A pos \in M : pos > scroll_pos
  BY <1>1, <1>2 DEF Matches
<1> HIDE DEF F, M
<1>7. CASE M = {}
  <2>1. cursor' = scroll_pos /\ scroll_pos' = scroll_pos
    BY <1>5, <1>7
  <2>2. \A pos \in F : pos = 1
    BY <1>2, <1>6, <1>7
  <2> QED BY <1>1, <1>2, <1>3, <1>5, <2>1, <2>2 DEF Searched
<1>8. CASE M # {}
  <2> DEFINE m == Min(M)
  <2>1. m \in M /\ \A pos \in M : m <= pos
    <3>1. M \subseteq Nat
      BY <1>1, <1>6
    <3> QED BY <1>8, <3>1, MinIsLeast
  <2>2. scroll_pos' = LineAbove(m) /\ cursor' = m
    BY <1>5, <1>8 DEF PlaceAt
  <2> HIDE DEF m
  <2>3. m \in 0..Size /\ m \in Nat /\ began < m
    BY <1>1, <1>2, <1>6, <2>1
  <2>4. began <= LineAbove(m) /\ (LineAbove(m) < m \/ m = 1)
    BY <1>1, <1>2, <2>3, LineAboveNotBefore
  <2>5. LineAbove(m) \in 0..m
    BY <1>1, <2>3, LineAboveFacts
  <2>6. m = 1 => LineAbove(m) = 1
    <3>1. m <= 1 => LineAbove(m) = m
      BY <1>1, <2>3, LineAboveFacts
    <3> QED BY <3>1
  <2>7. \A pos \in F : pos > LineAbove(m) \/ pos = 1
    BY <1>1, <1>2, <1>6, <2>1, <2>3, <2>4, <2>5, <2>6
  <2>8. Searched(p)'
    BY <1>1, <1>3, <2>2, <2>4, <2>7 DEF Searched
  <2>9. F # {}
    BY <1>6, <1>8
  <2>10. 1 \notin F => F = M
    BY <1>2, <1>6
  <2> QED BY <1>3, <1>5, <2>2, <2>8, <2>9, <2>10 DEF m
<1> QED BY <1>7, <1>8

\* A step that moves nothing and types nothing.
LEMMA FindUnchanged ==
  ASSUME FindInv, UNCHANGED <<text, scroll_pos, cursor, search, began, pattern>>,
         growing' => growing /\ UNCHANGED mode /\ phase' # "start",
         phase' = "running" => phase = "running"
  PROVE  FindInv'
<1>1. /\ Size' = Size /\ Newlines' = Newlines
      /\ \A p, from : Matches(p, from)' = Matches(p, from)
  BY MatchesUnchanged DEF Size, Newlines, Matches
<1>2. growing' => (Searched(pattern) <=> Searched(pattern)')
  BY <1>1 DEF Searched
<1>3. IncrementalFindsFirst'
  <2> SUFFICES ASSUME NEW p \in search, phase' = "running", growing', pattern \in {p, <<>>},
                      pattern = <<>> => mode' = "Initial", p # <<>>,
                      Range(p) \cap {".", "*", "("} = {}, began # 1,
                      1 \notin Matches(p, began + 1)
               PROVE  cursor = IF Matches(p, began + 1) = {} THEN scroll_pos
                               ELSE Min(Matches(p, began + 1))
    BY <1>1 DEF IncrementalFindsFirst
  <2> QED BY DEF FindInv, IncrementalFindsFirst
<1> QED BY <1>1, <1>2, <1>3 DEF FindInv


\* Once the pattern has been taken back or left, nothing is claimed.
LEMMA NotGrowing ==
  ASSUME pattern' \in Seq(Chars), ~growing'
  PROVE  FindInv'
BY DEF FindInv, IncrementalFindsFirst

\* At the start nothing is searched for.
LEMMA FindInit == LessInit => FindInv
<1>1. <<>> \in Seq(Chars)
  BY EmptySeq
<1> QED BY <1>1 DEF LessInit, FindInv, IncrementalFindsFirst

\* Typing a character searches for the longer pattern.
LEMMA FindByTyping ==
  ASSUME Inv, FindInv, NEW k \in Chars, TypePattern(k)
  PROVE  FindInv'
<1>1. /\ phase = "running" /\ UNCHANGED start /\ mode = "Slash" /\ mode' = "Slash"
      /\ UNCHANGED <<began, growing>> /\ pattern' = Append(pattern, k)
      /\ IF Range(pattern') = {"."} THEN UNCHANGED <<phase, pager, drawn>> ELSE Search(pattern')
  BY DEF TypePattern, Ready
<1>2. pattern \in Seq(Chars) /\ pattern' \in Seq(Chars) /\ pattern' # <<>>
  BY <1>1, AppendProperties DEF FindInv
<1>3. /\ text \in Texts /\ text' = text /\ Newlines' = Newlines
  BY <1>1 DEF Inv, start, Newlines, Size
<1>4. phase' # "start"
  BY <1>1 DEF Search, Redraw, Draw
<1>5. CASE ~growing
  BY <1>1, <1>2, <1>5, NotGrowing DEF FindInv
<1>6. CASE growing /\ ~Literal(pattern')
  <2>1. IncrementalFindsFirst'
    BY <1>2, <1>6 DEF IncrementalFindsFirst, Literal
  <2> QED BY <1>1, <1>2, <1>3, <1>4, <1>6, <2>1 DEF FindInv, Literal
<1>7. CASE growing /\ Literal(pattern') /\ began = 1
  <2>1. IncrementalFindsFirst'
    BY <1>1, <1>7 DEF IncrementalFindsFirst
  <2> QED BY <1>1, <1>2, <1>3, <1>4, <1>7, <2>1 DEF FindInv
<1>8. CASE growing /\ Literal(pattern') /\ began # 1
  <2>0. PICK q : q = Append(pattern, k)
    OBVIOUS
  <2>1. q \in Seq(Chars) /\ Literal(q) /\ q # <<>>
    BY <1>1, <1>2, <1>8, <2>0 DEF Literal
  <2>2. Search(q)
    <3>1. Range(pattern') # {"."}
      BY <1>8 DEF Literal
    <3> QED BY <1>1, <2>0, <3>1
  <2>3. /\ began \in Nat /\ began' = began /\ growing /\ growing'
        /\ began = 0 \/ began - 1 \in Newlines
    BY <1>1, <1>8 DEF FindInv
  <2>4. Literal(pattern) /\ Matches(q, began + 1) \subseteq Matches(pattern, began + 1)
    BY <1>2, <1>3, <2>0, <2>1, <2>3, LongerMatchesLess
  <2>5. Searched(q)
    BY <1>1, <1>8, <2>4 DEF FindInv, Searched
  <2>6. /\ Searched(q)' /\ search' = {q}
        /\ LET found == Matches(q, began + 1)'
           IN  1 \notin found => cursor' = IF found = {} THEN scroll_pos' ELSE Min(found)
    BY <1>1, <2>1, <2>2, <2>3, <2>5, SearchFinds
  <2>7. pattern' = q
    BY <1>1, <2>0
  <2>8. Searched(pattern)'
    BY <2>6, <2>7 DEF Searched, Matches
  <2>9. IncrementalFindsFirst'
    BY <2>6 DEF IncrementalFindsFirst
  <2> QED BY <1>2, <1>3, <1>4, <1>1, <2>3, <2>8, <2>9 DEF FindInv
<1> QED BY <1>5, <1>6, <1>7, <1>8

\* Enter searches for the same pattern once more.
LEMMA FindByEntering ==
  ASSUME Inv, FindInv, NEW k, EnterPattern(k)
  PROVE  FindInv'
<1>1. /\ phase = "running" /\ UNCHANGED start /\ mode = "Slash" /\ mode' = "Initial"
      /\ UNCHANGED <<began, growing>> /\ pattern' = <<>> /\ Search(pattern)
  BY DEF EnterPattern, Ready, Leave
<1>2. pattern \in Seq(Chars) /\ pattern' \in Seq(Chars)
  BY <1>1, EmptySeq DEF FindInv
<1>3. /\ text' = text /\ Newlines' = Newlines
  BY <1>1 DEF start, Newlines, Size
<1>4. phase' # "start"
  BY <1>1 DEF Search, Redraw, Draw
<1>5. CASE ~growing
  BY <1>1, <1>2, <1>5, NotGrowing DEF FindInv
<1>6. CASE growing
  <2>1. IncrementalFindsFirst'
    <3>1. CASE ~Literal(pattern) \/ began = 1
      <4>1. \A p \in search' : p = pattern
        BY <1>1 DEF Search
      <4> QED BY <1>1, <3>1, <4>1 DEF IncrementalFindsFirst, Literal
    <3>2. CASE Literal(pattern) /\ began # 1
      <4>1. /\ began \in Nat /\ Searched(pattern)
            /\ began = 0 \/ began - 1 \in Newlines
        BY <1>1, <1>6, <3>2 DEF FindInv
      <4>2. PICK q : q = pattern
        OBVIOUS
      <4>3. q \in Seq(Chars) /\ Literal(q) /\ Search(q) /\ Searched(q)
        BY <1>1, <1>2, <3>2, <4>1, <4>2 DEF Literal, Searched
      <4>4. /\ search' = {q}
            /\ LET found == Matches(q, began + 1)'
               IN  1 \notin found => cursor' = IF found = {} THEN scroll_pos' ELSE Min(found)
        BY <1>1, <4>1, <4>3, SearchFinds
      <4> QED BY <4>4 DEF IncrementalFindsFirst
    <3> QED BY <3>1, <3>2
  <2> QED BY <1>1, <1>2, <1>3, <1>4, <1>6, <2>1 DEF FindInv
<1> QED BY <1>5, <1>6


\* The slash begins a search at the top of the screen; any other command ends it.
LEMMA FindInInitial ==
  ASSUME Inv, FindInv, NEW k, InInitial(k)
  PROVE  FindInv'
<1>1. /\ phase = "running" /\ UNCHANGED start /\ mode = "Initial"
      /\ began' = (IF k = "/" THEN scroll_pos ELSE began) /\ growing' = (k = "/")
  BY DEF InInitial, Ready
<1>2. CASE k = "/"
  <2>1. k \notin Digits
    BY <1>2 DEF Digits, Range, Numerals
  <2>2. mode' = "Slash" /\ pattern' = <<>> /\ UNCHANGED <<phase, pager, drawn>>
    BY <1>2, <2>1 DEF InInitial
  <2>3. /\ scroll_pos' = scroll_pos /\ scroll_pos \in Nat /\ began' = scroll_pos
        /\ scroll_pos = 0 \/ scroll_pos = 1 \/ scroll_pos - 1 \in Newlines
        /\ Newlines' = Newlines /\ Size' = Size /\ Size \in Nat
    BY <1>1, <1>2, <2>2, TextFacts DEF Inv, PagerInv, CursorOnScreen, pager, start, Newlines, Size
  <2>4. Searched(pattern)'
    BY <2>3 DEF Searched, Matches
  <2>5. IncrementalFindsFirst'
    BY <2>2 DEF IncrementalFindsFirst
  <2>6. <<>> \in Seq(Chars)
    BY EmptySeq
  <2> QED BY <1>1, <2>2, <2>3, <2>4, <2>5, <2>6 DEF FindInv
<1>3. CASE k # "/"
  <2>1. pattern' = pattern
    BY <1>3 DEF InInitial, readline
  <2> QED BY <1>1, <1>3, <2>1, NotGrowing DEF FindInv
<1> QED BY <1>2, <1>3

\* Every step.
LEMMA FindNext == Inv /\ FindInv /\ [LessNext]_lessVars => FindInv'
<1> SUFFICES ASSUME Inv, FindInv, [LessNext]_lessVars PROVE FindInv'
  OBVIOUS
<1> USE DEF start, readline, pager
<1>1. pattern \in Seq(Chars) /\ <<>> \in Seq(Chars)
  BY EmptySeq DEF FindInv
<1>2. CASE UNCHANGED lessVars
  BY <1>2, FindUnchanged DEF FindInv, lessVars
<1>3. CASE Start
  <2>1. ~growing' /\ pattern' = pattern
    BY <1>3 DEF Start, FindInv
  <2> QED BY <1>1, <2>1, NotGrowing
<1>4. CASE InputEnds
  BY <1>4, FindUnchanged DEF InputEnds
<1>5. CASE LessEnded
  BY <1>2, <1>5 DEF LessEnded
<1>7. CASE WriteFails
  BY <1>7, FindUnchanged DEF WriteFails
<1>6. ASSUME NEW k \in Chars \cup OtherKeys, Key(k) PROVE FindInv'
  <2>1. CASE InInitial(k)
    BY <2>1, FindInInitial
  <2>2. CASE TypePattern(k)
    <3>1. k \in Chars
      BY <2>2 DEF TypePattern
    <3> QED BY <2>2, <3>1, FindByTyping
  <2>3. CASE EnterPattern(k)
    BY <2>3, FindByEntering
  <2>4. CASE TakeBack(k)
    <3>1. pattern' \in Seq(Chars)
      <4>1. CASE Len(pattern) <= 1
        BY <1>1, <2>4, <4>1 DEF TakeBack, Leave
      <4>2. CASE ~(Len(pattern) <= 1)
        <5>1. Len(pattern) \in Nat /\ Len(pattern) - 1 \in 0..Len(pattern)
          BY <1>1, <4>2, LenProperties
        <5>2. pattern' = SubSeq(pattern, 1, Len(pattern) - 1)
          BY <2>4, <4>2 DEF TakeBack, Front
        <5> QED BY <1>1, <5>1, <5>2, CutInTwo
      <4> QED BY <4>1, <4>2
    <3>2. ~growing'
      BY <2>4 DEF TakeBack
    <3> QED BY <3>1, <3>2, NotGrowing
  <2>5. CASE ArrowInPattern(k)
    BY <2>5, FindUnchanged DEF ArrowInPattern, Ready, Panics
  <2>6. CASE TypeDigit(k) \/ EnterNumber(k)
    <3>1. mode = "Number" /\ growing' = growing /\ (pattern' = pattern \/ pattern' = <<>>)
      BY <2>6 DEF TypeDigit, EnterNumber, Leave
    <3>2. ~growing
      BY <3>1 DEF FindInv
    <3> QED BY <1>1, <3>1, <3>2, NotGrowing
  <2>7. CASE Escape(k)
    BY <1>1, <2>7, NotGrowing DEF Escape, Leave
  <2>8. CASE Ignored(k)
    BY <2>8, FindUnchanged DEF Ignored, Ready
  <2> QED BY <1>6, <2>1, <2>2, <2>3, <2>4, <2>5, <2>6, <2>7, <2>8 DEF Key
<1> QED BY <1>2, <1>3, <1>4, <1>5, <1>6, <1>7 DEF LessNext

-----------------------------------------------------------------------------

\* The inductive invariant: positions inside the file, numbers that did not overflow, a
\* screen drawn from the current state.
THEOREM InvHolds == LessSpec => []Inv
BY InvInit, InvNext, PTL DEF LessSpec

\* The screen shows what the pager's state says, although redrawing is left to
\* the return value of each action.
THEOREM ScreenFollows == LessSpec => []ScreenInSync
<1>1. Inv => ScreenInSync
  BY DEF Inv
<1> QED BY <1>1, InvHolds, PTL

\* No key takes the cursor or the top of the screen to a place where they cannot be.
THEOREM CursorStaysOnScreen == LessSpec => []CursorOnScreen
<1>1. Inv => CursorOnScreen
  BY DEF Inv, PagerInv
<1> QED BY <1>1, InvHolds, PTL

\* No key slices the file out of bounds, or panics in another way, but for the
\* known cases.
THEOREM OnlyKnownPanics == LessSpec => []PanicsExplained
<1>1. Inv => PanicsExplained
  BY DEF Inv
<1> QED BY <1>1, InvHolds, PTL

\* Typed character by character and entered, a pattern of literals is found at its first
\* match after the place where the search began, although each longer pattern is
\* searched from where the shorter one was found.
THEOREM IncrementalSearchFinds == LessSpec => []IncrementalFindsFirst
<1>1. FindInv => IncrementalFindsFirst
  BY DEF FindInv
<1> QED BY <1>1, FindInit, FindNext, InvHolds, PTL DEF LessSpec
=============================================================================
