-------------------------------- MODULE Ping --------------------------------
(***************************************************************************)
(* src/bin/ping.rs: the main thread appends a slot to `pings` and sends a  *)
(* request, about once a second, until Ctrl-C; the listener thread marks   *)
(* the slot of each reply; both take the mutex around `pings`.             *)
(*                                                                         *)
(* The network may lose, delay, reorder and duplicate packets.  The raw    *)
(* socket also gets ICMP packets that answer nothing this program sent:    *)
(* Foreign is the set of sequence numbers they carry.                      *)
(***************************************************************************)
EXTENDS Naturals, Sequences, FiniteSets

CONSTANTS Wrap,       \* how many values a sequence number has, 2^16
          MaxPings,   \* bound on the number of requests
          Foreign,    \* see above
          Versions,   \* enum IpVersion: subset of {"V4", "V6"}
          Builds      \* subset of {"dev", "release"}

ASSUME WrapAssumption == Wrap \in Nat \ {0, 1}
ASSUME MaxPingsAssumption == MaxPings \in Nat
ASSUME ForeignAssumption == Foreign \subseteq 0..(Wrap - 1)
ASSUME VersionsAssumption == Versions \subseteq {"V4", "V6"}
ASSUME BuildsAssumption == Builds \subseteq {"dev", "release"}

VARIABLES
  version,    \* of the first address of the host that fits the preference
  build,
  pings,      \* the slots: "sent" or "received" (enum Echo)
  running,    \* cleared by the Ctrl-C handler
  main,       \* where the main thread is
  listener,   \* "none", "recv", "lock" (has a packet, wants the mutex) or "dead"
  poisoned,   \* the mutex is poisoned
  packet,     \* the packet the listener works on
  requests,   \* the requests handed to the network: slot numbers
  printFailed,  \* history: println! or eprintln! has panicked in the listener
  replies,    \* packets on their way to the listener
  answered    \* history: the slots whose reply the listener has got hold of

setting == <<version, build, printFailed>>   \* changed by RegisterPrintFails only
vars == <<version, build, pings, running, main, listener, poisoned, packet,
          printFailed, requests, replies, answered>>

(***************************************************************************)
(* "start", "setup": before and after the listener is spawned;  "loop": at *)
(* the head of the loop;  "push", "send": appending the slot, sending the  *)
(* request;  "sleep";  "summary": after the loop;  "replies" and "none":   *)
(* exit status 0 and 2;  "failure": 1, a panic, or a signal.               *)
(***************************************************************************)
MainState == {"start", "setup", "loop", "push", "send", "sleep", "summary", "replies",
              "none", "failure"}
ProcessAlive == main \notin {"replies", "none", "failure"}

\* A packet that answers the request of slot `ping`, or a foreign one (ping = 0).
Packet == [seq: 0..(Wrap - 1), ping: 0..MaxPings]
NoPacket == [seq |-> 0, ping |-> 0]

Init ==
  /\ version \in Versions /\ build \in Builds
  /\ pings = <<>> /\ printFailed = FALSE
  /\ running = TRUE
  /\ main = "start"
  /\ listener = "none" /\ poisoned = FALSE /\ packet = NoPacket
  /\ requests = {} /\ answered = {}
  /\ replies = {[seq |-> s, ping |-> 0] : s \in Foreign}

-----------------------------------------------------------------------------

\* `pings.len() as u16`, "start at 1"; and its mutant, which starts at 0.
SequenceFromZero(slot) == (slot - 1) % Wrap
SequenceOf(slot) == slot % Wrap

(* The main thread. *)

\* The name is resolved, the socket opened and the listener spawned; or one of it
\* fails, or Ctrl-C, which has no handler yet, ends the process.
Resolve ==
  /\ main = "start"
  /\ \/ main' = "setup" /\ listener' = "recv"
     \/ main' = "failure" /\ UNCHANGED listener
  /\ UNCHANGED <<setting, pings, running, poisoned, packet, requests, replies, answered>>

\* The first line of output and the handler; the listener runs already.
SetHandler ==
  /\ main = "setup"
  /\ main' \in {"loop", "failure"}
  /\ UNCHANGED <<setting, pings, running, listener, poisoned, packet, requests,
                 replies, answered>>

\* Mutant of Loop: Ctrl-C is not looked at.
LoopForever ==
  /\ main = "loop"
  /\ main' = "push" /\ (Len(pings) < MaxPings \/ poisoned)
  /\ UNCHANGED <<setting, pings, running, listener, poisoned, packet, requests,
                 replies, answered>>

\* The condition of the loop.  MaxPings bounds how often it is entered.
Loop ==
  /\ main = "loop"
  /\ IF running
     THEN main' = "push" /\ (Len(pings) < MaxPings \/ poisoned)
     ELSE main' = "summary"
  /\ UNCHANGED <<setting, pings, running, listener, poisoned, packet, requests,
                 replies, answered>>

\* Mutant of Push: a poisoned mutex is taken all the same.
PushPoisoned ==
  /\ main = "push" /\ Len(pings) < MaxPings
  /\ main' = "send" /\ pings' = Append(pings, "sent")
  /\ UNCHANGED <<setting, running, listener, poisoned, packet, requests, replies,
                 answered>>

\* The slot is appended before the request is sent; lock().unwrap() panics on a
\* poisoned mutex.
Push ==
  /\ main = "push"
  /\ IF poisoned THEN main' = "failure" /\ UNCHANGED pings
     ELSE main' = "send" /\ pings' = Append(pings, "sent")
  /\ UNCHANGED <<setting, running, listener, poisoned, packet, requests, replies,
                 answered>>

\* build_ipv4_request, send_to.
Send ==
  /\ main = "send"
  /\ requests' = requests \cup {Len(pings)}
  /\ main' = "sleep"
  /\ UNCHANGED <<setting, pings, running, listener, poisoned, packet, replies, answered>>

\* `tx.send_to(..)?`
SendFails ==
  /\ main = "send"
  /\ main' = "failure"
  /\ UNCHANGED <<setting, pings, running, listener, poisoned, packet, requests,
                 replies, answered>>

\* Ten periods of 100 ms, or fewer after Ctrl-C.
Sleep ==
  /\ main = "sleep"
  /\ main' = "loop"
  /\ UNCHANGED <<setting, pings, running, listener, poisoned, packet, requests,
                 replies, answered>>

Received == {i \in 1..Len(pings) : pings[i] = "received"}

\* The statistics, and the exit status; or a panic of lock().unwrap() or print!.
Summary ==
  /\ main = "summary"
  /\ \/ main' = "failure"
     \/ ~poisoned /\ main' = IF Received = {} THEN "none" ELSE "replies"
  /\ UNCHANGED <<setting, pings, running, listener, poisoned, packet, requests,
                 replies, answered>>

Main == Resolve \/ SetHandler \/ Loop \/ Push \/ Send \/ SendFails \/ Sleep \/ Summary

-----------------------------------------------------------------------------
(* The listener thread. *)

\* iter.next() returns a packet, of which the network may keep a duplicate.
Receive ==
  /\ listener = "recv"
  /\ \E p \in replies :
       /\ packet' = p
       /\ replies' \in {replies, replies \ {p}}
       /\ answered' = answered \cup ({p.ping} \ {0})
  /\ listener' = "lock"
  /\ UNCHANGED <<setting, pings, running, main, poisoned, requests>>

\* listen_ipv6 knows one sequence number only.
SequenceNumber == IF version = "V6" THEN 1 ELSE packet.seq

\* Mutant of Register: the slots are taken to be numbered from 0.
RegisterOffByOne ==
  /\ listener = "lock" /\ ~poisoned
  /\ ~(build = "dev" /\ SequenceNumber = 0)
  /\ pings' = [i \in 1..Len(pings) |->
                 IF i = SequenceNumber + 1 THEN "received" ELSE pings[i]]
  /\ listener' = "recv" /\ packet' = NoPacket
  /\ UNCHANGED <<setting, running, main, poisoned, requests, replies, answered>>

\* register_echo_reply: a slot that has no answer yet gets one.  For sequence
\* number 0 the index is usize::MAX, and there is no such slot.
Register ==
  /\ listener = "lock" /\ ~poisoned
  /\ ~(build = "dev" /\ SequenceNumber = 0)
  /\ pings' = [i \in 1..Len(pings) |->
                 IF i = SequenceNumber THEN "received" ELSE pings[i]]
  /\ listener' = "recv" /\ packet' = NoPacket
  /\ UNCHANGED <<setting, running, main, poisoned, requests, replies, answered>>

\* What became of the reply is printed with the mutex held: println! of the first
\* reply of a slot, eprintln! of a second one or of one without a slot.  They panic
\* when stdout or stderr cannot be written.
RegisterPrintFails ==
  /\ listener = "lock" /\ ~poisoned
  /\ ~(build = "dev" /\ SequenceNumber = 0)
  /\ pings' = [i \in 1..Len(pings) |->
                 IF i = SequenceNumber THEN "received" ELSE pings[i]]
  /\ listener' = "dead" /\ packet' = NoPacket /\ printFailed' = TRUE
  /\ IF build = "release" THEN main' = "failure" /\ UNCHANGED poisoned
     ELSE poisoned' = TRUE /\ UNCHANGED main
  /\ UNCHANGED <<version, build, running, requests, replies, answered>>

\* `0 - 1` overflows, with the mutex held.
RegisterPanics ==
  /\ listener = "lock" /\ ~poisoned
  /\ build = "dev" /\ SequenceNumber = 0
  /\ listener' = "dead" /\ poisoned' = TRUE /\ packet' = NoPacket
  /\ UNCHANGED <<setting, pings, running, main, requests, replies, answered>>

\* "thread listener quit unexpectedly", or unwrap() of a packet that is too short.
ListenerQuits ==
  /\ listener = "recv"
  /\ listener' = "dead"
  /\ main' = IF build = "release" THEN "failure" ELSE main
  /\ UNCHANGED <<setting, pings, running, poisoned, packet, requests, replies, answered>>

-----------------------------------------------------------------------------
(* The environment. *)

\* The peer answers a request, at any time.
Answer ==
  /\ \E i \in requests :
       replies' = replies \cup {[seq |-> SequenceOf(i), ping |-> i]}
  /\ UNCHANGED <<setting, pings, running, main, listener, poisoned, packet, requests,
                 answered>>

CtrlC ==
  /\ running /\ main \notin {"start", "setup"}
  /\ running' = FALSE
  /\ UNCHANGED <<setting, pings, main, listener, poisoned, packet, requests, replies,
                 answered>>

-----------------------------------------------------------------------------

Ended == ~ProcessAlive /\ UNCHANGED vars

Next ==
  \/ /\ ProcessAlive
     /\ Main \/ Receive \/ Register \/ RegisterPrintFails
        \/ RegisterPanics \/ ListenerQuits \/ Answer \/ CtrlC
  \/ Ended

Spec == Init /\ [][Next]_vars
FairSpec == Spec /\ WF_vars(ProcessAlive /\ Main)

-----------------------------------------------------------------------------
(* Safety. *)

\* The type invariant.
TypeOK ==
  /\ version \in Versions /\ build \in Builds
  /\ pings \in Seq({"sent", "received"}) /\ Len(pings) <= MaxPings
  /\ {running, poisoned, printFailed} \subseteq BOOLEAN
  /\ main \in MainState /\ listener \in {"none", "recv", "lock", "dead"}
  /\ packet \in Packet /\ replies \subseteq Packet
  /\ requests \subseteq 1..MaxPings /\ answered \subseteq 1..MaxPings

\* Before the sequence number wraps, a reply always finds its slot, however late
\* or often it comes, and a slot is marked only for its own reply, or for a
\* foreign packet with its number.  Exit status 2 then means that no request was
\* answered.  An IPv6 ping marks no slot but the first.
RepliesFindTheirSlot ==
  /\ version = "V4" /\ Len(pings) < Wrap =>
       /\ Received \subseteq answered \cup Foreign
       /\ answered \ {packet.ping} \subseteq Received
       /\ main = "none" => answered \subseteq {packet.ping}
  /\ version = "V6" => Received \subseteq {1}

\* The listener panics with the mutex held only when it cannot print, when the
\* sequence number has wrapped to 0, or on a foreign packet with that number.
PoisonOnlyAfterWrap ==
  poisoned /\ ~printFailed => build = "dev" /\ version = "V4" /\ (Len(pings) >= Wrap \/ 0 \in Foreign)

-----------------------------------------------------------------------------
(* Liveness. *)

\* Ctrl-C ends the program, whatever the network and the listener do.
CtrlCEnds == ~running ~> ~ProcessAlive

\* When the listener has died holding the mutex, the main thread notices.
PoisonEndsPing == poisoned ~> main = "failure"

=============================================================================
