---------------------------- MODULE PacketStream ----------------------------
(***************************************************************************)
(* One dnet connection (dnet_connection.c, dnet_packet.c, the session of      *)
(* dnet_crypt.c): any thread sends packets on it, one at a time under the     *)
(* connection's mutex, the ticket lock of TicketLock; the connection's own    *)
(* thread makes the session, carries out the exchange of keys while it reads, *)
(* without the mutex, and frees the session under it.                         *)
(*                                                                         *)
(* The session collects what it is given in a sector and writes a sector when *)
(* it is full, so a packet is followed by padding up to the next boundary.    *)
(***************************************************************************)
EXTENDS TicketLock, Sequences

CONSTANTS
  Reader,       (* the connection's own thread                             *)
  Sector,       (* units in a sector: 512 bytes in the code                *)
  MaxLength,    (* bound: units in a packet                                *)
  MaxPackets    (* bound: packets sent                                     *)

ASSUME PacketAssumption ==
  /\ Reader \in Procs
  /\ Sector \in Nat \ {0} /\ MaxLength \in Nat /\ MaxPackets \in Nat

VARIABLES
  phase,      (* the reader in dnet_connection_main                        *)
  sess,       (* is conn->sess set?                                        *)
  sentKeys,   (* what pos_write counts before data: nothing, our public
                 key, that and the key sector                              *)
  socket,     (* open; broken once a write failed; shut down once one had
                 waited too long                                           *)
  part,       (* what sector_write holds of the current sector             *)
  wire,       (* the units in the sectors the peer gets while it is open    *)
  step,       (* a sender in dnet_send_packet                              *)
  todo,       (* what its call of dnet_session_write has still to store    *)
  packet,     (* the packet it sends                                       *)
  length,     (* the packets' lengths                                      *)
  counted,    (* the packets counted as DNET_C_OUT_PACKETS                 *)
  alone       (* history: a padding went out whose packet was dropped      *)

stream == <<phase, sess, sentKeys, socket, part, wire, step, todo, packet, length, counted, alone>>

Pad == <<0, 0>>

PacketOK ==
  /\ TypeOK
  /\ phase \in {"create", "init", "read", "keying", "end", "free", "done"}
  /\ sess = (phase \notin {"create", "done"})
  /\ sentKeys \in {"none", "public", "both"} /\ socket \in {"open", "broken", "shut"}
  /\ Len(part) < Sector /\ Len(wire) % Sector = 0
  /\ step \in [Procs -> {"none", "look", "packet", "pad", "padding", "leave"}]
  /\ counted \subseteq 1 .. Len(length) /\ alone \in BOOLEAN

PacketInit ==
  /\ Init
  /\ phase = "create" /\ sess = FALSE /\ sentKeys = "none" /\ socket = "open"
  /\ part = <<>> /\ wire = <<>>
  /\ step = [p \in Procs |-> "none"] /\ todo = [p \in Procs |-> <<>>]
  /\ packet = [p \in Procs |-> 0] /\ length = <<>> /\ counted = {} /\ alone = FALSE

Lock(p) == Enter(p) /\ UNCHANGED stream

-----------------------------------------------------------------------------
(* dnet_send_packet and dnet_session_write *)

\* The reader sends too, from the handler of a packet it has read.
Send(p) ==
  /\ step[p] = "none" /\ (p = Reader => phase = "read") /\ Len(length) < MaxPackets
  /\ \E n \in 1 .. MaxLength : length' = Append(length, n)
  /\ Draw(p)
  /\ step' = [step EXCEPT ![p] = "look"] /\ packet' = [packet EXCEPT ![p] = Len(length) + 1]
  /\ UNCHANGED <<phase, sess, sentKeys, socket, part, wire, todo, counted, alone>>

\* The session drops what it is given before the keys are exchanged.
Takes == sentKeys = "both"

Units(k) == [i \in 1 .. length[k] |-> <<k, i>>]

\* Mutant of Padding: only a packet that fills no sector is padded.
PaddingShort(k) == [i \in 1 .. (IF length[k] < Sector THEN Sector - length[k] ELSE 0) |-> Pad]

\* Up to the end of the sector.
Padding(k) == [i \in 1 .. (Sector - (length[k] % Sector)) % Sector |-> Pad]

NoSession(p) ==
  /\ pc[p] = "in" /\ step[p] = "look" /\ ~sess
  /\ Unlock(p)
  /\ step' = [step EXCEPT ![p] = "none"]
  /\ UNCHANGED <<phase, sess, sentKeys, socket, part, wire, todo, packet, length, counted, alone>>

\* Mutant of Look: a thread that finds a session goes on without the mutex.
LookEarly(p) ==
  /\ pc[p] \in {"spin", "in"} /\ step[p] = "look" /\ sess
  /\ IF Takes THEN /\ step' = [step EXCEPT ![p] = "packet"]
                   /\ todo' = [todo EXCEPT ![p] = Units(packet[p])]
              ELSE /\ step' = [step EXCEPT ![p] = "pad"]
                   /\ UNCHANGED todo
  /\ UNCHANGED <<vars, phase, sess, sentKeys, socket, part, wire, packet, length, counted, alone>>

Look(p) ==
  /\ pc[p] = "in" /\ step[p] = "look" /\ sess
  /\ IF Takes THEN /\ step' = [step EXCEPT ![p] = "packet"]
                   /\ todo' = [todo EXCEPT ![p] = Units(packet[p])]
              ELSE /\ step' = [step EXCEPT ![p] = "pad"]
                   /\ UNCHANGED todo
  /\ UNCHANGED <<vars, phase, sess, sentKeys, socket, part, wire, packet, length, counted, alone>>

\* What fits into the sector.
Chunk(p) == SubSeq(todo[p], 1, IF Len(todo[p]) < Sector - Len(part)
                               THEN Len(todo[p]) ELSE Sector - Len(part))

\* A write may fail, and leaves the socket as it is, or find that it takes no data for
\* too long, and shuts it down.
AfterWrite == IF socket = "shut" THEN {"shut"} ELSE {socket, "broken", "shut"}

\* A full sector is written; whether it was is not asked.
Store(p) ==
  /\ step[p] \in {"packet", "padding"}
  /\ LET s == part \o Chunk(p)
         rest == SubSeq(todo[p], Len(Chunk(p)) + 1, Len(todo[p]))
     IN /\ part' = (IF Len(s) = Sector THEN <<>> ELSE s) /\ todo' = [todo EXCEPT ![p] = rest]
        /\ step' = [step EXCEPT ![p] = IF rest # <<>> THEN @
                                       ELSE IF @ = "packet" THEN "pad" ELSE "leave"]
        /\ counted' = IF step[p] = "packet" /\ rest = <<>> THEN counted \cup {packet[p]} ELSE counted
        /\ IF Len(s) = Sector
           THEN /\ socket' \in AfterWrite
                /\ wire' = IF socket' = "open" THEN wire \o s ELSE wire
           ELSE UNCHANGED <<socket, wire>>
  /\ UNCHANGED <<vars, phase, sess, sentKeys, packet, length, alone>>

PadBegins(p) ==
  /\ step[p] = "pad" /\ Takes /\ Padding(packet[p]) # <<>>
  /\ step' = [step EXCEPT ![p] = "padding"] /\ todo' = [todo EXCEPT ![p] = Padding(packet[p])]
  /\ alone' = (alone \/ packet[p] \notin counted)
  /\ UNCHANGED <<vars, phase, sess, sentKeys, socket, part, wire, packet, length, counted>>

PadNothing(p) ==
  /\ step[p] = "pad" /\ (~Takes \/ Padding(packet[p]) = <<>>)
  /\ step' = [step EXCEPT ![p] = "leave"]
  /\ UNCHANGED <<vars, phase, sess, sentKeys, socket, part, wire, todo, packet, length, counted, alone>>

Leave(p) ==
  /\ step[p] = "leave" /\ Unlock(p)
  /\ step' = [step EXCEPT ![p] = "none"]
  /\ UNCHANGED <<phase, sess, sentKeys, socket, part, wire, todo, packet, length, counted, alone>>

-----------------------------------------------------------------------------
(* dnet_connection_main *)

\* conn->sess is set before anything is sent on the session.
CreateSession ==
  /\ phase = "create" /\ phase' = "init" /\ sess' = TRUE
  /\ UNCHANGED <<vars, sentKeys, socket, part, wire, step, todo, packet, length, counted, alone>>

InitSession ==
  /\ phase = "init"
  /\ \/ phase' = "read" /\ sentKeys' = "public" /\ UNCHANGED socket
     \/ phase' = "end" /\ socket' \in AfterWrite \ {"open"} /\ UNCHANGED sentKeys
  /\ UNCHANGED <<vars, sess, part, wire, step, todo, packet, length, counted, alone>>

Reads == phase = "read" /\ step[Reader] = "none"

\* The peer's key has come; ours for the stream is enciphered with it and written.
ReadKey ==
  /\ Reads /\ sentKeys = "public" /\ phase' = "keying" /\ socket' \in AfterWrite
  /\ UNCHANGED <<vars, sess, sentKeys, part, wire, step, todo, packet, length, counted, alone>>

\* pos_write is advanced, without the mutex.
KeySent ==
  /\ phase = "keying" /\ phase' = "read" /\ sentKeys' = "both"
  /\ UNCHANGED <<vars, sess, socket, part, wire, step, todo, packet, length, counted, alone>>

\* The peer closes, or nothing comes for too long, or the socket is shut down.
ReadEnds ==
  /\ Reads /\ phase' = "end"
  /\ UNCHANGED <<vars, sess, sentKeys, socket, part, wire, step, todo, packet, length, counted, alone>>

EndLock ==
  /\ phase = "end" /\ Draw(Reader) /\ phase' = "free"
  /\ UNCHANGED <<sess, sentKeys, socket, part, wire, step, todo, packet, length, counted, alone>>

\* Mutant of FreeSession: the session is freed as soon as the ticket is drawn.
FreeEarly ==
  /\ phase = "free" /\ pc[Reader] # "out"
  /\ phase' = "done" /\ sess' = FALSE
  /\ IF pc[Reader] = "in" THEN Unlock(Reader) ELSE UNCHANGED vars
  /\ UNCHANGED <<sentKeys, socket, part, wire, step, todo, packet, length, counted, alone>>

\* Mutant of FreeSession: the mutex is unlocked and the session forgotten.
FreeKeeps ==
  /\ phase = "free" /\ Unlock(Reader)
  /\ phase' = "done"
  /\ UNCHANGED <<sess, sentKeys, socket, part, wire, step, todo, packet, length, counted, alone>>

FreeSession ==
  /\ phase = "free" /\ Unlock(Reader)
  /\ phase' = "done" /\ sess' = FALSE
  /\ UNCHANGED <<sentKeys, socket, part, wire, step, todo, packet, length, counted, alone>>

-----------------------------------------------------------------------------
Sends(p) == NoSession(p) \/ Look(p) \/ Store(p) \/ PadBegins(p) \/ PadNothing(p) \/ Leave(p)

PacketNext ==
  \/ \E p \in Procs : Send(p) \/ Lock(p) \/ Sends(p)
  \/ CreateSession \/ InitSession \/ ReadKey \/ KeySent \/ ReadEnds \/ EndLock \/ FreeSession

PacketSpec == PacketInit /\ [][PacketNext]_<<vars, stream>>

\* Every thread runs; a write ends, by its poll's time limit at the latest; a read
\* on a socket that is shut down ends.  After a write that failed otherwise nothing
\* has to end the read.  Nobody has to send, nor a peer to answer.
PacketFairness ==
  /\ \A p \in Procs : WF_<<vars, stream>>(Lock(p)) /\ WF_<<vars, stream>>(Sends(p))
  /\ WF_<<vars, stream>>(CreateSession \/ InitSession \/ KeySent \/ EndLock \/ FreeSession)
  /\ WF_<<vars, stream>>(ReadEnds /\ socket = "shut")

PacketFairSpec == PacketSpec /\ PacketFairness

-----------------------------------------------------------------------------
(* Properties *)

\* No session is freed under a thread that stores into it (dnet_connection_main's
\* last lock), nor do two threads store at once.
SessionHeld ==
  \A p \in Procs : step[p] \in {"packet", "pad", "padding"} =>
    sess /\ \A q \in Procs \ {p} : step[q] \in {"none", "look"}

\* In s, unit i comes after the unit before it of its packet, or begins a packet
\* or a padding where nothing is cut off.
Follows(s, i) ==
  IF s[i][2] > 1 THEN i > 1 /\ s[i - 1] = <<s[i][1], s[i][2] - 1>>
                 ELSE i > 1 /\ s[i - 1] # Pad => s[i - 1][2] = length[s[i - 1][1]]

\* The peer gets packets that are whole, each unit after the one before it: the
\* sectors of two packets are never mixed, no padding is put inside a packet, and a
\* packet is dropped whole or sent from its beginning.  Only the last may be cut off.
PacketsWhole == \A i \in 1 .. Len(wire) : Follows(wire, i)

\* A packet counted as sent has left, to its last unit, when the sender unlocks the
\* mutex: the padding is what sends its end.  Not so when the socket failed, which
\* nobody asks, or once a padding went out alone because the keys were exchanged
\* between a dropped packet and its padding: from then on the boundary is missed.
CountedIsSent ==
  \A k \in counted :
    (socket = "open" /\ ~alone /\ \A p \in Procs : packet[p] = k => step[p] = "none") =>
      \E i \in 1 .. Len(wire) : wire[i] = <<k, length[k]>>

\* A connection that a write found stuck, and shut down, is closed by its own thread,
\* whoever holds the mutex or waits for it: its session does not stay for good.
ShutIsClosed == (sess /\ socket = "shut") ~> ~sess
=============================================================================
