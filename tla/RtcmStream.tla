------------------------------ MODULE RtcmStream ------------------------------
(***************************************************************************)
(* Corrections from an NTRIP caster: NTRIPClient connects again and again, *)
(* RTCMParser cuts the byte stream into packets, and a listener forwards   *)
(* them, either an Ethernet provider to its device or canfd_app_driver to  *)
(* the CAN bus.                                                            *)
(*                                                                         *)
(* A byte is a small number.  A packet is its header, one byte for the     *)
(* length of the payload (two in the code), the payload and one byte of    *)
(* CRC (three in the code), and the CRC is right just for what the caster  *)
(* really sends.  The caster and the network are modelled from how the     *)
(* client uses them.                                                       *)
(***************************************************************************)
EXTENDS Naturals, FiniteSets, SequencesExt

CONSTANTS
  Header,         \* PACKET_HEADER
  Traffics,       \* what casters send: sets of packets, none of them empty
  Consumers,      \* who listens: "provider", "can"
  valid_base_len, \* bytes of corrections in a CAN message
  MaxChunk,       \* bound: bytes in a recv()
  MaxCuts,        \* bound: connections lost or denied, writes that fail
  MaxEarly        \* bound: NMEA sentences sent ahead of the request

Packets == UNION Traffics

ASSUME RtcmAssumption ==
  /\ Header \in Nat
  /\ \A m \in Packets : /\ m \in Seq(0..Header) /\ Len(m) >= 3
                        /\ m[1] = Header /\ Len(m) = m[2] + 3
  /\ {} \notin Traffics
  /\ Consumers \subseteq {"provider", "can"}
  /\ valid_base_len \in Nat \ {0} /\ MaxChunk \in Nat \ {0}
  /\ MaxCuts \in Nat /\ MaxEarly \in Nat

VARIABLES
  conn,        \* where the client's thread is, see ClientPcs
  raw,         \* the parser's current_packet; empty: status INIT
  frames,      \* packets emitted as 'parsed' and not yet forwarded
  isUpgrading, \* is_upgrading (or with_upgrade_error) of the provider
  heard,       \* what reached the caster first on this connection
  answer,      \* what the caster answered
  pipe,        \* packets on their way, the first of them received in part
  taken,       \* so many bytes of the first one
  consumer,    \* who listens
  traffic,     \* what this caster sends
  intact,      \* history: the parser was in step with the caster's packets
  due,         \* history: packets completed by the last recv(), or the messages that the bus took
  delivered,   \* history: bytes forwarded since the last recv()
  skipped,     \* history: packets lost since the connection was made
  cuts, early

parserVars == <<raw, frames>>
tcpVars    == <<heard, answer, pipe, taken>>
setting    == <<consumer, traffic>>
ledger     == <<intact, due, delivered, skipped>>
bounds     == <<cuts, early>>
rtcmVars   == <<conn, parserVars, isUpgrading, tcpVars, setting, ledger, bounds>>

ClientPcs == {"off", "closed", "connected", "asked", "streaming", "parsed", "writing"}

-----------------------------------------------------------------------------
(* RTCMParser: a fold over the bytes received.                              *)

Size(packet) == packet[2] + 3

CheckCrc(packet) == packet \in Packets

FindHeader(p, byte) == IF byte = Header THEN [p EXCEPT !.raw = <<byte>>] ELSE p

\* mutant: all but the header of a packet that fails is kept
RejectKept(p, packet) ==
  [raw |-> IF CheckCrc(packet) THEN <<>> ELSE Tail(packet), packets |->
     IF CheckCrc(packet) THEN Append(p.packets, packet) ELSE p.packets]

(* The packet is complete: it is emitted or dropped as a whole.             *)
CheckPacket(p, packet) ==
  [raw |-> <<>>,
   packets |-> IF CheckCrc(packet) THEN Append(p.packets, packet) ELSE p.packets]

\* mutant: a header within a packet begins a new one
AcceptHeaders(p, byte) ==
  LET packet == Append(p.raw, byte)
  IN  CASE byte = Header -> [p EXCEPT !.raw = <<byte>>]
        [] byte # Header /\ Len(packet) > 1 /\ Len(packet) = Size(packet) ->
             CheckPacket(p, packet)
        [] OTHER -> [p EXCEPT !.raw = packet]

Accept(p, byte) ==
  LET packet == Append(p.raw, byte)
  IN  IF Len(packet) > 1 /\ Len(packet) = Size(packet)
      THEN CheckPacket(p, packet)
      ELSE [p EXCEPT !.raw = packet]

Analyse(p, byte) == IF p.raw = <<>> THEN FindHeader(p, byte) ELSE Accept(p, byte)

Analysis(packet, buffer) ==
  FoldLeft(Analyse, [raw |-> packet, packets |-> <<>>], buffer)

-----------------------------------------------------------------------------
(* The connection.                                                          *)

Coming   == FlattenSeq(pipe)
Complete(n) ==  \* packets of the pipe that end within its first n bytes
  CHOOSE k \in 0..Len(pipe) :
    /\ Len(FlattenSeq(SubSeq(pipe, 1, k))) <= n
    /\ k < Len(pipe) => Len(FlattenSeq(SubSeq(pipe, 1, k + 1))) > n

(* The client takes n bytes off the connection.                             *)
TakeBytes(n) ==
  LET k == Complete(taken + n)
  IN  /\ pipe'  = SubSeq(pipe, k + 1, Len(pipe))
      /\ taken' = taken + n - Len(FlattenSeq(SubSeq(pipe, 1, k)))

(* The parser holds just what it has received of the packet under way.      *)
InStepNow == IF pipe = <<>> THEN raw = <<>> ELSE raw = SubSeq(pipe[1], 1, taken)

Disconnect ==
  /\ conn' = "closed"
  /\ heard' = "none" /\ answer' = "none" /\ pipe' = <<>> /\ taken' = 0
  /\ intact' = FALSE /\ due' = <<>> /\ delivered' = <<>>

(* doConnect(): a connection that is refused is tried again.                *)
Connect ==
  /\ conn = "closed"
  /\ conn' = "connected"
  /\ skipped' = 0
  /\ UNCHANGED <<parserVars, isUpgrading, tcpVars, setting, intact, due, delivered, bounds>>

(* is_connected is set before the request is sent: meanwhile the provider's *)
(* parser thread may send() a GGA sentence.                                 *)
SendGga ==
  /\ conn = "connected" /\ heard = "none" /\ consumer = "provider"
  /\ early < MaxEarly
  /\ heard' = "gga" /\ early' = early + 1
  /\ UNCHANGED <<conn, parserVars, isUpgrading, answer, pipe, taken, setting, ledger, cuts>>

SendRequest ==
  /\ conn = "connected"
  /\ conn' = "asked"
  /\ heard' = IF heard = "none" THEN "request" ELSE heard
  /\ UNCHANGED <<parserVars, isUpgrading, answer, pipe, taken, setting, ledger, bounds>>

(* The caster accepts a request, may deny it, and denies anything else.     *)
CasterAnswers ==
  /\ conn = "asked" /\ answer = "none"
  /\ \/ /\ heard = "request"
        /\ answer' = "ICY 200 OK" /\ cuts' = cuts
     \/ /\ heard = "request" /\ cuts < MaxCuts
        /\ answer' = "other" /\ cuts' = cuts + 1
     \/ /\ heard = "gga"
        /\ answer' = "other" /\ cuts' = cuts
  /\ UNCHANGED <<conn, parserVars, isUpgrading, heard, pipe, taken, setting, ledger, early>>

CasterSends ==
  /\ answer = "ICY 200 OK" /\ Len(pipe) < 2
  /\ \E m \in traffic : pipe' = Append(pipe, m)
  /\ UNCHANGED <<conn, parserVars, isUpgrading, heard, answer, taken, setting, ledger, bounds>>

(* recvResponse(): what has come behind the answer is dropped with it.  The *)
(* parser is as the connection before has left it.                          *)
ResponseOk ==
  /\ conn = "asked" /\ answer = "ICY 200 OK"
  /\ conn' = "streaming"
  /\ \E n \in 0..MaxChunk : /\ taken + n <= Len(Coming)
                            /\ TakeBytes(n)
  /\ UNCHANGED <<parserVars, isUpgrading, heard, answer, setting, due, delivered, skipped, bounds>>
  /\ intact' = InStepNow'

\* mutant: the client goes on waiting on a connection that was denied
ResponseFailStaying ==
  /\ conn = "asked" /\ answer = "other"
  /\ answer' = "none"
  /\ UNCHANGED <<conn, parserVars, isUpgrading, heard, pipe, taken, setting, ledger, bounds>>

ResponseFail ==
  /\ conn = "asked" /\ answer = "other"
  /\ Disconnect
  /\ UNCHANGED <<parserVars, isUpgrading, setting, skipped, bounds>>

(* No answer, or no data, for 10 s, or an error: the socket is closed.      *)
Cut ==
  /\ conn \in {"asked", "streaming"} /\ cuts < MaxCuts
  /\ Disconnect
  /\ cuts' = cuts + 1
  /\ UNCHANGED <<parserVars, isUpgrading, setting, skipped, early>>

(* recv(): the parser analyses the whole of a chunk, then emits what it has *)
(* found.                                                                   *)
Recv(n) ==
  LET result   == Analysis(raw, SubSeq(Coming, taken + 1, taken + n))
      complete == Complete(taken + n)
  IN  /\ TakeBytes(n)
      /\ raw' = result.raw /\ frames' = result.packets
      /\ conn' = IF result.packets = <<>> THEN "streaming" ELSE "parsed"
      /\ intact' = (intact \/ InStepNow')
      /\ due' = IF intact THEN SubSeq(pipe, 1, complete) ELSE result.packets
      /\ skipped' = IF intact THEN skipped
                    ELSE skipped + complete - Len(result.packets)

Receive ==
  /\ conn = "streaming"
  /\ skipped < 9   \* bound: a parser out of step for ever
  /\ \E n \in 1..MaxChunk : taken + n <= Len(Coming) /\ Recv(n)
  /\ delivered' = <<>>
  /\ UNCHANGED <<isUpgrading, heard, answer, setting, bounds>>

-----------------------------------------------------------------------------
(* The listeners, on the client's thread.                                   *)

\* mutant: the rest is forgotten
ChunksFull(data) ==
  [i \in 1..(Len(data) \div valid_base_len) |->
     SubSeq(data, (i - 1) * valid_base_len + 1, i * valid_base_len)]

(* send_base_data(): messages of valid_base_len bytes, and one of the rest. *)
Chunks(data) ==
  [i \in 1..((Len(data) + valid_base_len - 1) \div valid_base_len) |->
     SubSeq(data, (i - 1) * valid_base_len + 1,
            IF i * valid_base_len < Len(data) THEN i * valid_base_len ELSE Len(data))]

SendBaseData ==
  /\ conn = "parsed" /\ consumer = "can"
  /\ delivered' = FlattenSeq(Chunks(FlattenSeq(frames)))
  /\ conn' = "streaming" /\ frames' = <<>>
  /\ UNCHANGED <<raw, isUpgrading, tcpVars, setting, intact, due, skipped, bounds>>

(* A message that the bus does not take is lost without notice, and the     *)
(* others are sent: those are what is due.                                  *)
SendBaseDataLost ==
  /\ conn = "parsed" /\ consumer = "can" /\ cuts < MaxCuts
  /\ LET messages == Chunks(FlattenSeq(frames))
     IN \E i \in DOMAIN messages :
          /\ due' = RemoveAt(messages, i)
          /\ delivered' = FlattenSeq(RemoveAt(messages, i))
  /\ conn' = "streaming" /\ frames' = <<>>
  /\ cuts' = cuts + 1
  /\ UNCHANGED <<raw, isUpgrading, tcpVars, setting, intact, skipped, early>>

(* handle_rtcm_data_parsed(): nothing is forwarded during an upgrade.       *)
HandleParsed ==
  /\ conn = "parsed" /\ consumer = "provider"
  /\ IF isUpgrading
     THEN conn' = "streaming" /\ frames' = <<>> /\ due' = <<>>
     ELSE conn' = "writing" /\ UNCHANGED <<frames, due>>
  /\ UNCHANGED <<raw, isUpgrading, tcpVars, setting, intact, delivered, skipped, bounds>>

WriteFrames ==
  /\ conn = "writing"
  /\ delivered' = FlattenSeq(frames)
  /\ conn' = "streaming" /\ frames' = <<>>
  /\ UNCHANGED <<raw, isUpgrading, tcpVars, setting, intact, due, skipped, bounds>>

(* write() raises in the listener: recv() closes the connection.            *)
WriteRaises ==
  /\ conn = "writing" /\ cuts < MaxCuts
  /\ Disconnect
  /\ frames' = <<>>
  /\ cuts' = cuts + 1
  /\ UNCHANGED <<raw, isUpgrading, setting, skipped, early>>

(* An upgrade begins or ends on other threads.                              *)
Upgrade ==
  /\ consumer = "provider" /\ conn # "off"
  /\ isUpgrading' = ~isUpgrading
  /\ UNCHANGED <<conn, parserVars, tcpVars, setting, ledger, bounds>>

-----------------------------------------------------------------------------
ClientStep ==
  \/ Connect \/ SendRequest \/ ResponseOk \/ ResponseFail \/ Receive
  \/ SendBaseData \/ HandleParsed \/ WriteFrames

RtcmNext ==
  \/ ClientStep \/ SendGga \/ CasterAnswers \/ CasterSends \/ Cut
  \/ SendBaseDataLost \/ WriteRaises \/ Upgrade

RtcmInit ==
  /\ consumer \in Consumers /\ traffic \in Traffics
  /\ raw = <<>> /\ frames = <<>> /\ isUpgrading = FALSE
  /\ heard = "none" /\ answer = "none" /\ pipe = <<>> /\ taken = 0
  /\ intact = FALSE /\ due = <<>> /\ delivered = <<>> /\ skipped = 0
  /\ cuts = 0 /\ early = 0

-----------------------------------------------------------------------------
(* Properties.                                                              *)

(* However TCP cuts the stream into chunks, and whatever the payloads hold, *)
(* a parser that is in step with the packets stays in step, and each recv() *)
(* forwards just the packets that it completes: to the device, or over the  *)
(* bus in messages that make up the same bytes.                             *)
FramesInStep ==
  intact /\ conn = "streaming" => InStepNow /\ delivered = FlattenSeq(due)

(* The rest of a packet cut off is looked for in the next connection, and a *)
(* header cut off from its length takes the next header for it.  Packets    *)
(* without a header in them are lost only while that lasts, and with the    *)
(* one whose beginning went with the answer of the caster.                  *)
Shortest    == CHOOSE n \in {Len(m) : m \in traffic} : \A m \in traffic : n <= Len(m)
HeaderFree  == \A m \in traffic : \A i \in 2..Len(m) : m[i] # Header
SkipsBounded ==
  HeaderFree => skipped * Shortest < Header + 2 + 2 * Shortest
=============================================================================
