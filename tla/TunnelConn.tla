----------------------------- MODULE TunnelConn -----------------------------
(***************************************************************************)
(* A relay tunnel from the goroutines that write to it on one node to the  *)
(* ones that read from it on the other: capsuleConn and RelayTunnelConn    *)
(* (internal/h2proxy), forwardConnToTUN, controlReadLoop and handleControl *)
(* (internal/manager).                                                     *)
(*                                                                         *)
(* In between lies the inner TLS connection (external): bytes arrive in    *)
(* order or the connection breaks, and then some first part of what is     *)
(* under way can still be read.  The bytes of a capsule header are on the  *)
(* wire one by one; a payload is one item, with a byte of its own should   *)
(* the reader ever take it for a header.                                   *)
(***************************************************************************)
EXTENDS Varint, FiniteSets

CONSTANTS
    Writers,      \* goroutines that call WritePacket or WriteControl
    Capsules,     \* what they write
    MaxWritten,   \* bound: capsules in one behaviour
    MTU,          \* of the receiver's TUN device: the length of its read buffer
    AllowedIPs,   \* the sources the receiver accepts from this peer
    CtrlCap,      \* capacity of ctrlCh (16 in the code)
    None

\* Types and lengths fit into a varint (lengths are those of Go slices).
ASSUME CapsuleAssumption ==
    /\ Capsules \subseteq [type : Nat, len : Nat, version : Nat, body : STRING]
    /\ \A c \in Capsules : IsVarint(c.type) /\ IsVarint(c.len)

ASSUME BoundAssumption == MaxWritten \in Nat /\ CtrlCap \in Nat

ASSUME NoneAssumption ==
    None \notin Writers /\ None \notin AllowedIPs /\ None \notin Capsules

VARIABLES
    wrMu,      \* the writer that holds capsuleConn.wrMu
    writing,   \* the capsule whose header that writer has written
    written,   \* the capsules whose headers have been written, in order
    wire,      \* the bytes and payloads not yet read
    conn,      \* "open" or "broken"
    reader,    \* forwardConnToTUN: "read" or "ended"
    consumed,  \* how many capsules the reader has taken
    tun,       \* what it has written to the TUN device
    ctrlCh,    \* RelayTunnelConn.ctrlCh
    handled,   \* the control messages handleControl has acted on
    dropped    \* the capsules (places in written) that ctrlCh had no room for

vars == <<wrMu, writing, written, wire, conn, reader, consumed, tun, ctrlCh, handled,
          dropped>>

capsuleTypeIPPacket == 0

capsuleTypeControl == 1

maxCapsuleLen == 65536

Init ==
    /\ wrMu = None
    /\ writing = None
    /\ written = <<>>
    /\ wire = <<>>
    /\ conn = "open"
    /\ reader = "read"
    /\ consumed = 0
    /\ tun = <<>>
    /\ ctrlCh = <<>>
    /\ handled = <<>>
    /\ dropped = {}

----------------------------------------------------------------------------
(* WritePacket and WriteControl, which differ in the capsule type only. *)

\* What is on the wire: a byte of a header, or a payload.
Items == [byte : Byte, payload : Capsules \cup {None}]

OnWire(bytes) == [i \in 1..Len(bytes) |-> [byte |-> bytes[i], payload |-> None]]

Header(c) == OnWire(AppendVarint(AppendVarint(<<>>, c.type), c.len))

Payload(c) == IF c.len = 0 THEN <<>> ELSE <<[byte |-> 0, payload |-> c]>>

\* Mutant: a second writer does not wait for the lock.
WriteHeaderUnlocked(w, c) ==
    /\ wrMu # w /\ conn = "open" /\ Len(written) < MaxWritten
    /\ wrMu' = w
    /\ writing' = c
    /\ written' = Append(written, c)
    /\ wire' = wire \o Header(c)
    /\ UNCHANGED <<conn, reader, consumed, tun, ctrlCh, handled, dropped>>

\* The lock is taken and the header written.  (On a broken connection this Write fails
\* and nothing changes.)
WriteHeader(w, c) ==
    /\ wrMu = None /\ conn = "open" /\ Len(written) < MaxWritten
    /\ wrMu' = w
    /\ writing' = c
    /\ written' = Append(written, c)
    /\ wire' = wire \o Header(c)
    /\ UNCHANGED <<conn, reader, consumed, tun, ctrlCh, handled, dropped>>

\* The payload is written, or the Write fails; the lock is released.
WritePayload(w) ==
    /\ wrMu = w
    /\ wire' = IF conn = "open" THEN wire \o Payload(writing) ELSE wire
    /\ wrMu' = None
    /\ writing' = None
    /\ UNCHANGED <<written, conn, reader, consumed, tun, ctrlCh, handled, dropped>>

----------------------------------------------------------------------------
(* ReadPacket and forwardConnToTUN. *)

\* A varint at the start of s has arrived in full.
HasVarint(s) == s # <<>> /\ Len(s) >= VarintLen(s[1].byte)

Bytes(s) == [i \in 1..Len(s) |-> s[i].byte]

VarintAt(s) == ReadVarint(Bytes(s))

AfterVarint(s) == SubSeq(s, VarintLen(s[1].byte) + 1, Len(s))

HasHeader == HasVarint(wire) /\ HasVarint(AfterVarint(wire))

Type == VarintAt(wire)

Length == VarintAt(AfterVarint(wire))

AfterHeader == AfterVarint(AfterVarint(wire))

\* malonExtractSrcIP: the source of a packet that is long enough for its version.
malonExtractSrcIP(pkt) ==
    IF pkt.len < 20 \/ pkt.version \notin {4, 6} \/ (pkt.version = 6 /\ pkt.len < 40)
    THEN None ELSE pkt.body

malonAllowedIPsContains(prefixes, addr) == addr \in prefixes

\* Mutant: a packet that just fits the buffer is refused.
RefusedAtMTU ==
    Length > maxCapsuleLen \/ (Type = capsuleTypeIPPacket /\ Length >= MTU)

\* The reader refuses the capsule that follows: it is too long, or a packet longer than
\* the buffer.
Refused == Length > maxCapsuleLen \/ (Type = capsuleTypeIPPacket /\ Length > MTU)

\* Mutant: a full channel loses its oldest message instead of the new one.
TakeControlEvicts(payload) ==
    /\ ctrlCh' = Append(IF Len(ctrlCh) < CtrlCap THEN ctrlCh ELSE Tail(ctrlCh), payload)
    /\ UNCHANGED <<tun, dropped>>

\* A control payload goes to ctrlCh unless it is full.
TakeControl(payload) ==
    /\ IF Len(ctrlCh) < CtrlCap
       THEN ctrlCh' = Append(ctrlCh, payload) /\ UNCHANGED dropped
       ELSE dropped' = dropped \cup {consumed + 1} /\ UNCHANGED ctrlCh
    /\ UNCHANGED tun

\* Mutant: the source is not looked up.
TakePacketUnfiltered(payload) ==
    /\ IF Length > 0 THEN tun' = Append(tun, payload) ELSE UNCHANGED tun
    /\ UNCHANGED <<ctrlCh, dropped>>

\* forwardConnToTUN: a packet without bytes is a keepalive, one whose source is not
\* among the AllowedIPs is dropped.
TakePacket(payload) ==
    /\ IF Length > 0 /\ malonAllowedIPsContains(AllowedIPs, malonExtractSrcIP(payload))
       THEN tun' = Append(tun, payload) ELSE UNCHANGED tun
    /\ UNCHANGED <<ctrlCh, dropped>>

\* ReadPacket takes one capsule: control, packet, or of a type it does not know and
\* skips.
ReadCapsule ==
    /\ reader = "read" /\ HasHeader /\ ~Refused
    /\ Length > 0 => AfterHeader # <<>>
    /\ LET payload == IF Length > 0 THEN Head(AfterHeader).payload ELSE None
       IN  CASE Type = capsuleTypeControl -> TakeControl(payload)
             [] Type = capsuleTypeIPPacket -> TakePacket(payload)
             [] OTHER -> UNCHANGED <<tun, ctrlCh, dropped>>
    /\ wire' = IF Length > 0 THEN Tail(AfterHeader) ELSE AfterHeader
    /\ consumed' = consumed + 1
    /\ UNCHANGED <<wrMu, writing, written, conn, reader, handled>>

\* Mutant: the end of the connection is not an error.
ReadFailsRefused ==
    /\ reader = "read" /\ HasHeader /\ Refused
    /\ reader' = "ended"
    /\ UNCHANGED <<wrMu, writing, written, wire, conn, consumed, tun, ctrlCh, handled,
                   dropped>>

\* Mutant: a header of which only a part has arrived counts as the end.
ReadFailsShort ==
    /\ reader = "read" /\ (HasHeader => Refused)
    /\ reader' = "ended"
    /\ UNCHANGED <<wrMu, writing, written, wire, conn, consumed, tun, ctrlCh, handled,
                   dropped>>

\* ReadPacket fails, on a capsule it refuses or because the connection has ended before
\* a whole one: the forwarder withdraws the connection and returns.
ReadFails ==
    /\ reader = "read"
    /\ \/ HasHeader /\ Refused
       \/ conn = "broken" /\ (HasHeader => Length > 0 /\ AfterHeader = <<>>)
    /\ reader' = "ended"
    /\ UNCHANGED <<wrMu, writing, written, wire, conn, consumed, tun, ctrlCh, handled,
                   dropped>>

----------------------------------------------------------------------------
(* controlReadLoop. *)

\* ReadControl takes the next message and handleControl decodes it: candidates start
\* validateCandidates, anything else is ignored, and so is an empty message, which does
\* not decode.  Nothing closes ctrlCh.
HandleControl ==
    /\ ctrlCh # <<>>
    /\ ctrlCh' = Tail(ctrlCh)
    /\ handled' = IF Head(ctrlCh) # None /\ Head(ctrlCh).body = "candidates"
                  THEN Append(handled, Head(ctrlCh)) ELSE handled
    /\ UNCHANGED <<wrMu, writing, written, wire, conn, reader, consumed, tun, dropped>>

----------------------------------------------------------------------------

\* The connection breaks or is closed; a first part of what is under way stays readable.
Break ==
    /\ conn = "open"
    /\ conn' = "broken"
    /\ \E k \in 0..Len(wire) : wire' = SubSeq(wire, 1, k)
    /\ UNCHANGED <<wrMu, writing, written, reader, consumed, tun, ctrlCh, handled, dropped>>

Next ==
    \/ \E w \in Writers : WritePayload(w) \/ \E c \in Capsules : WriteHeader(w, c)
    \/ ReadCapsule \/ ReadFails \/ HandleControl \/ Break

Spec == Init /\ [][Next]_vars

\* The goroutines that read and handle run when they can.
FairSpec ==
    /\ Spec
    /\ WF_vars(ReadCapsule \/ ReadFails)
    /\ WF_vars(HandleControl)
    /\ WF_vars(\E w \in Writers : WritePayload(w))

----------------------------------------------------------------------------
(* Properties. *)

\* Every variable keeps its type.
TypeOK ==
    /\ wrMu \in Writers \cup {None}
    /\ writing \in Capsules \cup {None}
    /\ written \in Seq(Capsules)
    /\ wire \in Seq(Items)
    /\ conn \in {"open", "broken"}
    /\ reader \in {"read", "ended"}
    /\ consumed \in 0..MaxWritten
    /\ Len(ctrlCh) <= CtrlCap

\* What a capsule looks like on the wire.
Image(c) == Header(c) \o Payload(c)

\* The capsules the reader has not yet taken.
Untaken == [i \in 1..Len(written) - consumed |-> Image(written[consumed + i])]

\* Of the operators SequencesExt has, the two that the next property needs: that module
\* would also bring Bags into every proof about this one, which takes most of their time.
FlattenSeq(seqs) ==
    IF Len(seqs) = 0 THEN seqs
    ELSE LET upTo[i \in 1..Len(seqs)] == IF i = 1 THEN seqs[i] ELSE upTo[i - 1] \o seqs[i]
         IN  upTo[Len(seqs)]

IsPrefix(s, t) == Len(s) <= Len(t) /\ SubSeq(s, 1, Len(s)) = SubSeq(t, 1, Len(s))

\* The reader is always at the beginning of a capsule: what is under way is a first
\* part of the capsules it has not yet taken, each whole and in the order of their
\* headers, although several goroutines write and a header has 2 to 16 bytes.
WireFramed == IsPrefix(wire, FlattenSeq(Untaken))

Forwarded(c) ==
    /\ c.type = capsuleTypeIPPacket /\ c.len > 0
    /\ malonExtractSrcIP(c) \in AllowedIPs

\* What the reader gets of a capsule: its payload, unless it has none.
Content(c) == IF c.len > 0 THEN c ELSE None

\* s holds the contents of the capsules at these places of f, each once, in their order.
Lists(s, f, places) ==
    \E at \in [1..Len(s) -> places] :
        /\ \A j \in 1..Len(s) : s[j] = Content(f[at[j]])
        /\ \A j, k \in 1..Len(s) : j < k => at[j] < at[k]
        /\ \A p \in places : \E j \in 1..Len(s) : at[j] = p

\* The TUN device gets exactly the packets with an accepted source among the capsules
\* taken, once and in the order they were written.
TunExact == Lists(tun, written, {i \in 1..consumed : Forwarded(written[i])})

IsControl(i) == written[i].type = capsuleTypeControl

Candidates(c) == c.len > 0 /\ c.body = "candidates"

\* The places of the control messages that ctrlCh had room for.
Kept == {i \in 1..consumed : IsControl(i) /\ i \notin dropped}

\* controlReadLoop goes through the control messages in the order they were written: up
\* to some place those with candidates have been handled, each once, and all the later
\* ones are waiting.  One is missing only when ctrlCh was full.
ControlOrdered ==
    /\ \E h \in 0..consumed :
          /\ Lists(handled, written, {i \in Kept : i <= h /\ Candidates(written[i])})
          /\ Lists(ctrlCh, written, {i \in Kept : i > h})
    /\ \A i \in dropped : Cardinality({j \in 1..i - 1 : IsControl(j)}) >= CtrlCap

\* The forwarder gives a session up only when the connection is broken or the other
\* node sent a capsule above the limits; a keepalive, an unknown capsule type or a
\* packet of exactly the MTU never ends it.
EndsForCause ==
    reader = "ended" =>
        \/ conn = "broken"
        \/ \E i \in 1..Len(written) :
              \/ written[i].len > maxCapsuleLen
              \/ written[i].type = capsuleTypeIPPacket /\ written[i].len > MTU

\* A connection that breaks ends its forwarder, whatever was under way, so that
\* ClearConnIf runs.
BrokenConnEnds == conn = "broken" ~> reader = "ended"

\* The capsules written and not yet taken.
Queue == [i \in 1..Len(written) - consumed |-> written[consumed + i]]

OverLimit(c) == c.len > maxCapsuleLen \/ (c.type = capsuleTypeIPPacket /\ c.len > MTU)

Abstract ==
    INSTANCE CapsuleQueue
    WITH TooLong  <- {c \in Capsules : OverLimit(c)},
         Packets  <- {c \in Capsules : Forwarded(c)},
         Controls <- {c \in Capsules : c.type = capsuleTypeControl},
         Wanted   <- {c \in Capsules : c.body = "candidates"},
         queue <- Queue, open <- conn = "open", reading <- reader = "read", ctrl <- ctrlCh

\* The tunnel is what CapsuleQueue promises: headers and payloads written in two steps by
\* several goroutines and parsed again byte by byte cannot be told from a queue of whole
\* capsules, up to the point where the connection breaks.
ImplementsQueue == Abstract!Spec

=============================================================================
