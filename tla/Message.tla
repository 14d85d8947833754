------------------------------- MODULE Message ------------------------------
(***************************************************************************)
(* The wire protocol (protocol/message.go).  One side makes a message, new *)
(* or by Clone from the last one it has read, sets header fields and       *)
(* contents in any order and writes Encode of it; the other side reads     *)
(* frame after frame until Decode returns an error.                        *)
(*                                                                         *)
(* The header is one cell of a frame, with bytes 2 and 3 as sets of bits;  *)
(* any other cell is a byte, a number below Base.  A length takes Width    *)
(* cells (4 bytes in the code), and uint32 is what they can hold.          *)
(***************************************************************************)
EXTENDS Integers, Sequences, FiniteSets, SequencesExt

CONSTANTS
  Base, Width,
  Path, Method,    (* contents to send: sequences of cells, and functions  *)
  Payloads,        (* from such sequences to such sequences                *)
  Metadatas,
  SerializeTypes, Seqs,
  MaxFrames        (* bound on the frames written                          *)

Cell == 0 .. Base - 1

ASSUME MessageAssumption ==
  /\ Base \in Nat \ {0, 1} /\ Width \in Nat \ {0} /\ MaxFrames \in Nat
  /\ SerializeTypes \subseteq 0 .. 15
  /\ Path \in Seq(Cell) /\ Method \in Seq(Cell)
  /\ Payloads \subseteq Seq(Cell)
  /\ \A md \in Metadatas :
       /\ md \in [DOMAIN md -> Seq(Cell)]
       /\ IsFiniteSet(DOMAIN md) /\ DOMAIN md \subseteq Seq(Cell)

VARIABLES
  message,  (* the message being made                                      *)
  asked,    (* history: the header fields its maker has asked for          *)
  stream,   (* the cells written and not read                              *)
  written,  (* history: the messages in stream, and whether they are whole *)
  frames,   (* the number of frames written so far                         *)
  read      (* the last result of Read, and what was expected of it        *)

vars == <<message, asked, stream, written, frames, read>>

(***************************************************************************)
(* Header                                                                  *)
(***************************************************************************)
Weight == <<1, 2, 4, 8, 16, 32, 64, 128>>

Bits(n) == {i \in 0 .. 7 : (n \div Weight[i + 1]) % 2 = 1}

Number(bits) == (IF 0 \in bits THEN 1 ELSE 0) + (IF 1 \in bits THEN 2 ELSE 0)
              + (IF 2 \in bits THEN 4 ELSE 0) + (IF 3 \in bits THEN 8 ELSE 0)

Shifted(bits, k) == {i \in 0 .. 7 : i - k \in bits}

MagicNumber == 8

MessageType(h) == Number({i - 7 : i \in h.b2 \cap {7}})
IsHeartbeat(h) == 6 \in h.b2
IsOneway(h) == 5 \in h.b2
MessageStatusType(h) == Number(h.b2 \cap {0, 1})
SerializeType(h) == Number({i - 4 : i \in h.b3 \cap 4 .. 7})

Flagged(bits, i, b) == IF b THEN bits \cup {i} ELSE bits \ {i}

(* Faulty, not part of Spec: the type is stored over the flags beside it.  *)
SetMessageTypeOver(h, mt) == [h EXCEPT !.b2 = Shifted(Bits(mt), 7)]
SetMessageType(h, mt) ==
  [h EXCEPT !.b2 = @ \cup Shifted(Bits(mt), 7)]
SetHeartbeat(h, b) == [h EXCEPT !.b2 = Flagged(@, 6, b)]
SetOneway(h, b) == [h EXCEPT !.b2 = Flagged(@, 5, b)]
SetMessageStatusType(h, mt) ==
  [h EXCEPT !.b2 = (@ \ {0, 1}) \cup (Bits(mt) \cap {0, 1})]
SetSerializeType(h, st) ==
  [h EXCEPT !.b3 = (@ \ 4 .. 7) \cup Shifted(Bits(st), 4)]
SetSeq(h, n) == [h EXCEPT !.seq = n]

(***************************************************************************)
(* Messages                                                                *)
(***************************************************************************)
NoMetadata == [k \in {} |-> <<>>]

NewMessage ==
  [header |-> [magic |-> MagicNumber, b2 |-> {}, b3 |-> {}, seq |-> 0],
   path |-> <<>>, method |-> <<>>, metadata |-> NoMetadata, payload |-> <<>>]

Clone(m) == [m EXCEPT !.metadata = NoMetadata, !.payload = <<>>]

(***************************************************************************)
(* Encode.  The metadata are written in the order in which the map yields  *)
(* its keys.                                                               *)
(***************************************************************************)
Power[k \in Nat] == IF k = 0 THEN 1 ELSE Base * Power[k - 1]

Max32 == Power[Width]

PutUint(n) ==
  LET shifted[k \in Nat] == IF k = 0 THEN n ELSE shifted[k - 1] \div Base
  IN [i \in 1 .. Width |-> shifted[Width - i] % Base]

Lengthy(s) == PutUint(Len(s)) \o s

Pair(k, v) == Lengthy(k) \o Lengthy(v)

EncodeMetadata(md, keys) ==
  FlattenSeq([i \in DOMAIN keys |-> Pair(keys[i], md[keys[i]])])

Body(m, meta) ==
  Lengthy(m.path) \o Lengthy(m.method) \o Lengthy(meta) \o Lengthy(m.payload)

(* Faulty, not part of Spec: the length of the payload is not counted.     *)
FrameShort(m, meta) ==
  <<m.header>> \o PutUint(Len(Body(m, meta)) - Width) \o Body(m, meta)

Frame(m, meta) == <<m.header>> \o Lengthy(Body(m, meta))

Encode(m, keys) == Frame(m, EncodeMetadata(m.metadata, keys))

(***************************************************************************)
(* Decode.  A slice that reaches beyond the frame panics, Decode recovers, *)
(* keeps what it has and returns nil.                                      *)
(***************************************************************************)
GetUint(s) ==
  LET value[i \in 0 .. Len(s)] ==
        IF i = 0 THEN 0 ELSE value[i - 1] * Base + s[i]
  IN value[Len(s)]

Panic == [how |-> "panic"]

(* The length at offset n of d and the cells it counts, by the arithmetic  *)
(* of ints.                                                                *)
Field(d, n) ==
  IF n + Width > Len(d) THEN Panic ELSE
  LET end == n + Width + GetUint(SubSeq(d, n + 1, n + Width)) IN
  IF end > Len(d) THEN Panic
  ELSE [how |-> "ok", cells |-> SubSeq(d, n + Width + 1, end), next |-> end]

(* The same in decodeMetadata, by that of uint32, where the field must end *)
(* at limit or before.                                                     *)
KeyOrValue(d, n, limit) ==
  IF n + Width > Len(d) THEN Panic ELSE
  LET start == n + Width
      end == (start + GetUint(SubSeq(d, n + 1, start))) % Max32 IN
  IF end > limit THEN [how |-> "missing"]
  ELSE IF end < start \/ end > Len(d) THEN Panic
  ELSE [how |-> "ok", cells |-> SubSeq(d, start + 1, end), next |-> end]

(* The pairs in the first l cells of d; d goes on to the end of the frame. *)
(* An iteration of the loop takes the next pair.  There are at most l.     *)
NextPair(loop, l, d) ==
  LET k == KeyOrValue(d, loop.next, (l + Max32 - Width) % Max32) IN
  IF k.how # "ok" THEN k ELSE
  LET v == KeyOrValue(d, k.next, l) IN
  IF v.how # "ok" THEN v
  ELSE [how |-> "ok", next |-> v.next,
        pairs |-> Append(loop.pairs, <<k.cells, v.cells>>)]

Iterate(loop, l, d) ==
  IF loop.how = "ok" /\ loop.next < l THEN NextPair(loop, l, d) ELSE loop

DecodeMetadata(l, d) ==
  LET after[i \in 0 .. l] ==
        IF i = 0 THEN [how |-> "ok", next |-> 0, pairs |-> <<>>]
        ELSE Iterate(after[i - 1], l, d)
  IN after[l]

(* The map they make: the last value of a key stays.                       *)
MapOf(pairs) ==
  [k \in {p[1] : p \in ToSet(pairs)} |->
     pairs[CHOOSE i \in DOMAIN pairs :
             /\ pairs[i][1] = k
             /\ \A j \in DOMAIN pairs : pairs[j][1] = k => j <= i][2]]

Result(err, m) == [err |-> err, message |-> m]

(* The body d of a frame is decoded into m, field by field.                *)
DecodeBody(m, d) ==
  LET path == Field(d, 0) IN
  IF path.how # "ok" THEN Result("nil", m) ELSE
  LET m1 == [m EXCEPT !.path = path.cells]
      method == Field(d, path.next) IN
  IF method.how # "ok" THEN Result("nil", m1) ELSE
  LET m2 == [m1 EXCEPT !.method = method.cells]
      meta == Field(d, method.next) IN
  IF meta.how # "ok" THEN Result("nil", m2) ELSE
  LET md == DecodeMetadata(Len(meta.cells),
                           SubSeq(d, method.next + Width + 1, Len(d))) IN
  IF md.how = "missing" THEN Result("ErrMetaKVMissing", m2) ELSE
  IF md.how = "panic" THEN Result("nil", m2) ELSE
  LET m3 == [m2 EXCEPT !.metadata = MapOf(md.pairs)]
      payload == Field(d, meta.next) IN
  IF payload.how # "ok" THEN Result("nil", m3)
  ELSE Result("nil", [m3 EXCEPT !.payload = payload.cells])

(* Decode of the first frame of s, of which the rest is left; nothing sets *)
(* a MaxMessageLength.                                                     *)
BodyEnd(s) == 1 + Width + GetUint(SubSeq(s, 2, 1 + Width))

Rest(s) == SubSeq(s, BodyEnd(s) + 1, Len(s))

Decode(s) ==
  IF Head(s).magic # MagicNumber THEN Result("magic", NewMessage)
  ELSE DecodeBody([NewMessage EXCEPT !.header = Head(s)],
                  SubSeq(s, 2 + Width, BodyEnd(s)))

-----------------------------------------------------------------------------
Nothing == [type |-> 0, heartbeat |-> FALSE, oneway |-> FALSE, status |-> 0,
            serialize |-> 0, seq |-> 0]

Fresh == [NewMessage EXCEPT !.path = Path, !.method = Method]

Init ==
  /\ message = Fresh
  /\ asked = Nothing
  /\ stream = <<>>
  /\ written = <<>>
  /\ frames = 0
  /\ read = [err |-> "nil"]

Set(header, wish) ==
  /\ frames < MaxFrames
  /\ message' = [message EXCEPT !.header = header]
  /\ asked' = wish
  /\ UNCHANGED <<stream, written, frames, read>>

SetFlags ==
  \E b \in BOOLEAN :
    \/ Set(SetHeartbeat(message.header, b), [asked EXCEPT !.heartbeat = b])
    \/ Set(SetOneway(message.header, b), [asked EXCEPT !.oneway = b])

(* Asking a response to be a request has no effect: SetMessageType sets    *)
(* the bit and never clears it, unlike the other setters.                  *)
WithType(wish, mt) == [wish EXCEPT !.type = IF @ = 1 THEN 1 ELSE mt]

SetTypes ==
  \/ \E mt \in {0, 1} :
       Set(SetMessageType(message.header, mt), WithType(asked, mt))
  \/ \E s \in {0, 1} : Set(SetMessageStatusType(message.header, s),
                            [asked EXCEPT !.status = s])

SetOthers ==
  \/ \E st \in SerializeTypes : Set(SetSerializeType(message.header, st),
                                     [asked EXCEPT !.serialize = st])
  \/ \E n \in Seqs : Set(SetSeq(message.header, n), [asked EXCEPT !.seq = n])

(* The message gets its contents and is written, and the next one begun;   *)
(* or, by another implementation, with the end of its metadata missing,    *)
(* whose header does not matter.                                           *)
Write(m, whole, frame) ==
  /\ frames < MaxFrames
  /\ stream' = stream \o frame
  /\ written' = Append(written, [message |-> m, asked |-> asked,
                                 whole |-> whole])
  /\ frames' = frames + 1
  /\ message' = Fresh
  /\ asked' = Nothing
  /\ UNCHANGED read

Filled(m, md, pl) == [m EXCEPT !.metadata = md, !.payload = pl]

(* Every length fits in its cells: frames are shorter than 4 GiB, which    *)
(* Encode does not check (message.go:209).                                 *)
FramesFit ==
  \A md \in Metadatas, pl \in Payloads : \A keys \in SetToSeqs(DOMAIN md) :
    Len(Body(Filled(Fresh, md, pl), EncodeMetadata(md, keys))) < Max32

Contents ==
  {Filled(message, md, pl) : md \in Metadatas, pl \in Payloads}

WriteMessage ==
  \E m \in Contents : \E keys \in SetToSeqs(DOMAIN m.metadata) :
    Write(m, TRUE, Encode(m, keys))

WriteIncomplete ==
  /\ asked = Nothing
  /\ \E m \in Contents : \E keys \in SetToSeqs(DOMAIN m.metadata) :
    LET meta == EncodeMetadata(m.metadata, keys) IN
    \E n \in 1 .. Len(meta) - 1 :
      Write(m, FALSE, Frame(m, SubSeq(meta, 1, n)))

Read ==
  /\ stream # <<>>
  /\ read.err = "nil"
  /\ read' = [err |-> Decode(stream).err, message |-> Decode(stream).message,
              of |-> Head(written)]
  /\ stream' = Rest(stream)
  /\ written' = Tail(written)
  /\ UNCHANGED <<message, asked, frames>>

(* The server's answer begins as a clone of the request.                   *)
Reply ==
  /\ frames < MaxFrames
  /\ "of" \in DOMAIN read /\ read.of.whole
  /\ message' = Clone(read.message)
  /\ asked' = read.of.asked
  /\ UNCHANGED <<stream, written, frames, read>>

Next ==
  \/ SetFlags \/ SetTypes \/ SetOthers
  \/ WriteMessage \/ WriteIncomplete \/ Read \/ Reply

Spec == Init /\ [][Next]_vars

-----------------------------------------------------------------------------
(***************************************************************************)
(* Properties.                                                             *)
(***************************************************************************)
(* The header holds the fields that were asked for last, whatever else was *)
(* set before or after, and it is a response's once that was ever asked    *)
(* for: also if a request is asked for later, which message.go:107 ignores *)
(* though its comment says it sets the type.  An answer has the fields of  *)
(* its request, but for what has been set since (message.go:106, 170;      *)
(* server.go:412).                                                         *)
Fields(h) ==
  [type |-> MessageType(h), heartbeat |-> IsHeartbeat(h),
   oneway |-> IsOneway(h), status |-> MessageStatusType(h),
   serialize |-> SerializeType(h), seq |-> h.seq]

HeaderAsAsked == Fields(message.header) = asked

(* A message that is written whole is read as it was, whichever order its  *)
(* metadata were written in and whatever its bytes are, also after a frame *)
(* with incomplete metadata that Decode has returned nil for; and when all *)
(* messages are read no cell is left over (message.go:180, 250, 314).      *)
ReadAsWritten ==
  /\ "of" \in DOMAIN read /\ read.of.whole =>
       read.err = "nil" /\ read.message = read.of.message
  /\ written = <<>> => stream = <<>>
=============================================================================
