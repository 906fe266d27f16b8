-------------------------------- MODULE Wire --------------------------------
(***************************************************************************)
(* A connection from its first byte to the play state: protocol/conn.go    *)
(* and protocol/varint.go under the conversation of understudy/login.go.   *)
(*                                                                         *)
(* LOGIN is the goroutine of Connect, WORKER the goroutine that downloads  *)
(* a resource pack and reports on it while the conversation goes on.  Both *)
(* write through Conn.WritePacket, which encodes under whatever threshold  *)
(* it reads first and then takes writeMu to put the bytes on the socket.   *)
(*                                                                         *)
(* The server is not part of the repository.  It may turn compression on   *)
(* before it accepts the login and expects it of everything it reads from  *)
(* then on, asks in any order what it has to ask in configuration, does    *)
(* not finish before it has its answers, and may refuse the login, fall    *)
(* silent, close the connection or send bytes that are no frame.           *)
(*                                                                         *)
(* Data.  A VarInt byte has Base values and a flag; payloads are one or    *)
(* two bytes of their packet; a zlib stream is one byte that knows what it *)
(* holds.  Each byte carries, for the properties alone, whose it is.       *)
(***************************************************************************)
EXTENDS Integers, Sequences, FiniteSets, Functions

CONSTANTS Base,            \* 128: the values of the 7 payload bits of a VarInt byte
          MaxVarIntBytes,  \* maxVarIntBytes
          SignBit,         \* 2^31: a VarInt is read into a uint32 and taken for an int32
          MaxPacketSize,
          Thresholds,      \* the compression thresholds a server may announce
          Requests,        \* what the server asks in configuration: names in Answer
          Faults           \* what may go wrong: see WireAssumption

ASSUME WireAssumption ==
  /\ Base \in Nat \ {0, 1} /\ MaxVarIntBytes \in Nat \ {0}
  /\ MaxPacketSize \in Nat /\ MaxPacketSize >= MaxVarIntBytes + 2
  /\ SignBit \in Nat /\ MaxPacketSize + 1 < SignBit
  /\ Thresholds \subseteq Nat
  /\ Requests \subseteq {"ping", "keepalive", "known", "conduct", "pack"}
  /\ Faults \subseteq {"refuse", "stop", "close", "garble", "cancel"}

CompressionDisabled == -1

VARIABLES
  open,       \* the socket
  threshold,  \* Conn.threshold
  writeMu,    \* who holds Conn.writeMu, or "free"
  packsMu,    \* who holds packs.mu, or "free"
  state,      \* c.state
  cancelled,  \* the context given to Connect
  at,         \* the control point of each writer
  job,        \* the packet each writer has to write
  rest,       \* the bytes of it still to be written
  up, down,   \* the bytes on their way to the server and to the client
  said, got,  \* ghosts: the packets the client has put on the wire, and read
  server,     \* server: "serving", or how it has failed
  limit,      \* server: the threshold it will announce, or CompressionDisabled
  serverThreshold,
  asked, heard \* server: the packets it has sent, and read

conn == <<open, threshold, writeMu, packsMu>>
writers == <<at, job, rest>>
ghosts == <<said, got>>
theirs == <<server, limit, serverThreshold, asked, heard>>
vars == <<conn, state, cancelled, writers, up, down, ghosts, theirs>>

Writers == {"login", "worker"}

Answer == [ping |-> "pong", keepalive |-> "alive", known |-> "packs", conduct |-> "accept",
           pack |-> "accepted"]

ToServer == {"handshake", "start", "acknowledged", "settings", "pong", "alive", "packs",
             "accept", "accepted", "downloaded", "loaded", "finished"}
ToClient == {"compress", "success", "encryption", "disconnect", "registry", "finish"}
              \cup DOMAIN Answer

\* Payload lengths on both sides of a threshold of 2.
Size(p) == IF p \in {"start", "settings", "success", "known", "loaded"} THEN 2 ELSE 1

-----------------------------------------------------------------------------
(* protocol/varint.go and the framing of protocol/conn.go.                 *)

Number(b) == [kind |-> "number", value |-> b, packet |-> "none"]
Payload(p) == [i \in 1..Size(p) |-> [kind |-> "payload", value |-> i, packet |-> p]]
Zlib(p) == <<[kind |-> "zlib", value |-> Size(p), packet |-> p]>>

\* v >> 7 * i, and what a digit is shifted by: 1 << 7 * i.
Shifted(v) == LET u[i \in Nat] == IF i = 0 THEN v ELSE u[i - 1] \div Base IN u
Weight[i \in Nat] == IF i = 0 THEN 1 ELSE Base * Weight[i - 1]

\* The bytes of a VarInt hold more bits than the word it is read into.
Word == 2 * SignBit
ASSUME WidthAssumption == Word + 1 < Weight[MaxVarIntBytes]

\* int32(value): the bits past the word are lost, and the last of it is a sign.
Signed(u) == LET w == u % Word IN IF w < SignBit THEN w ELSE w - Word

\* A byte, and one more for each shift that leaves something of v = uint32(v).
VarIntLen(v) == Cardinality({n \in 0..(MaxVarIntBytes - 1) : n = 0 \/ Shifted(v)[n] # 0})

\* Every byte but the last has the continuation bit.
AppendVarInt(v) ==
  [i \in 1..VarIntLen(v) |->
     Number((Shifted(v)[i - 1] % Base) + (IF i < VarIntLen(v) THEN Base ELSE 0))]

\* The first k bytes are a VarInt, and the value of it.
IsVarInt(bytes, k) ==
  /\ k <= Len(bytes) /\ k <= MaxVarIntBytes
  /\ \A i \in 1..k : bytes[i].kind = "number" /\ (bytes[i].value >= Base <=> i < k)

NumberOf(digits) ==
  LET value[i \in 0..Len(digits)] ==
        IF i = 0 THEN 0 ELSE value[i - 1] + digits[i] * Weight[i - 1]
  IN value[Len(digits)]

ReadVarInt(bytes, k) == Signed(NumberOf([i \in 1..k |-> bytes[i].value % Base]))

\* Mutant of EncodeFrame: a payload under the threshold goes without its marker.
EncodeFrameBare(p, t) ==
  IF t < 0 \/ Size(p) < t THEN Payload(p) ELSE AppendVarInt(Size(p)) \o Zlib(p)

EncodeFrame(p, t) ==
  IF t < 0 THEN Payload(p)
  ELSE IF Size(p) < t THEN AppendVarInt(0) \o Payload(p)
  ELSE AppendVarInt(Size(p)) \o Zlib(p)

Framed(frame) == AppendVarInt(Len(frame)) \o frame

\* The first n bytes are a length that is in range and as many bytes more.
IsFrame(bytes, n) ==
  \E k \in 1..MaxVarIntBytes :
    /\ IsVarInt(bytes, k)
    /\ LET length == ReadVarInt(bytes, k) IN length = n - k /\ length \in 0..MaxPacketSize

\* No bytes that may still follow make a frame of it.
IsBroken(bytes) ==
  \/ /\ Len(bytes) >= MaxVarIntBytes
     /\ \A k \in 1..MaxVarIntBytes : ~IsVarInt(bytes, k)
  \/ \E k \in 1..MaxVarIntBytes : IsVarInt(bytes, k) /\ ReadVarInt(bytes, k) \notin 0..MaxPacketSize

\* The bytes after a VarInt.
After(bytes) ==
  LET k == CHOOSE k \in 1..Len(bytes) : IsVarInt(bytes, k) IN SubSeq(bytes, k + 1, Len(bytes))

\* Mutants of DecompressFrame: the 0 marker is taken for the length of a zlib
\* stream; the body is probed instead of its marker.
DecompressZlib(frame) ==
  LET body == After(frame)
  IN IF body # <<>> /\ body[1].kind = "zlib" THEN Payload(body[1].packet) ELSE <<>>

DecompressProbed(frame) ==
  LET body == After(frame)
  IN IF body # <<>> /\ body[1].kind = "zlib" THEN Payload(body[1].packet) ELSE frame

\* The payload under the compressed framing, or <<>> for an error.
DecompressFrame(frame) ==
  IF \A k \in 1..Len(frame) : ~IsVarInt(frame, k) THEN <<>>
  ELSE LET k == CHOOSE k \in 1..Len(frame) : IsVarInt(frame, k)
           dataLength == ReadVarInt(frame, k)
           body == After(frame)
       IN IF dataLength = 0 THEN body
          ELSE IF /\ dataLength \in 1..MaxPacketSize
                  /\ body # <<>> /\ body[1].kind = "zlib" /\ body[1].value >= dataLength
          THEN SubSeq(Payload(body[1].packet), 1, dataLength) ELSE <<>>

\* The packet of a frame: an error when there is nothing to read an ID from,
\* garbage when the payload is not one of a packet.
PacketOf(frame, t) ==
  LET payload == IF t >= 0 THEN DecompressFrame(After(frame)) ELSE After(frame)
      p == payload[1].packet
  IN IF payload = <<>> THEN "error"
     ELSE IF /\ payload[1].kind = "payload" /\ Len(payload) = Size(p)
             /\ \A i \in 1..Size(p) : payload[i].packet = p /\ payload[i].value = i
     THEN p ELSE "garbage"

-----------------------------------------------------------------------------
Init ==
  /\ open = TRUE /\ threshold = CompressionDisabled
  /\ writeMu = "free" /\ packsMu = "free"
  /\ state = "handshaking" /\ cancelled = FALSE
  /\ at = [login |-> "encode", worker |-> "none"]
  /\ job = [login |-> "handshake", worker |-> "downloaded"]
  /\ rest = [w \in Writers |-> <<>>]
  /\ up = <<>> /\ down = <<>> /\ said = <<>> /\ got = <<>>
  /\ server = "serving" /\ limit \in Thresholds \cup {CompressionDisabled}
  /\ serverThreshold = CompressionDisabled /\ asked = <<>> /\ heard = <<>>

Go(w, point) == at' = [at EXCEPT ![w] = point]

(* WritePacket.                                                            *)

Labelled(w, frame) ==
  [i \in 1..Len(frame) |->
     [kind |-> frame[i].kind, value |-> frame[i].value, packet |-> frame[i].packet,
      by |-> w, index |-> i, of |-> Len(frame)]]

\* Mutant of Encode: the lock is not taken.
EncodeOnly(w) ==
  /\ at[w] = "encode"
  /\ \E frame \in {Framed(EncodeFrame(job[w], threshold))} :
       rest' = [rest EXCEPT ![w] = Labelled(w, frame)]
  /\ Go(w, "write")
  /\ UNCHANGED <<conn, state, cancelled, job, up, down, ghosts, theirs>>

Encode(w) ==
  /\ at[w] = "encode"
  /\ \E frame \in {Framed(EncodeFrame(job[w], threshold))} :
       rest' = [rest EXCEPT ![w] = Labelled(w, frame)]
  /\ Go(w, "lock")
  /\ UNCHANGED <<conn, state, cancelled, job, up, down, ghosts, theirs>>

Lock(w) ==
  /\ at[w] = "lock" /\ writeMu = "free"
  /\ writeMu' = w
  /\ Go(w, "write")
  /\ UNCHANGED <<open, threshold, packsMu, state, cancelled, job, rest, up, down, ghosts, theirs>>

WriteByte(w) ==
  /\ at[w] = "write" /\ rest[w] # <<>>
  /\ open /\ server # "closed"
  /\ up' = Append(up, Head(rest[w]))
  /\ rest' = [rest EXCEPT ![w] = Tail(rest[w])]
  /\ said' = IF Len(rest[w]) = 1 THEN Append(said, job[w]) ELSE said
  /\ UNCHANGED <<conn, state, cancelled, at, job, down, got, theirs>>

\* What the handler that wrote a packet writes right after it.
Then == [handshake |-> "start", acknowledged |-> "settings", downloaded |-> "loaded"]

StateAfter(p) ==
  CASE p = "handshake" -> "login" [] p = "acknowledged" -> "configuration"
    [] p = "finished" -> "play" [] OTHER -> state

Wrote(w) ==
  /\ at[w] = "write" /\ rest[w] = <<>>
  /\ writeMu' = "free"
  /\ state' = StateAfter(job[w])
  /\ UNCHANGED <<open, threshold, cancelled, rest, up, down, ghosts, theirs>>

WritesOn(w) ==
  /\ Wrote(w)
  /\ job[w] \in DOMAIN Then
  /\ job' = [job EXCEPT ![w] = Then[job[w]]]
  /\ Go(w, "encode")
  /\ UNCHANGED packsMu

\* readPacket looks at the context before it waits.
NextRead == IF cancelled THEN "failed" ELSE "read"

\* Ready, with packs.mu released where the handler took it.
Unlocked(w) == IF packsMu = w THEN "free" ELSE packsMu

HandlerReturns ==
  /\ Wrote("login")
  /\ job["login"] \notin DOMAIN Then
  /\ at' = CASE job["login"] = "finished" -> [at EXCEPT !["login"] = "joined"]
             [] job["login"] = "accepted" -> [login |-> NextRead, worker |-> "packs"]
             [] OTHER -> [at EXCEPT !["login"] = NextRead]
  /\ packsMu' = Unlocked("login")
  /\ UNCHANGED job

WorkerReturns ==
  /\ Wrote("worker")
  /\ job["worker"] \notin DOMAIN Then
  /\ Go("worker", "none")
  /\ packsMu' = Unlocked("worker")
  /\ UNCHANGED job

\* The handler fails, and Connect with it; the worker closes the connection.
WriteFails(w) ==
  /\ at[w] = "write" /\ (~open \/ server = "closed")
  /\ writeMu' = "free" /\ packsMu' = Unlocked(w)
  /\ rest' = [rest EXCEPT ![w] = <<>>]
  /\ Go(w, IF w = "login" THEN "failed" ELSE "none")
  /\ open' = (open /\ w = "login")
  /\ UNCHANGED <<threshold, state, cancelled, job, up, down, ghosts, theirs>>

(* ReadPacket, and the handlers of login and configure.                    *)

Replies(reply, point) ==
  /\ job' = [job EXCEPT !["login"] = reply]
  /\ Go("login", point)
  /\ UNCHANGED threshold

TakeCompress(p) ==
  /\ state = "login" /\ p = "compress"
  /\ threshold' = limit
  /\ Go("login", NextRead)
  /\ UNCHANGED job

LoginSuccess(p) == state = "login" /\ p = "success" /\ Replies("acknowledged", "encode")

AnswersRequest(p) ==
  /\ state = "configuration" /\ p \in DOMAIN Answer \ {"pack"}
  /\ Replies(Answer[p], "encode")

\* handleResourcePack and the end of configuration hold packs.mu.
TakePackOffer(p) == state = "configuration" /\ p = "pack" /\ Replies(Answer[p], "packs")
TakeFinish(p) == state = "configuration" /\ p = "finish" /\ Replies("finished", "packs")

TakeRefusal(p) ==
  /\ \/ state \in {"login", "configuration"} /\ p = "disconnect"
     \/ state = "login" /\ p = "encryption"
  /\ Go("login", "failed")
  /\ UNCHANGED <<threshold, job>>

\* No case of the handler's switch.
SkipsPacket(p) ==
  /\ p # "disconnect"
  /\ state = "login" => p \notin {"compress", "success", "encryption"}
  /\ state = "configuration" => p \notin {"finish"} \cup DOMAIN Answer
  /\ Go("login", NextRead)
  /\ UNCHANGED <<threshold, job>>

Handle(p) ==
  \/ TakeCompress(p) \/ LoginSuccess(p) \/ AnswersRequest(p) \/ TakePackOffer(p)
  \/ TakeFinish(p) \/ TakeRefusal(p) \/ SkipsPacket(p)

ReadPacket ==
  /\ at["login"] = "read" /\ open
  /\ \E n \in 1..Len(down) :
       /\ IsFrame(down, n)
       /\ down' = SubSeq(down, n + 1, Len(down))
       /\ \E p \in {PacketOf(SubSeq(down, 1, n), threshold)} :
            p # "error" /\ got' = Append(got, p) /\ Handle(p)
  /\ UNCHANGED <<open, writeMu, packsMu, state, cancelled, rest, up, said, theirs>>

\* The socket is closed, the bytes make no frame or no packet, or the read
\* deadline passes: on a server that sends no more, or after the context ended.
CannotRead ==
  \/ ~open \/ IsBroken(down)
  \/ \E n \in 1..Len(down) :
       IsFrame(down, n) /\ PacketOf(SubSeq(down, 1, n), threshold) = "error"
  \/ /\ server # "serving" \/ cancelled
     /\ \A n \in 1..Len(down) : ~IsFrame(down, n)

ReadFails ==
  /\ at["login"] = "read" /\ CannotRead
  /\ Go("login", "failed")
  /\ UNCHANGED <<conn, state, cancelled, job, rest, up, down, ghosts, theirs>>

TakePacksMu(w) ==
  /\ at[w] = "packs" /\ packsMu = "free"
  /\ w = "worker" => ~cancelled /\ at["login"] # "wait"
  /\ packsMu' = w
  /\ Go(w, "encode")
  /\ UNCHANGED <<open, threshold, writeMu, state, cancelled, job, rest, up, down, ghosts, theirs>>

\* The download is over, and the session closed or the context ended.
WorkerGivesUp ==
  /\ at["worker"] = "packs" /\ packsMu = "free"
  /\ cancelled \/ at["login"] = "wait"
  /\ Go("worker", "none")
  /\ UNCHANGED <<conn, state, cancelled, job, rest, up, down, ghosts, theirs>>

(* The end of Connect that fails: close, stopResourcePacks, wait.          *)

CloseSocket ==
  /\ at["login"] = "failed"
  /\ open' = FALSE
  /\ Go("login", "stop")
  /\ UNCHANGED <<threshold, writeMu, packsMu, state, cancelled, job, rest, up, down, ghosts, theirs>>

StopResourcePacks ==
  /\ at["login"] = "stop" /\ packsMu = "free"
  /\ Go("login", "wait")
  /\ UNCHANGED <<conn, state, cancelled, job, rest, up, down, ghosts, theirs>>

PacksStopped ==
  /\ at["login"] = "wait" /\ at["worker"] = "none"
  /\ Go("login", "ended")
  /\ UNCHANGED <<conn, state, cancelled, job, rest, up, down, ghosts, theirs>>

-----------------------------------------------------------------------------
(* The server.                                                             *)

Ours == <<conn, state, cancelled, writers, ghosts>>

Heard(p) == p \in Range(heard)
Asked(p) == p \in Range(asked)

Answered(r) == Heard(Answer[r]) /\ (r = "pack" => Heard("loaded"))

MayAsk(p) ==
  /\ server = "serving" /\ ~Asked(p)
  /\ \/ p = "compress" /\ Heard("start") /\ limit >= 0
     \/ p = "success" /\ Heard("start") /\ (limit >= 0 => Asked("compress"))
     \/ p = "registry" /\ Heard("acknowledged")
     \/ p \in Requests /\ Heard("settings") /\ Asked("registry")
     \/ p = "finish" /\ Asked("registry") /\ \A r \in Requests : Asked(r) /\ Answered(r)

Sends(p) ==
  /\ asked' = Append(asked, p)
  /\ down' = down \o Framed(EncodeFrame(p, serverThreshold))
  /\ serverThreshold' = IF p = "compress" THEN limit ELSE serverThreshold
  /\ UNCHANGED <<Ours, up, limit, heard>>

ServerAsks == \E p \in ToClient : MayAsk(p) /\ Sends(p) /\ UNCHANGED server

ServerReads ==
  /\ server = "serving"
  /\ \E n \in 1..Len(up) :
       /\ IsFrame(up, n)
       /\ \E p \in {PacketOf(SubSeq(up, 1, n), serverThreshold)} : heard' = Append(heard, p)
       /\ up' = SubSeq(up, n + 1, Len(up))
  /\ UNCHANGED <<Ours, down, server, limit, serverThreshold, asked>>

\* Every refusal is a packet; the login may be refused for its lack of encryption.
ServerRefuses ==
  /\ "refuse" \in Faults /\ server = "serving" /\ Heard("start")
  /\ \/ Sends("disconnect")
     \/ Sends("encryption") /\ ~Asked("success")
  /\ server' = "refused"

\* Lengths no frame has: too large, negative, without an end, and one that is read
\* as 1, since its last bit is lost, and has no body.
Garbage == {AppendVarInt(u) : u \in {MaxPacketSize + 1, Word - 1, Word + 1}}
             \cup {[i \in 1..MaxVarIntBytes |-> Number(Base)]}

ServerFails ==
  /\ server = "serving"
  /\ \/ "stop" \in Faults /\ server' = "stopped" /\ UNCHANGED down
     \/ "close" \in Faults /\ server' = "closed" /\ UNCHANGED down
     \/ "garble" \in Faults /\ server' = "garbled" /\ \E g \in Garbage : down' = down \o g
  /\ UNCHANGED <<Ours, up, limit, serverThreshold, asked, heard>>

ContextEnds ==
  /\ "cancel" \in Faults /\ ~cancelled
  /\ at["login"] \notin {"joined", "ended"}
  /\ cancelled' = TRUE
  /\ UNCHANGED <<conn, state, writers, up, down, ghosts, theirs>>

-----------------------------------------------------------------------------
WritePacket(w) == Encode(w) \/ Lock(w) \/ WriteByte(w) \/ WritesOn(w) \/ WriteFails(w)

Login ==
  \/ WritePacket("login") \/ HandlerReturns \/ TakePacksMu("login")
  \/ ReadPacket \/ ReadFails
  \/ CloseSocket \/ StopResourcePacks \/ PacksStopped

Worker == WritePacket("worker") \/ WorkerReturns \/ TakePacksMu("worker") \/ WorkerGivesUp

Progress == Login \/ Worker \/ ServerAsks \/ ServerReads

Next == Progress \/ ServerRefuses \/ ServerFails \/ ContextEnds

Spec == Init /\ [][Next]_vars

\* The client's goroutines run, the read deadline passes (ReadFails), a download
\* ends, and the server does its part while it serves.  No step of a conversation
\* can be undone, so that fairness of the whole is fairness of each.
FairSpec == Spec /\ WF_vars(Progress)

-----------------------------------------------------------------------------
(* The socket write is serialised (conn.go:180): on the wire every byte is  *)
(* followed by the next of its own frame, or by the first of another.       *)
NoSplice ==
  \A i \in 1..(Len(up) - 1) :
    IF up[i].index = up[i].of THEN up[i + 1].index = 1
    ELSE /\ up[i + 1].by = up[i].by /\ up[i + 1].of = up[i].of
         /\ up[i + 1].index = up[i].index + 1

(* The framing of one direction implements PacketChannel, whatever the      *)
(* other goroutine writes in between and whenever compression is turned on: *)
(* the server reads the packets written, whole and in the order in which    *)
(* they took the wire.                                                      *)
Up == INSTANCE PacketChannel WITH Packets <- ToServer, sent <- said, received <- heard
UpIsChannel == Up!Spec

(* And ReadPacket returns the packets the server sent: the threshold read   *)
(* for each frame is the one it was encoded under, though the server        *)
(* switches in the middle of its stream, and a length that is out of range  *)
(* as an int32, or has no body, is never taken for a packet (conn.go:114,   *)
(* varint.go:32).                                                           *)
Down == INSTANCE PacketChannel WITH Packets <- ToClient, sent <- asked, received <- got
DownIsChannel == Down!Spec

(* Answering is what gets a bot into the world (login.go:123).  Connect     *)
(* (client.go:289) returns: with the bot in play, whatever the server asks  *)
(* and in whatever order, or, if the server fails in any way or the context *)
(* ends, with the socket closed and its worker gone.                        *)
ConnectEnds ==
  <>( \/ at["login"] = "joined"
      \/ /\ at["login"] = "ended" /\ ~open /\ at["worker"] = "none"
         /\ server # "serving" \/ cancelled )
=============================================================================
