---------------------------- MODULE WireSession ----------------------------
(***************************************************************************)
(* One session, once connected, of the Constellation wire                   *)
(* (crates/constellation/src/net: mod.rs, wire.rs, noise.rs): a             *)
(* NetworkTransport on one side, serve_stream on the other, and a stream of *)
(* sealed segments each way.                                                *)
(*                                                                         *)
(* A frame is its length and its bytes, cut into segments; the reader puts  *)
(* segments together until it has the length the first one declares.  The   *)
(* stream keeps their order and loses none until it is cut, and then what   *)
(* is lost is some end of it.  A frame is the number of the call it belongs *)
(* to and what it says; the bytes are counted.                              *)
(***************************************************************************)
EXTENDS Integers, Sequences

CONSTANTS
    Request,     \* the requests a caller may make, Bye aside
    Bytes,       \* the length of each request and reply once encoded
    Header,      \* bytes of a frame's length
    MaxSegment,  \* MAX_SEGMENT
    MaxCalls     \* bound on the calls of a session

Reply == {"stored", "failed", "bye"}
Message == Request \cup {"bye"} \cup Reply

ASSUME WireAssumption ==
    /\ Bytes \in [Message -> Nat]
    /\ Header \in Nat \ {0} /\ MaxSegment \in Nat /\ MaxSegment >= Header
    /\ MaxCalls \in Nat
    /\ "bye" \notin Request

VARIABLES
    caller,  \* the dialing side: its stage, what it has still to write and has read
    server,  \* the serving side, likewise
    up,      \* segments on their way to the server
    down,    \* segments on their way to the caller
    linked,  \* whether the stream is whole
    effect,  \* history: what each call did at the store
    told     \* history: what its caller was told

wireVars == <<caller, server, up, down, linked, effect, told>>

Segment == [call : Nat, says : Message, bytes : Nat]
Side == [stage : {"closed", "hello", "idle", "write", "read"},
         out : Seq(Segment), plain : Nat]

WireTypeOK ==
    /\ caller \in Side /\ server \in Side
    /\ up \in Seq(Segment) /\ down \in Seq(Segment)
    /\ linked \in BOOLEAN
    /\ effect \in Seq({"none", "stored", "failed"})
    /\ told \in Seq({"waiting", "stored", "failed", "lost"})

Resume(stage) == [stage |-> stage, out |-> << >>, plain |-> 0]

\* NetworkTransport::connect and serve_conn, with a stream between them.
WireInit ==
    /\ caller = Resume("hello") /\ server = Resume("hello")
    /\ up = << >> /\ down = << >>
    /\ linked = TRUE
    /\ effect = << >> /\ told = << >>

-----------------------------------------------------------------------------
(* Frames.                                                                 *)

\* NoiseChannel::send: the length, the bytes, in pieces of MaxSegment.
Segments(call, says) ==
    LET size  == Header + Bytes[says]
        count == (size + MaxSegment - 1) \div MaxSegment
    IN  [i \in 1 .. count |->
            [call |-> call, says |-> says,
             bytes |-> IF i < count THEN MaxSegment
                                    ELSE size - (count - 1) * MaxSegment]]

Writing(stage, call, says) ==
    [stage |-> stage, out |-> Segments(call, says), plain |-> 0]

\* Wrong: the frame must be longer than what it declares.
WholeAfter(plain, seg) == plain > Header + Bytes[seg.says]

\* NoiseChannel::recv: what is in hand is the frame its first segment declares.
Whole(plain, seg) == plain >= Header + Bytes[seg.says]

-----------------------------------------------------------------------------
(* The caller.                                                             *)

\* NoiseChannel::initiator and responder: both sides hold the same master, or
\* the tag of message one does not verify and neither gets further.
Handshake ==
    /\ caller.stage = "hello" /\ linked
    /\ \/ caller' = Resume("idle") /\ server' = Resume("read") /\ UNCHANGED linked
       \/ caller' = Resume("closed") /\ server' = Resume("closed") /\ linked' = FALSE
    /\ UNCHANGED <<up, down, effect, told>>

\* NetworkTransport::call, with the session's lock held until it returns.
Call(req) ==
    /\ caller.stage = "idle" /\ Len(told) < MaxCalls
    /\ caller' = Writing("write", Len(told) + 1, req)
    /\ told' = Append(told, "waiting")
    /\ effect' = Append(effect, "none")
    /\ UNCHANGED <<server, up, down, linked>>

\* NetworkTransport::close says Bye and waits for the answer to it.
SayBye ==
    /\ caller.stage = "idle"
    /\ caller' = Writing("write", Len(told) + 1, "bye")
    /\ UNCHANGED <<server, up, down, linked, effect, told>>

CallerWrites ==
    /\ caller.stage = "write" /\ linked
    /\ up' = Append(up, Head(caller.out))
    /\ caller' = IF Len(caller.out) = 1 THEN Resume("read")
                                        ELSE [caller EXCEPT !.out = Tail(@)]
    /\ UNCHANGED <<server, down, linked, effect, told>>

\* The call returns what the reply says, or goes on reading.
CallerReads ==
    /\ caller.stage = "read" /\ down # << >>
    /\ LET seg   == Head(down)
           plain == caller.plain + seg.bytes
       IN  \/ /\ ~ Whole(plain, seg)
              /\ caller' = [caller EXCEPT !.plain = plain]
              /\ UNCHANGED <<linked, told>>
           \/ /\ Whole(plain, seg) /\ seg.says = "bye"
              /\ caller' = Resume("closed") /\ linked' = FALSE
              /\ UNCHANGED told
           \/ /\ Whole(plain, seg) /\ seg.says # "bye"
              /\ caller' = Resume("idle")
              /\ told' = [told EXCEPT ![Len(told)] = seg.says]
              /\ UNCHANGED linked
    /\ down' = Tail(down)
    /\ UNCHANGED <<server, up, effect>>

\* A write or read on the dead stream fails: the call returns the error, the
\* sync that made it ends, and the transport is dropped.
CallerFails ==
    /\ caller.stage # "closed" /\ ~ linked
    /\ caller.stage = "read" => down = << >>
    /\ caller' = Resume("closed")
    /\ told' = [n \in DOMAIN told |-> IF told[n] = "waiting" THEN "lost" ELSE told[n]]
    /\ UNCHANGED <<server, up, down, linked, effect>>

-----------------------------------------------------------------------------
(* The server: serve_stream.                                               *)

\* Wrong: the reply is sent and the request handled after it.
ServerAnswersFirst ==
    /\ server.stage = "read" /\ up # << >>
    /\ LET seg   == Head(up)
           plain == server.plain + seg.bytes
       IN  IF ~ Whole(plain, seg)
           THEN /\ server' = [server EXCEPT !.plain = plain]
                /\ UNCHANGED effect
           ELSE \E answer \in {"stored", "failed"} :
                /\ server' = Writing("write", seg.call, answer)
                /\ UNCHANGED effect
    /\ up' = Tail(up)
    /\ UNCHANGED <<caller, down, linked, told>>

\* A segment is read; a whole request is handled, once, and its reply is what
\* the store said.  An error of the store is a reply like any other.
ServerReads ==
    /\ server.stage = "read" /\ up # << >>
    /\ LET seg   == Head(up)
           plain == server.plain + seg.bytes
       IN  \/ /\ ~ Whole(plain, seg)
              /\ server' = [server EXCEPT !.plain = plain]
              /\ UNCHANGED effect
           \/ /\ Whole(plain, seg) /\ seg.says = "bye"
              /\ server' = Writing("write", seg.call, "bye")
              /\ UNCHANGED effect
           \/ /\ Whole(plain, seg) /\ seg.says # "bye"
              /\ \E answer \in {"stored", "failed"} :
                    /\ effect' = [effect EXCEPT ![seg.call] = answer]
                    /\ server' = Writing("write", seg.call, answer)
    /\ up' = Tail(up)
    /\ UNCHANGED <<caller, down, linked, told>>

\* After the reply to Bye the session is over.
ServerWrites ==
    /\ server.stage = "write" /\ linked
    /\ down' = Append(down, Head(server.out))
    /\ server' = IF Len(server.out) > 1 THEN [server EXCEPT !.out = Tail(@)]
                 ELSE IF Head(server.out).says = "bye" THEN Resume("closed") ELSE Resume("read")
    /\ UNCHANGED <<caller, up, linked, effect, told>>

\* Nothing more can be read or written: the session is over.
ServerFails ==
    /\ server.stage # "closed" /\ ~ linked
    /\ server.stage = "read" => up = << >>
    /\ server' = Resume("closed")
    /\ UNCHANGED <<caller, up, down, linked, effect, told>>

-----------------------------------------------------------------------------
(* The link.  A relay in between only copies segments on.                   *)

\* Some of what was on its way still arrives, the rest does not.
CutLink ==
    /\ linked
    /\ linked' = FALSE
    /\ \E i \in 0 .. Len(up) : up' = SubSeq(up, 1, i)
    /\ \E i \in 0 .. Len(down) : down' = SubSeq(down, 1, i)
    /\ UNCHANGED <<caller, server, effect, told>>

SideSteps ==
    \/ CallerWrites \/ CallerReads \/ CallerFails
    \/ ServerReads \/ ServerWrites \/ ServerFails

WireNext ==
    \/ Handshake \/ SayBye \/ CutLink \/ SideSteps
    \/ \E req \in Request : Call(req)

WireSpec == WireInit /\ [][WireNext]_wireVars

\* Each side runs; nothing makes a caller call, or the link fail.
WireFair == WF_wireVars(SideSteps)

-----------------------------------------------------------------------------

\* Whatever the lengths and wherever the link is cut, a call takes effect at
\* most once, and a caller told an answer is told that of his own call.
Remote == INSTANCE RemoteCall

CallsAreRemote == Remote!RemoteSpec

\* Every call returns: no length leaves a reader waiting for bytes that were
\* not sent while the other side waits for the reply.
CallReturns == caller.stage \in {"write", "read"} ~> caller.stage \in {"idle", "closed"}
=============================================================================
