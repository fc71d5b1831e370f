-------------------------------- MODULE Http --------------------------------
(***************************************************************************)
(* The HTTP side of src/nunspark/server.py: what the handlers of the two   *)
(* APIs write on the connection while a chat request of Server is answered *)
(* for them, from build_server to shutdown_server.                         *)
(*                                                                         *)
(* The server is single-threaded, so `wire`, the frames written for one    *)
(* request, is complete before the next one is read.  A write fails when   *)
(* the client is gone, and then nothing more is written.  Text is counted  *)
(* in tokens, as in Server; a frame is its kind, the tokens of text sent   *)
(* up to and with it, and a finish_reason.                                 *)
(***************************************************************************)
EXTENDS Server

VARIABLES
  server,    \* [up, reuse]: it serves, and use_prefix_cache
  request,   \* [api, streaming]
  wire,      \* frames written for the last request
  lost       \* a write of the last request has failed

hvars == <<svars, server, request, wire, lost>>

Idle == [api |-> "openai", streaming |-> FALSE]

\* build_server: the draft model, or none, and the prefix cache are for good.
HttpInit ==
  /\ SInit
  /\ \E reuse \in BOOLEAN : server = [up |-> TRUE, reuse |-> reuse]
  /\ request = Idle
  /\ wire = <<>> /\ lost = FALSE

------------------------------------------------------------------------------
(* Frames. *)

Frame(f, n, r) == [kind |-> f, text |-> n, reason |-> r]
Plain(f) == Frame(f, 0, "none")

OpenAIOpening    == <<Plain("headers")>>
AnthropicOpening ==
  <<Plain("headers"), Plain("message_start"), Plain("content_block_start")>>

OpenAIClosing(r)    == <<Frame("finish", 0, r), Plain("[DONE]")>>
AnthropicClosing(r) ==
  <<Plain("content_block_stop"), Frame("message_delta", 0, r),
    Plain("message_stop"), Plain("ping")>>

Opening(q) ==
  IF ~q.streaming THEN <<>>
  ELSE IF q.api = "openai" THEN OpenAIOpening ELSE AnthropicOpening

\* An answer that is not streamed: the segments joined, in one frame.
Response(r, n) == <<Frame("response", n, r)>>

\* What follows the text of an answer that ended for reason r.
Closing(q, r, n) ==
  IF ~q.streaming THEN Response(r, n)
  ELSE IF q.api = "openai" THEN OpenAIClosing(r) ELSE AnthropicClosing(r)

\* The frames fs are written after those of w, as long as the client is there.
Writes(w, fs) ==
  \E n \in 0 .. Len(fs) :
    /\ wire' = w \o SubSeq(fs, 1, n)
    /\ lost' = (n < Len(fs))

------------------------------------------------------------------------------
(* Requests. *)

\* A request that is not a chat, or is refused, is answered without the engine.
Answers(a, f) ==
  /\ server.up /\ at = "idle"
  /\ request' = [api |-> a, streaming |-> FALSE]
  /\ Writes(<<>>, <<Plain(f)>>)
  /\ at' = "over"
  /\ UNCHANGED <<call, rest, caches, out, pend, adapt, slot, chat, server>>

Get == Answers("openai", "models") \/ Answers("openai", "404")

\* The first frames of a streamed answer come before begin(); if they cannot be
\* written the slot is not touched.
Chat(a, s, p, n, S) ==
  LET q == [api |-> a, streaming |-> s] IN
  /\ server.up
  /\ request' = q
  /\ Writes(<<>>, Opening(q))
  /\ IF lost'
       THEN /\ at = "idle" /\ at' = "over"
            /\ UNCHANGED <<call, rest, caches, out, pend, adapt, slot, chat>>
       ELSE Begin(p, n, method, S)
  /\ UNCHANGED server

\* Bad JSON, no messages, a template that fails; only this API knows its model.
OpenAIChat ==
  \/ Answers("openai", "400") \/ Answers("openai", "404")
  \/ \E s \in BOOLEAN, p \in Prompts, n \in 1 .. MaxTokens, S \in StopLists :
       Chat("openai", s, p, n, S)

AnthropicMessage ==
  \/ Answers("anthropic", "400")
  \/ \E s \in BOOLEAN, p \in Prompts, n \in 1 .. MaxTokens, S \in StopLists :
       Chat("anthropic", s, p, n, S)

------------------------------------------------------------------------------
(* Answers. *)

MutantSegment ==
  IF request.streaming /\ shown' > shown /\ reason' = "none"
    THEN Writes(wire, <<Frame("text", shown', "none")>>)
    ELSE UNCHANGED <<wire, lost>>

\* New text is written at once in a streamed answer, and kept in the other.
Segment ==
  IF request.streaming /\ shown' > shown
    THEN Writes(wire, <<Frame("text", shown', "none")>>)
    ELSE UNCHANGED <<wire, lost>>

NextToken == ~lost /\ Deliver /\ Segment /\ UNCHANGED <<server, request>>

NoMoreTokens == ~lost /\ Exhausted /\ Segment /\ UNCHANGED <<server, request>>

Works == ~lost /\ Resume /\ UNCHANGED <<server, request, wire, lost>>

\* The handler is left by the exception of its write, which closes the generator.
HangUp == lost /\ Disconnect /\ UNCHANGED <<server, request, wire, lost>>

Raised(l) == ~lost /\ Fault(l) /\ UNCHANGED <<server, request, wire, lost>>

\* Without a prefix cache the store was the call's own.
Disposed ==
  /\ Ended
  /\ open' = FALSE /\ tokens' = <<>> /\ kv' = [l \in Layer |-> <<>>]
  /\ at' = "over"
  /\ UNCHANGED <<call, rest, draft, out, pend, adapt, chat>>

\* The generator's finally clause, and then the end of the answer, unless an
\* exception is on its way out of the handler.
Finish ==
  /\ IF server.reuse THEN Commit ELSE Disposed
  /\ IF ~lost /\ reason \in {"stop", "length"}
       THEN Writes(wire, Closing(request, reason, shown))
       ELSE UNCHANGED <<wire, lost>>
  /\ UNCHANGED <<server, request>>

\* The handler returns, and what it knew of the request is gone.
Over ==
  /\ at = "over" /\ at' = "idle"
  /\ prompt' = <<>> /\ limit' = 0
  /\ rest' = <<>> /\ draft' = <<>> /\ out' = <<>> /\ pend' = <<>>
  /\ k' = InitK /\ history' = <<>> /\ since' = 0
  /\ Answer(<<>>)
  /\ request' = Idle /\ wire' = <<>> /\ lost' = FALSE
  /\ UNCHANGED <<method, kv, slot, server>>

\* shutdown_server: serve_forever has returned, so no request is under way.
Shutdown ==
  /\ server.up /\ at = "idle"
  /\ server' = [server EXCEPT !.up = FALSE]
  /\ open' = FALSE /\ tokens' = <<>> /\ kv' = [l \in Layer |-> <<>>]
  /\ UNCHANGED <<call, rest, draft, out, pend, adapt, at, chat, request, wire, lost>>

Serving == Works \/ NextToken \/ NoMoreTokens \/ HangUp \/ Finish \/ Over

HttpNext ==
  \/ Get \/ OpenAIChat \/ AnthropicMessage
  \/ Serving
  \/ \E l \in FaultLayers : Raised(l)
  \/ Shutdown

\* A request under way goes on; nobody is obliged to send one.
HttpSpec == HttpInit /\ [][HttpNext]_hvars /\ WF_hvars(Serving)

------------------------------------------------------------------------------
(* Properties. *)

\* Every request ends, and the slot is left committed.
Answered == at # "idle" ~> at = "idle"

\* The client can trust the end of an answer: what is on the wire is always a prefix
\* of the opening, texts in order and the closing of its API; the text is all that the
\* chat has released, as long as the client is there; a closing frame is written only
\* for an answer that came to its end, with its reason -- never after the engine
\* raised; and when such an answer is over and no write has failed, the whole of it is
\* on the wire, with its closing (server.py:522-546, 571-600).
AnswerWhole ==
  LET start == Opening(request)
      ends  == reason \in {"stop", "length"}
      close == IF ends THEN Closing(request, reason, shown) ELSE <<>>
      chats == wire = <<>> \/ wire[1].kind \in {"headers", "response"} IN
  chats => \E n \in 0 .. Greater(0, Len(wire) - Len(start)) :
    LET texts == SubSeq(wire, Len(start) + 1, Len(start) + n) IN
    /\ \A i \in 1 .. n : texts[i].kind = "text"
    /\ IsPrefix(wire, start \o texts \o close)
    /\ \A i \in 1 .. n - 1 : texts[i].text < texts[i + 1].text
    /\ request.streaming /\ ~lost /\ shown > 0 => n > 0 /\ texts[n].text = shown
    /\ Len(wire) > Len(start) + n => at = "over" /\ ends
    /\ at = "over" /\ ends /\ ~lost => wire = start \o texts \o close
=============================================================================
