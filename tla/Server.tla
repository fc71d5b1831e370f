------------------------------- MODULE Server -------------------------------
(***************************************************************************)
(* One chat request after another: stream_chat_completion of               *)
(* src/nunspark/server.py over the loops of Generation, with the           *)
(* single-slot prompt-prefix reuse of src/nunspark/prefix_cache.py.  Http  *)
(* has the handlers that run it.                                           *)
(*                                                                         *)
(* Requests are serialised by state.lock, so there is one call at a time.  *)
(* A token's text is one segment; what of it the client has been sent is   *)
(* `shown`, a number of tokens.  The client may go away when it is written *)
(* to, and the engine may raise in the middle of a pass.                   *)
(***************************************************************************)
EXTENDS Generation

CONSTANTS
  StopLists,   \* bound: the stop_sequences of a request
  FaultLayers  \* layers at which the engine may raise

ASSUME ServerAssumption ==
  /\ StopLists \subseteq Seq(Seq(Token) \ {<<>>})
  /\ FaultLayers \subseteq Layer

VARIABLES
  open,      \* PrefixCache.kv is not None
  tokens,    \* PrefixCache.tokens: the sequence the store is said to hold
  stops,     \* stop_sequences
  shown,     \* tokens whose text has been yielded
  reason     \* finish_reason, "none" while the request runs

slot == <<open, tokens>>
chat == <<stops, shown, reason>>
svars == <<gvars, slot, chat>>

SInit ==
  /\ NoCall /\ prompt = <<>> /\ limit = 0 /\ method \in Methods
  /\ kv = [l \in Layer |-> <<>>]
  /\ at = "idle"
  /\ open = FALSE /\ tokens = <<>>
  /\ stops = <<>> /\ shown = 0 /\ reason = "none"

------------------------------------------------------------------------------
(* PrefixCache. *)

CommonPrefixLen(s, t) == Len(LongestCommonPrefix({s, t}))

MutantRotated(n) == FALSE
\* Some sliding-window layer has dropped rows of a sequence of n tokens.
Rotated(n) == n >= Window /\ \E l \in Layer : Kind[l] = "window"

MutantAnswer(S) == stops' = S /\ reason' = "none" /\ UNCHANGED shown
\* A new answer: nothing of it has been sent.
Answer(S) == stops' = S /\ reason' = "none" /\ shown' = 0

\* begin(): reuse the longest common prefix, but for the prompt's last token.
Begin(p, n, m, S) ==
  LET common == Lesser(CommonPrefixLen(tokens, p), Len(p) - 1)
      reuse  == open /\ common > 0 /\ ~Rotated(Len(tokens)) IN
  /\ at = "idle"
  /\ open' = TRUE
  /\ IF reuse
       THEN /\ kv' = Rolled(kv, Len(tokens) - common)
            /\ tokens' = SubSeq(tokens, 1, common)
            /\ rest' = SubSeq(p, common + 1, Len(p))
       ELSE /\ kv' = [l \in Layer |-> <<>>]
            /\ tokens' = <<>>
            /\ rest' = p
  /\ prompt' = p /\ limit' = n /\ method' = m
  /\ draft' = <<>> /\ out' = <<>> /\ pend' = <<>>
  /\ k' = InitK /\ history' = <<>> /\ since' = 0
  /\ Answer(S)
  /\ at' = "prefill"

MutantEnded == at \in {"yielded", "done"} /\ reason \in {"stop", "length"}
\* The finally clause runs however the generator ends: closed by its consumer,
\* exhausted, or left by an exception.
Ended == at \in {"yielded", "done"} /\ reason # "none"

MutantCommit ==
  /\ Ended
  /\ tokens' = prompt \o out
  /\ at' = "over"
  /\ UNCHANGED <<call, rest, draft, out, pend, adapt, chat, open, kv>>

\* commit(), in the finally clause: the store's real length against the claim.
Commit ==
  LET claim  == prompt \o out
      actual == Len(Rows) IN
  /\ Ended
  /\ IF actual <= Len(claim)
       THEN tokens' = SubSeq(claim, 1, actual) /\ UNCHANGED <<open, kv>>
     ELSE IF Rotated(actual)
       THEN open' = FALSE /\ tokens' = <<>> /\ kv' = [l \in Layer |-> <<>>]
     ELSE /\ kv' = Rolled(kv, actual - Len(claim))
          /\ tokens' = claim
          /\ UNCHANGED open
  /\ at' = "over"
  /\ UNCHANGED <<call, rest, draft, out, pend, adapt, chat>>

------------------------------------------------------------------------------
(* stream_chat_completion. *)

\* sequence_overlap: the end of s may be the start of q.
MutantOverlaps(s, q) == IsSuffix(q, s)
Overlaps(s, q) ==
  \E i \in 1 .. Lesser(Len(s), Len(q)) :
    SubSeq(s, Len(s) - i + 1, Len(s)) = SubSeq(q, 1, i)

\* The first stop sequence that the tokens s end with; 0 if none.
StopAt(s) ==
  IF \E i \in DOMAIN stops : IsSuffix(stops[i], s)
    THEN CHOOSE i \in DOMAIN stops :
           /\ IsSuffix(stops[i], s)
           /\ \A j \in 1 .. i - 1 : ~IsSuffix(stops[j], s)
    ELSE 0

\* One token: stop at the end of text or at a stop sequence, whose own text is
\* cut off; else send what cannot be the start of one.
Deliver ==
  /\ reason = "none"
  /\ Emit
  /\ IF Last(out') = Eos
       THEN reason' = "stop" /\ UNCHANGED shown
     ELSE IF StopAt(out') # 0
       THEN /\ reason' = "stop"
            /\ shown' = Greater(shown, Len(out') - Len(stops[StopAt(out')]))
     ELSE /\ UNCHANGED reason
          /\ shown' = IF \E i \in DOMAIN stops : Overlaps(out', stops[i])
                        THEN shown ELSE Len(out')
  /\ UNCHANGED <<slot, stops>>

\* The generator has run out of tokens: whatever was held back is sent.
Exhausted ==
  /\ at = "done" /\ reason = "none"
  /\ reason' = "length"
  /\ shown' = Len(out)
  /\ UNCHANGED <<gvars, slot, stops>>

\* The client is gone when a segment is written: the generator is closed.
Disconnect ==
  /\ at = "yielded" /\ reason = "none" /\ shown = Len(out)
  /\ reason' = "gone"
  /\ UNCHANGED <<gvars, slot, stops, shown>>

\* The engine raises at layer l of the pass under way (a window of the prefill, or
\* the last token alone): the layers before l have appended its rows.
Fault(l) ==
  LET x == IF at = "prefill" THEN SubSeq(rest, 1, Lesser(Chunk, Len(rest)))
           ELSE <<Last(out)>> IN
  /\ reason = "none"
  /\ at = "prefill" \/ (at = "yielded" /\ method = "stream")
  /\ kv' = [j \in Layer |-> IF j < l THEN Fed(x)[j] ELSE kv[j]]
  /\ reason' = "error"
  /\ at' = "done"
  /\ UNCHANGED <<call, rest, draft, out, pend, adapt, slot, stops, shown>>

\* The generator goes on when the consumer asks for the next token.
Resume ==
  /\ reason = "none"
  /\ Prefill \/ Return \/ StreamStep \/ Round
  /\ UNCHANGED <<slot, chat>>

------------------------------------------------------------------------------
(* Properties. *)

ServerTypeOK ==
  /\ TypeOK
  /\ open \in BOOLEAN /\ tokens \in Seq(Token)
  /\ stops \in StopLists \cup {<<>>}
  /\ shown \in 0 .. Len(out)
  /\ reason \in {"none", "stop", "length", "gone", "error"}

\* Between requests the store holds, in every layer, exactly the tokens the slot
\* says it holds, however the last request ended (prefix_cache.py:24-25, 71-74):
\* else a later prompt would be answered from another one's rows.
SlotHonest ==
  at \in {"idle", "over"} /\ open => Holds(tokens)

\* A request answered from a reused prefix yields the tokens it would have
\* yielded cold (prefix_cache.py:23-25): the target's argmax after the prompt and
\* what came before.
AsIfCold ==
  \A i \in DOMAIN out : out[i] = Argmax(prompt \o SubSeq(out, 1, i - 1))

\* The client is sent the text of every token but those of the stop sequence that
\* ended the answer, and of that sequence nothing, not even before it was complete
\* (server.py:61-66, 103-110); when Eos ends the answer, text is missing only if it
\* could have been the start of a stop sequence (server.py:72-76).
ExactText ==
  LET held == \E i \in DOMAIN stops : Overlaps(Front(out), stops[i]) IN
  /\ reason = "length" => shown = Len(out)
  /\ reason = "stop" /\ Last(out) # Eos => shown = Len(out) - Len(stops[StopAt(out)])
  /\ reason = "stop" /\ Last(out) = Eos /\ ~held => shown = Len(out) - 1
=============================================================================
