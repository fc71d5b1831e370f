--------------------------------- MODULE Cli ---------------------------------
(***************************************************************************)
(* `nunspark generate`, main() of src/nunspark/cli.py: it refuses or       *)
(* accepts its options, opens the engine and the store, chooses one of the *)
(* decoding loops, puts the tokens it yields on a queue that a printer     *)
(* thread empties, and closes what it opened on every way out.             *)
(*                                                                         *)
(* A program of the user's own may call any loop (stage "library"), and    *)
(* resumes the generator to its end.                                       *)
(***************************************************************************)
EXTENDS Loops

CONSTANTS
  Stop,       \* the None that ends the printer
  Commands,   \* bound: the command lines
  Printable,  \* bound: the greatest --max-tokens of a command
  Faults      \* bound: what may raise, of "load", "pass" and "print"

Command ==
  [ngram : BOOLEAN,                            \* --ngram-draft
   eagle : {"none", "found", "missing"},       \* --eagle-drafter
   draft : {"none", "model", "assistant"},     \* --draft-model
   fast : BOOLEAN,                             \* --accept-top-k above 1
   quant : BOOLEAN,                            \* the model supports --kv-bits, if given
   prompt : BOOLEAN]                           \* --prompt or --prompt-ids is given

ASSUME CliAssumption ==
  /\ Commands \subseteq Command
  /\ Stop \notin Token /\ Printable \in Nat
  /\ Faults \subseteq {"load", "pass", "print"}

VARIABLES
  args,
  stage,     \* where main() stands
  code,      \* what it returns, 2 when it raises
  engine, store,       \* what is open
  tokq, outIds,        \* tok_q; out_ids, the tokens printed
  printer

mainVars == <<args, stage, code, engine, store>>
printVars == <<tokq, outIds, printer>>
cvars == <<lvars, mainVars, printVars>>

\* What the loop has done so far.
done == <<call, rest, caches, out, pend, adapt, lookup, pads>>

\* The loop a command runs, by the order in which the drafters are looked at.
LoopOf(c) ==
  CASE c.ngram -> "lookup"
    [] ~c.ngram /\ c.eagle # "none" -> "eagle"
    [] ~c.ngram /\ c.eagle = "none" /\ c.draft = "assistant" -> "mtp"
    [] ~c.ngram /\ c.eagle = "none" /\ c.draft = "model" -> IF c.fast THEN "fast" ELSE "draft"
    [] OTHER -> "stream"

CliInit ==
  /\ LoopsInit
  /\ \/ /\ stage = "start"
        /\ args \in Commands /\ method = LoopOf(args) /\ limit <= Printable
     \/ stage = "library" /\ args = CHOOSE c \in Commands : TRUE
  /\ code = 0 /\ engine = FALSE /\ store = FALSE
  /\ tokq = <<>> /\ outIds = <<>> /\ printer = "off"

------------------------------------------------------------------------------
(* main(), up to the loop. *)

\* Leave main() with nothing open, and the loop where it stands.
Quit(c) == stage' = "gone" /\ code' = c /\ at' = "over"

\* Leave it by the finally clauses.
Leave(c) == stage' = "finally" /\ code' = c /\ at' = "over"

\* Go on.
Reach(s) == stage' = s /\ UNCHANGED <<code, at>>

\* --ngram-draft excludes the other drafters.
RefuseOptions ==
  /\ stage = "start"
  /\ args.ngram /\ (args.draft # "none" \/ args.eagle # "none")
  /\ Quit(1)
  /\ UNCHANGED <<done, args, engine, store, printVars>>

\* The engine, closed again when it cannot quantize its KV rows.
OpenEngine ==
  /\ stage = "start"
  /\ args.ngram => args.draft = "none" /\ args.eagle = "none"
  /\ \/ "load" \in Faults /\ Quit(2) /\ UNCHANGED engine
     \/ ~args.quant /\ Quit(1) /\ UNCHANGED engine
     \/ args.quant /\ engine' = TRUE /\ Reach("prompt")
  /\ UNCHANGED <<done, args, store, printVars>>

ReadPrompt ==
  /\ stage = "prompt"
  /\ \/ "load" \in Faults /\ Leave(2)
     \/ ~args.prompt /\ Leave(1)
     \/ args.prompt /\ Reach("drafters")
  /\ UNCHANGED <<done, args, engine, store, printVars>>

\* The EAGLE drafter must be a directory; then the draft model is loaded, an assistant
\* by its own loader, even when the loop will not use it.
LoadDrafters ==
  /\ stage = "drafters"
  /\ \/ "load" \in Faults /\ Leave(2)
     \/ args.eagle = "missing" /\ Leave(1)
     \/ args.eagle # "missing" /\ Reach("store")
  /\ UNCHANGED <<done, args, engine, store, printVars>>

\* The store, the loop's generator, which does nothing yet, and the printer.
OpenStore ==
  /\ stage = "store"
  /\ \/ "load" \in Faults /\ Leave(2) /\ UNCHANGED <<store, printer>>
     \/ store' = TRUE /\ printer' = "on" /\ Reach("loop")
  /\ UNCHANGED <<done, args, engine, tokq, outIds>>

------------------------------------------------------------------------------
(* The loop over the generator's tokens. *)

\* The last token yielded ends the for statement.
AtEos == at = "yielded" /\ Last(out) = Eos

\* The generator runs to its next yield; the token is queued.
Resume ==
  /\ stage = "loop" /\ ~AtEos
  /\ LoopsNext
  /\ tokq' = tokq \o SubSeq(out', Len(out) + 1, Len(out'))
  /\ UNCHANGED <<mainVars, outIds, printer>>

\* A pass of the target raises: the printer is not told.
PassFails ==
  /\ "pass" \in Faults
  /\ stage = "loop" /\ at \in {"prefill", "yielded"} /\ ~AtEos
  /\ Leave(2)
  /\ UNCHANGED <<done, args, engine, store, printVars>>

EndLoop ==
  /\ stage = "loop" /\ (AtEos \/ at = "done")
  /\ at' = "over"
  /\ tokq' = Append(tokq, Stop)
  /\ stage' = "join"
  /\ UNCHANGED <<done, args, code, engine, store, outIds, printer>>

MutantJoin ==
  /\ stage = "join"
  /\ Leave(0)
  /\ UNCHANGED <<done, args, engine, store, printVars>>

\* printer.join(), and the newline after the text.
Join ==
  /\ stage = "join" /\ printer # "on"
  /\ Leave(0) \/ ("print" \in Faults /\ Leave(2))
  /\ UNCHANGED <<done, args, engine, store, printVars>>

\* Both finally clauses: the store, then the engine.
Finally ==
  /\ stage = "finally"
  /\ stage' = "gone" /\ engine' = FALSE /\ store' = FALSE
  /\ UNCHANGED <<lvars, args, code, printVars>>

------------------------------------------------------------------------------
(* The printer, a daemon thread that main()'s return kills. *)

PrintToken ==
  /\ printer = "on" /\ stage # "gone"
  /\ tokq # <<>> /\ Head(tokq) # Stop
  /\ outIds' = Append(outIds, Head(tokq))
  /\ tokq' = Tail(tokq)
  /\ \/ UNCHANGED printer
     \/ "print" \in Faults /\ printer' = "raised"    \* decode or write
  /\ UNCHANGED <<lvars, mainVars>>

PrintEnds ==
  /\ printer = "on" /\ stage # "gone"
  /\ tokq # <<>> /\ Head(tokq) = Stop
  /\ tokq' = Tail(tokq) /\ printer' = "ended"
  /\ UNCHANGED <<lvars, mainVars, outIds>>

------------------------------------------------------------------------------
Main ==
  \/ RefuseOptions \/ OpenEngine \/ ReadPrompt \/ LoadDrafters \/ OpenStore
  \/ Resume \/ PassFails \/ EndLoop \/ Join \/ Finally

Library == stage = "library" /\ LoopsNext /\ UNCHANGED <<mainVars, printVars>>

CliNext == Main \/ PrintToken \/ PrintEnds \/ Library

\* Both threads run; so does the program that calls the library.
CliSpec == CliInit /\ [][CliNext]_cvars /\ WF_cvars(CliNext)

\* When the command returns 0, with a printer that did not raise, the text printed is
\* all the loop yields up to the end-of-text token or max_tokens, and on every way out
\* the engine and the store are closed: nothing is still queued when main() returns,
\* though the generation never waits for the terminal (cli.py:465-502).
PrintedWhole ==
  /\ IsPrefix(outIds, out)
  /\ stage = "gone" =>
       /\ ~engine /\ ~store
       /\ code = 0 /\ printer # "raised" =>
            outIds = out /\ (Len(out) = limit \/ Last(out) = Eos)
=============================================================================
