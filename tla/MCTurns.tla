------------------------------- MODULE MCTurns -------------------------------
(***************************************************************************)
(* The turns and their parts for TLC.  MCTurns.cfg has the bounds:         *)
(*   - three messages, one of them delivered twice, and a crash; the       *)
(*     deduper forgets the oldest of three                                 *)
(*   - two calls of a Codex server compete for the one the limit allows    *)
(*   - the providers of the OpenAI format are judged, one of them without  *)
(*     a key, in chains with the others                                    *)
(*   - two searches at once, and a start command that may take two         *)
(*     processes                                                           *)
(*   - more addresses than workers                                         *)
(*   - two tool calls on browsers at once, for different chats             *)
(***************************************************************************)
EXTENDS Turns, TLC

CONSTANTS c1, c2,     \* tool calls, searches, workers, chats
          k1, k2, k3  \* processes, addresses, controllers

PartWorkloads == {<<"task", "task">>, <<"newsession", "yes", "task">>, <<"task", "label", "command">>}

PartChains == {<<>>, <<"openai", "gemini">>, <<"openai", "openrouter", "gemini">>,
               <<"anthropic", "openai">>}

PartUrls == <<k1, k2, k3>>

ASSUME PartConstants
=============================================================================
