----------------------------- MODULE MCServices -----------------------------
(***************************************************************************)
(* Components that share nothing, checked by one run: a behaviour picks a  *)
(* scene and stays in it, and the variables of the other components keep   *)
(* their initial values (in which none of their fair actions is enabled).  *)
(***************************************************************************)
EXTENDS EndpointHealth, Listener, PlanWalk

VARIABLES
  scene,
  source, ctx, seen, asked, chunks,
  origin, state, reader, input, steps,
  pair, given, items, conv, got, sent,
  format, history,
  style, out, kept, live, counted, latest, answer, happened,
  today, table, oldTable, schema, boot, named, rec, done, truth

Abc == <<"a", "b", "c">>

C == INSTANCE ClaudeBlocks WITH Sources <- {"chat", "responses", "gemini"}, Tools <- {0, 1},
       MaxChunks <- [chat |-> 5, responses |-> 8, gemini |-> 4],
       Texts <- {<<"text">>, <<"half">>, <<"text", "half">>, <<"rest", "text">>,
                 <<"open", "text">>, <<"text", "close", "text">>, <<"open", "text", "close">>}
R == INSTANCE ResponsesItems WITH Origins <- {"claude", "chat", "gemini"},
                                  ToolIndices <- {0, 1}, MaxSteps <- 7
K == INSTANCE ChatChunks WITH MaxItems <- 3, MaxLength <- 2, MaxSent <- 6,
       Conversions <- ({"claude", "responses"} \X {"chat", "gemini"})
                      \cup {<<"gemini", "chat">>, <<"chat", "gemini">>}
H == INSTANCE Histories WITH CallIds <- {1, 2},
                             MaxMessages <- [claude |-> 4, chat |-> 4, responses |-> 4]
A == INSTANCE Answers WITH Styles <- {"chat", "responses", "claude"},
                           MaxOut <- 2, MaxPieces <- 2, MaxHappened <- 6
S == INSTANCE Statistics WITH Names <- {"n1", "n2"}, Clients <- {"c"}, Recorders <- {"r", "s"},
       Watched <- {"r"}, MonthOf <- <<1, 2>>, Periods <- <<"daily", "weekly">>,
       MaxServed <- 2, MaxAdmin <- 2, MaxMishaps <- 1, MaxDone <- 3

\* The listener and the settings come with four sets of bounds: overlapping
\* changes of the address (those of the run), starts and stops with more
\* mishaps, sequences of changes with restarts, overlapping changes of details.
Elsewhere == {<<"local", 2>>, <<"lan", 1>>}
Overlap == [a |-> {"net"}, b |-> {"web"}]
Starts == INSTANCE Listener WITH
  Changers <- {"a", "b"}, Serves <- [a |-> {"net"}, b |-> {}],
  Targets <- Elsewhere, MaxChanges <- 1, MaxStarts <- 2, MaxMishaps <- 2
Restarts == INSTANCE Listener WITH
  Changers <- {"a", "b"}, Serves <- [a |-> {"local", "s3", "provider", "optin", "whole"}, b |-> {}],
  Targets <- Elsewhere, MaxChanges <- 3, MaxStarts <- 0, MaxMishaps <- 1
Plain == INSTANCE Listener WITH
  Changers <- {"a", "b"},
  Serves <- [a |-> {"local", "s3", "provider"}, b |-> {"provider", "webdav", "proxy", "pref"}],
  Targets <- Elsewhere, MaxChanges <- 2, MaxStarts <- 0, MaxMishaps <- 1

blockVars == <<source, ctx, seen, asked, chunks>>
itemVars == <<origin, state, reader, input, steps>>
chunkVars == <<pair, given, items, conv, got, sent>>
historyVars == <<format, history>>
answerVars == <<style, out, kept, live, counted, latest, answer, happened>>
statsVars == <<today, table, oldTable, schema, boot, named, rec, done, truth>>
mcVars == <<scene, vars, planVars, blockVars, itemVars, chunkVars,
            historyVars, answerVars, statsVars, listenerVars>>

ListenerScenes == {"overlap", "starts", "restarts", "plain"}

\* The other components start in the simplest of their initial states.
MCInit ==
  /\ scene \in {"health", "plan", "blocks", "items", "chunks",
               "histories", "answers", "statistics"} \cup ListenerScenes
  /\ scene # "blocks" => source = "chat"
  /\ scene # "items" => origin = "chat"
  /\ scene # "chunks" => pair = <<"claude", "chat">> /\ given = [ids |-> TRUE, alike |-> FALSE]
  /\ scene # "histories" => format = "chat"
  /\ scene # "answers" => style = [format |-> "chat", deltas |-> FALSE, strict |-> FALSE]
  /\ scene # "statistics" => schema = "current"
  /\ Init /\ C!BlocksInit /\ R!ItemsInit /\ K!ChunksInit /\ H!HistoryInit
  /\ A!AnswersInit /\ S!StatsInit
  /\ IF scene = "plan" THEN PlanInit ELSE PlanQuiet
  /\ CASE scene = "overlap"  -> ListenerInit
       [] scene = "starts"   -> Starts!ListenerInit
       [] scene = "restarts" -> Restarts!ListenerInit
       [] scene = "plain"    -> Plain!ListenerInit
       [] OTHER -> Plain!ListenerInit /\ ~cfg.locked /\ taken = {}

MCNext ==
  /\ UNCHANGED scene
  /\ IF scene = "health"    THEN Next          ELSE UNCHANGED vars
  /\ IF scene = "plan"      THEN Advance       ELSE UNCHANGED planVars
  /\ IF scene = "blocks"    THEN C!BlocksNext  ELSE UNCHANGED blockVars
  /\ IF scene = "items"     THEN R!ItemsNext   ELSE UNCHANGED itemVars
  /\ IF scene = "chunks"    THEN K!ChunksNext  ELSE UNCHANGED chunkVars
  /\ IF scene = "histories" THEN H!HistoryNext ELSE UNCHANGED historyVars
  /\ IF scene = "answers"   THEN A!AnswersNext ELSE UNCHANGED answerVars
  /\ IF scene = "statistics" THEN S!StatsNext  ELSE UNCHANGED statsVars
  /\ \/ scene = "overlap"  /\ ListenerNext
     \/ scene = "starts"   /\ Starts!ListenerNext
     \/ scene = "restarts" /\ Restarts!ListenerNext
     \/ scene = "plain"    /\ Plain!ListenerNext
     \/ scene \notin ListenerScenes /\ UNCHANGED listenerVars

MCSpec == MCInit /\ [][MCNext]_mcVars
-----------------------------------------------------------------------------
(* The components' properties, explained in their modules; those of        *)
(* EndpointHealth, Listener and PlanWalk are checked as they are.  Only    *)
(* the scene changes, so of the others only its component is looked at.    *)

\* A converted stream is well formed and carries what the upstream sent, for
\* every pair of formats (the ...StreamTo... functions of convert).
StreamsWellFormed ==
  /\ scene = "blocks" => C!BlocksTypeOK /\ C!ClaudeBlocksSound
  /\ scene = "items"  => R!ItemsTypeOK /\ R!ResponsesItemsSound
  /\ scene = "chunks" => K!ChunksTypeOK /\ K!ChunksSound

\* A converted history keeps calls with their results and loses nothing but what
\* is named, or is refused (the ...ReqTo... functions, tool_chain_normalizer.go).
HistoriesSound == scene = "histories" => H!HistoriesSound

\* A stream gathered into one answer is that answer, and nothing that has no
\* content is handed on as one (streaming.go, semantic_empty.go).
AnswersSound == scene = "answers" => A!AnswersSound

\* Nothing recorded is lost or counted twice, and sums that are shown together
\* agree (stats.go, sqlite.go, archive.go).
StatisticsSound == scene = "statistics" => S!StatisticsSound
=============================================================================
