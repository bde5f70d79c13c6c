------------------------------- MODULE MCParts -------------------------------
(* The parts of the system that share no state that is modelled with any   *)
(* other, for TLC: a behaviour in which two of them move says nothing that *)
(* the ones in which only one moves do not, so that "part" says which one  *)
(* a behaviour is about.  Those of MCTaskPath lie on a task's path; the    *)
(* others are the two processes of the desktop assistant: the web server,  *)
(* and the voice program, which looks for its microphone before it begins  *)
(* to listen, so that nothing of the search but the device itself lives    *)
(* on.  Each part is followed from every one of its own beginnings.        *)
EXTENDS MCTaskPath, Voice, AgentRuntime, Microphone

Words == {"exit", "hermes", "openclaw", "engine", "switch", "ask", "action",
          "youtube", "song"}

(* Commands of two words, and those of three for which rules compete.      *)
Competing == {{"hermes", "openclaw", "switch"}, {"hermes", "engine", "ask"},
              {"openclaw", "switch", "song"}, {"engine", "ask", "action"},
              {"youtube", "song", "action"}, {"song", "action", "switch"}}

Said == {{"exit"}, {"exit", "ask"}} \cup Competing \cup
        {words \in SUBSET (Words \ {"exit"}) : Cardinality(words) \in 1 .. 2}

assistantVars == <<voiceVars, runtimeVars, micVars>>

Unasked == inputs = {} /\ wanted = Nothing

PartsInit ==
  /\ VoiceInit /\ RuntimeInit /\ MicInit
  /\ \/ MCInit
     \/ /\ part \in {"microphone", "voice", "server"}
        /\ AdmInit /\ ContextInit /\ PathInit
        /\ origin = "heuristic" /\ limit = 2
  /\ part # "microphone" => Unasked
  /\ part # "voice" => engine = "native"

PartsNext ==
  \/ MCNext /\ UNCHANGED assistantVars
  \/ part = "microphone" /\ MicNext /\ UNCHANGED <<pathsVars, voiceVars, runtimeVars>>
  \/ part = "voice" /\ VoiceNext /\ UNCHANGED <<pathsVars, runtimeVars, micVars>>
  \/ part = "server" /\ RuntimeNext /\ UNCHANGED <<pathsVars, voiceVars, micVars>>

PartsSpec ==
  /\ PartsInit /\ [][PartsNext]_<<pathsVars, assistantVars>>
  /\ AdmFairness /\ HttpFairness /\ VoiceFairness /\ RuntimeFairness

(* Every voice session ends and every chat request is answered.             *)
AssistantAnswers == SessionsEnd /\ RequestsEnd
=============================================================================
