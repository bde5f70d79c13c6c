-------------------------------- MODULE Voice --------------------------------
(***************************************************************************)
(* The desktop voice assistant of jarvis.py: the loop that listens for a   *)
(* double clap, and the voice session it opens (greeting, recording,       *)
(* transcription, routing of the command, spoken answer).  speech.py and   *)
(* the two bridges to other assistants are modelled as far as they decide  *)
(* what the session does next.                                             *)
(*                                                                         *)
(* Time is counted in the 40 ms blocks of the clap detector and, while     *)
(* recording, in the chunks of the recorder.  A sound level is only        *)
(* "quiet" (below the re-arming level), "middle" or "loud" (at or above    *)
(* the threshold); the noise floor that moves the threshold is left out.   *)
(***************************************************************************)
EXTENDS Naturals, FiniteSets

CONSTANTS
  MinGap, MaxGap, Cooldown,   \* of a double clap, in blocks
  VadStart, VadMax, VadPause, \* initial time-out, longest recording, silence
  Commands,                   \* what the user may say: sets of word classes
  MaxTurns,                   \* the user falls silent after so many turns
  None                        \* no value

ASSUME ClapAssumption == /\ MinGap \in Nat \ {0} /\ MaxGap \in Nat
                         /\ MinGap <= MaxGap /\ Cooldown \in Nat
ASSUME VadAssumption == /\ VadStart \in Nat /\ VadMax \in Nat
                        /\ VadPause \in Nat /\ MaxTurns \in Nat \ {0}
ASSUME NoneAssumption == None \notin Nat /\ None # "local"

Levels  == {"quiet", "middle", "loud"}
Engines == {"native", "hermes", "grokbot", "openclaw"}
Targets == {"youtube", "song", "claude", "binance", "cursor", "chrome"}
Texts   == {"greeting", "reply", "sorry", "goodbye"}

VARIABLES
  mode,       \* "clap", "session" or "stopped"
  armed,      \* spike_armed
  first,      \* blocks since first_clap_time, MaxGap + 1 for more; None
  calm,       \* blocks since the last double clap, capped at Cooldown
  dip,        \* a quiet block was heard since the last counted clap
  pc,         \* where the session is
  talk,       \* conversation_mode, read once per session
  turn,       \* turns of this session
  locked,     \* _voice_session_lock, and _voice_session_active with it
  recording,  \* the temporary .wav exists
  vad,        \* the recorder: [spoke, silence, elapsed]
  said,       \* the transcribed command
  text,       \* what is spoken next
  done,       \* what the command led to: <<kind, detail>>
  engine,     \* _current_engine
  cache       \* texts whose sound is in the TTS cache

clapVars    == <<armed, first, calm, dip>>
sessionVars == <<pc, talk, turn, locked, recording, vad, said, text, done>>
voiceVars   == <<mode, clapVars, sessionVars, engine, cache>>

Fresh == [spoke |-> FALSE, silence |-> None, elapsed |-> 0]

(* AI_ENGINE may name an engine nobody knows; ask_ai_engine then asks the   *)
(* native one.                                                              *)
VoiceInit ==
  /\ mode = "clap" /\ armed = TRUE /\ first = None /\ calm = Cooldown
  /\ dip = TRUE
  /\ pc = "idle" /\ talk = FALSE /\ turn = 0 /\ locked = FALSE
  /\ recording = FALSE /\ vad = Fresh /\ said = {} /\ text = None
  /\ done = <<None, None>>
  /\ engine \in {"native", "other"} /\ cache = {}

-----------------------------------------------------------------------------
(***************************************************************************)
(* The clap detector.                                                      *)
(***************************************************************************)

Older(n, cap) == IF n >= cap THEN cap ELSE n + 1

(* Mutant: a noise that goes on counts again.                               *)
CountsOn(level, rearmed, rested) == level = "loud" /\ rested >= Cooldown

(* A spike counts when the detector is armed and the cool-down is over.     *)
Counts(level, rearmed, rested) ==
  rearmed /\ level = "loud" /\ rested >= Cooldown

(* A second clap too soon is ignored, one too late is the new first clap.   *)
Double(gap) == gap # None /\ gap \in MinGap .. MaxGap

HearBlock(level) ==
  LET age     == IF first = None THEN None ELSE Older(first, MaxGap + 1)
      rested  == Older(calm, Cooldown)
      rearmed == armed \/ level = "quiet"
      counts  == Counts(level, rearmed, rested)
      double  == counts /\ Double(age)
  IN /\ mode = "clap"
     /\ armed' = (rearmed /\ ~counts)
     /\ dip' = ((dip /\ ~counts) \/ level = "quiet")
     /\ first' = IF ~counts THEN age
                 ELSE IF age = None \/ age > MaxGap THEN 0
                 ELSE IF double THEN None ELSE age
     /\ calm' = IF double THEN 0 ELSE rested
     /\ IF double
          THEN /\ mode' = "session" /\ pc' = "greet" /\ locked' = TRUE
               /\ turn' = 0 /\ text' = "greeting"
               /\ talk' \in BOOLEAN
               /\ done' = <<None, None>>
               /\ UNCHANGED <<recording, vad, said>>
          ELSE UNCHANGED <<mode, sessionVars>>
     /\ UNCHANGED <<engine, cache>>

-----------------------------------------------------------------------------
(***************************************************************************)
(* The session.  Each step is one call of handle_voice_interaction.        *)
(***************************************************************************)

(* The finally block of the session, and the re-arming of the detector.     *)
(* The cool-down runs from the clap, so any part of it may have passed.     *)
EndSession ==
  /\ mode' = "clap" /\ pc' = "idle" /\ locked' = FALSE
  /\ armed' = TRUE /\ first' = None /\ dip' = TRUE
  /\ calm' \in calm .. Cooldown

InSession(at) == mode = "session" /\ pc = at

(* speak_text: the cache, then ElevenLabs, whose answer is cached, then the *)
(* voice of the system.  Returns whether something was heard and the cache. *)
Spoken(what, world) ==
  LET hit  == world.caching /\ what \in cache /\ world.plays
      made == ~hit /\ world.service
  IN [heard |-> hit \/ (made /\ world.plays) \/ world.system,
      cache |-> IF made /\ world.caching THEN cache \cup {what} ELSE cache]

Worlds == [caching : BOOLEAN, plays : BOOLEAN, service : BOOLEAN,
           system : BOOLEAN]

(* What is spoken decides what comes next; whether it was heard does not.   *)
Speak ==
  /\ mode = "session" /\ pc \in {"greet", "answer", "last"}
  /\ \E world \in Worlds : cache' = Spoken(text, world).cache
  /\ IF pc = "greet" \/ (pc = "answer" /\ talk)
       THEN /\ pc' = "listen"
            /\ UNCHANGED <<mode, locked, clapVars>>
       ELSE EndSession
  /\ said' = {} /\ done' = <<None, None>>
  /\ UNCHANGED <<talk, turn, recording, vad, text, engine>>

(* listen_and_transcribe: nothing is opened when STT is switched off.       *)
Listen ==
  /\ InSession("listen")
  /\ \/ /\ pc' = "record" /\ recording' = TRUE /\ vad' = Fresh
     \/ /\ pc' = "unheard" /\ UNCHANGED <<recording, vad>>
  /\ turn' = turn + 1
  /\ UNCHANGED <<mode, clapVars, talk, locked, said, text, done, engine,
                 cache>>

(* One chunk of _record_vad_wav.  The time-outs are looked at before the    *)
(* sound; a recorder that fails is one that heard nothing.                  *)
Stopped(now) ==
  \/ ~vad.spoke /\ now > VadStart
  \/ now > VadMax

Chunk(loud) ==
  LET now   == vad.elapsed + 1
      still == vad.spoke /\ ~loud
      since == IF still /\ vad.silence = None THEN now ELSE vad.silence
      over  == still /\ vad.silence # None /\ now - vad.silence >= VadPause
  IN /\ InSession("record")
     /\ IF Stopped(now)
          THEN /\ pc' = IF vad.spoke THEN "transcribe" ELSE "close"
               /\ UNCHANGED vad
          ELSE /\ pc' = IF over THEN "transcribe" ELSE "record"
               /\ vad' = [spoke   |-> vad.spoke \/ loud,
                          silence |-> IF loud THEN None ELSE since,
                          elapsed |-> now]
     /\ UNCHANGED <<mode, clapVars, talk, turn, locked, recording, said,
                    text, done, engine, cache>>

RecorderFails ==
  /\ InSession("record") /\ pc' = "close"
  /\ UNCHANGED <<mode, clapVars, talk, turn, locked, recording, vad, said,
                 text, done, engine, cache>>

(* Transcription may fail or yield nothing; whatever happens, the finally   *)
(* block removes the file.  A user who was recorded MaxTurns times is done. *)
Transcribe ==
  /\ \/ InSession("close") /\ pc' = "unheard" /\ UNCHANGED said
     \/ InSession("transcribe") /\ pc' = "unheard" /\ UNCHANGED said
     \/ /\ InSession("transcribe") /\ turn <= MaxTurns /\ pc' = "route"
        /\ said' \in Commands
  /\ recording' = FALSE /\ vad' = Fresh
  /\ UNCHANGED <<mode, clapVars, talk, turn, locked, text, done, engine,
                 cache>>

(* Nothing was heard: a conversation ends silently, a single command with   *)
(* an apology.                                                              *)
Unheard ==
  /\ InSession("unheard")
  /\ IF talk
       THEN EndSession /\ UNCHANGED text
       ELSE /\ pc' = "last" /\ text' = "sorry"
            /\ UNCHANGED <<mode, locked, clapVars>>
  /\ UNCHANGED <<talk, turn, recording, vad, said, done, engine, cache>>

-----------------------------------------------------------------------------
(***************************************************************************)
(* handle_command.  A command is the set of the word classes it contains:  *)
(* names of engines, "engine" itself, "switch", "ask", "action", and the   *)
(* targets of local automation.                                            *)
(***************************************************************************)

(* handle_engine_command: the first engine named together with a word of    *)
(* switching, of which the word "engine" is one.                            *)
SwitchesTo(words) ==
  LET named == {"native", "hermes", "grokbot", "openclaw"} \cap words
  IN IF words \cap {"engine", "switch"} = {} \/ named = {} THEN None
     ELSE IF "native" \in named THEN "native"
     ELSE IF "hermes" \in named THEN "hermes"
     ELSE IF "grokbot" \in named THEN "grokbot" ELSE "openclaw"

AsksEngine(words) == {"engine", "ask"} \subseteq words

IsLocal(words) == words \cap Targets # {} /\ "action" \in words

(* Mutant: the branch for music is lost.                                    *)
LocalNoSong(words) ==
  IF "youtube" \in words THEN "youtube" ELSE IF "chrome" \in words
  THEN "chrome" ELSE None

(* execute_local_command: the first target in the order of its tests.       *)
LocalTarget(words) ==
  IF "youtube" \in words THEN "youtube"
  ELSE IF "song" \in words THEN "song"
  ELSE IF "claude" \in words THEN "claude"
  ELSE IF "binance" \in words THEN "binance"
  ELSE IF "cursor" \in words THEN "cursor"
  ELSE IF "chrome" \in words THEN "chrome" ELSE None

(* ask_ai_engine and the bridges: where an answer may come from.  A bridge  *)
(* that fails says so in a sentence; only the native runtime may raise.     *)
Asked(e) == IF e \in Engines THEN e ELSE "native"

(* The command-line program of Hermes is tried in four ways, then its web   *)
(* service, which is all that Grok has; OpenClaw has only its program,      *)
(* whose reply is read as JSON or, when it is none, as it is.               *)
HermesAnswers   == {"command", "http", "unavailable"}
GrokbotAnswers  == {"http", "unavailable"}
OpenClawAnswers == {"command", "empty", "unavailable"}

Answers(e) ==
  CASE e = "native"   -> {"workflow", "raised"}
    [] e = "hermes"   -> HermesAnswers
    [] e = "grokbot"  -> GrokbotAnswers
    [] e = "openclaw" -> OpenClawAnswers

Reply(what) == pc' = "answer" /\ text' = "reply" /\ done' = what
               /\ UNCHANGED <<mode, locked, clapVars>>

(* A phrase of farewell ends the session; otherwise switching engines comes *)
(* before local automation, and that before asking the engine.              *)
Route ==
  /\ InSession("route")
  /\ \/ /\ said = {"exit"}
        /\ pc' = "last" /\ text' = "goodbye" /\ done' = <<"exit", None>>
        /\ UNCHANGED <<mode, locked, clapVars, engine>>
     \/ /\ said # {"exit"} /\ SwitchesTo(said) # None
        /\ engine' = SwitchesTo(said)
        /\ Reply(<<"switch", engine'>>)
     \/ /\ said # {"exit"} /\ SwitchesTo(said) = None /\ AsksEngine(said)
        /\ Reply(<<"tell", engine>>) /\ UNCHANGED engine
     \/ /\ said # {"exit"} /\ SwitchesTo(said) = None /\ ~AsksEngine(said)
        /\ IsLocal(said)
        /\ Reply(<<"local", LocalTarget(said)>>) /\ UNCHANGED engine
     \/ /\ said # {"exit"} /\ SwitchesTo(said) = None /\ ~AsksEngine(said)
        /\ ~IsLocal(said)
        /\ \E from \in Answers(Asked(engine)) :
             IF from = "raised"
               THEN EndSession /\ UNCHANGED <<text, done>>
               ELSE Reply(<<"engine", Asked(engine)>>)
        /\ UNCHANGED engine
  /\ said' = IF mode' = "clap" THEN {} ELSE said
  /\ UNCHANGED <<talk, turn, recording, vad, cache>>

-----------------------------------------------------------------------------
(* Ctrl-C passes through both finally blocks; a microphone that cannot be   *)
(* opened again ends the program as well.                                   *)
Interrupt ==
  /\ mode # "stopped" /\ mode' = "stopped"
  /\ pc' = "idle" /\ locked' = FALSE /\ recording' = FALSE
  /\ said' = {} /\ done' = <<None, None>>
  /\ UNCHANGED <<clapVars, talk, turn, vad, text, engine, cache>>

SessionStep ==
  \/ Speak \/ Listen \/ RecorderFails \/ Transcribe \/ Unheard \/ Route
  \/ \E loud \in BOOLEAN : Chunk(loud)

VoiceNext ==
  \/ \E level \in Levels : HearBlock(level)
  \/ SessionStep
  \/ Interrupt

VoiceFairness == WF_voiceVars(SessionStep)

-----------------------------------------------------------------------------
VoiceTypeOK ==
  /\ mode \in {"clap", "session", "stopped"} /\ armed \in BOOLEAN
  /\ first \in (0 .. MaxGap + 1) \cup {None} /\ calm \in 0 .. Cooldown
  /\ dip \in BOOLEAN /\ talk \in BOOLEAN /\ locked \in BOOLEAN
  /\ recording \in BOOLEAN
  /\ vad.elapsed \in 0 .. VadMax
  /\ said \in Commands \cup {{}} /\ text \in Texts \cup {None}
  /\ engine \in Engines \cup {"other"} /\ cache \subseteq Texts

(* A session is opened by two claps that are apart as the banner of main()  *)
(* says, with a quiet block between them: one long noise, however loud,     *)
(* never wakes the assistant.                                               *)
SessionByDoubleClap ==
  [][mode = "clap" /\ mode' = "session" =>
       dip /\ first # None /\ first + 1 \in MinGap .. MaxGap]_voiceVars

(* However a session goes (nothing heard, a recorder or an engine that      *)
(* fails, Ctrl-C), its lock is held exactly while it lasts, the temporary   *)
(* recording exists only while it is made and transcribed, the recording    *)
(* has an end, and a local command opens something the user named:          *)
(* is_local_command never claims what execute_local_command cannot do.      *)
SessionInv ==
  /\ locked = (mode = "session")
  /\ recording = (pc \in {"record", "close", "transcribe"})
  /\ vad.elapsed <= VadMax
  /\ done[1] = "local" => done[2] \in said

(* Every session ends, and the detector listens again.                      *)
SessionsEnd == mode = "session" ~> mode # "session"
=============================================================================
