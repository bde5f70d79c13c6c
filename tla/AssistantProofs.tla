--------------------------- MODULE AssistantProofs ---------------------------
(***************************************************************************)
(* What the desktop assistant promises, for every value of the constants:  *)
(* a voice session (SessionInv, SessionByDoubleClap), the choice of the    *)
(* microphone (MicrophoneHears) and the history of the chat behind the web *)
(* server's lock (AnswersKept).  The three parts share no state; each has  *)
(* an inductive invariant of its own.                                      *)
(***************************************************************************)
EXTENDS Voice, AgentRuntime, Microphone, SequenceTheorems, WellFoundedInduction,
        TLAPS

-----------------------------------------------------------------------------
(***************************************************************************)
(* The voice session.                                                      *)
(***************************************************************************)
SessionPlaces == {"greet", "listen", "record", "close", "transcribe", "unheard",
                  "route", "answer", "last"}

(* Where a session can be, and what it holds there.                         *)
Places ==
  /\ mode \in {"clap", "session", "stopped"}
  /\ mode = "session" => pc \in SessionPlaces
  /\ mode # "session" => pc = "idle"
  /\ locked \in BOOLEAN /\ (locked <=> mode = "session")
  /\ recording \in BOOLEAN /\ (recording <=> pc \in {"record", "close", "transcribe"})

(* The clock of a recording runs from 0 to VadMax.                          *)
Recorder == vad.elapsed \in 0 .. VadMax

(* What a command led to is remembered until the answer has been spoken.    *)
Remembered == done[1] = "local" => pc = "answer" /\ done[2] \in said

(* The detector is armed only after a quiet block.                          *)
Detector ==
  /\ armed \in BOOLEAN /\ dip \in BOOLEAN
  /\ armed => dip
  /\ first \in Nat \cup {None}

VoiceInv == Places /\ Recorder /\ Remembered /\ Detector

LEMMA NoneIsNoWord == /\ None # "local" /\ "exit" # "local"
                     /\ <<None, None>>[1] = None /\ <<"exit", None>>[1] = "exit"
BY NoneAssumption

LEMMA VoiceInitHolds == VoiceInit => VoiceInv
<1> SUFFICES ASSUME VoiceInit PROVE VoiceInv
  OBVIOUS
<1>1. Recorder
  BY VadAssumption DEF VoiceInit, Recorder, Fresh
<1>2. Places /\ Detector
  BY DEF VoiceInit, Places, Detector
<1>3. Remembered
  BY NoneIsNoWord DEF VoiceInit, Remembered
<1> QED
  BY <1>1, <1>2, <1>3 DEF VoiceInv

LEMMA EndSessionKeeps ==
  ASSUME VoiceInv, EndSession,
         UNCHANGED recording, pc \notin {"record", "close", "transcribe"},
         UNCHANGED vad,
         done'[1] # "local"
  PROVE  VoiceInv'
BY DEF VoiceInv, Places, Recorder, Remembered, Detector, EndSession

LEMMA HearBlockKeeps ==
  ASSUME VoiceInv, NEW level \in Levels, HearBlock(level)
  PROVE  VoiceInv'
<1> DEFINE age     == IF first = None THEN None ELSE Older(first, MaxGap + 1)
           rested  == Older(calm, Cooldown)
           rearmed == armed \/ level = "quiet"
           counts  == Counts(level, rearmed, rested)
           double  == counts /\ Double(age)
<1>1. /\ mode = "clap"
      /\ armed' = (rearmed /\ ~counts)
      /\ dip' = ((dip /\ ~counts) \/ level = "quiet")
      /\ first' = IF ~counts THEN age
                  ELSE IF age = None \/ age > MaxGap THEN 0
                  ELSE IF double THEN None ELSE age
      /\ IF double
           THEN /\ mode' = "session" /\ pc' = "greet" /\ locked' = TRUE
                /\ done' = <<None, None>>
                /\ UNCHANGED <<recording, vad, said>>
           ELSE UNCHANGED <<mode, sessionVars>>
  BY DEF HearBlock
<1>2. counts => level # "quiet"
  BY DEF Counts
<1>3. age \in Nat \cup {None}
  BY ClapAssumption DEF Older, VoiceInv, Detector
<1>4. Detector'
  <2> HIDE DEF age, rested, counts, double
  <2> QED
    BY <1>1, <1>2, <1>3 DEF Detector, VoiceInv
<1>5. (Places /\ Recorder /\ Remembered)'
  <2> HIDE DEF age, rested, rearmed, counts, double
  <2>1. CASE double
    BY <2>1, <1>1, NoneIsNoWord
       DEF VoiceInv, Places, Recorder, Remembered, SessionPlaces
  <2>2. CASE ~double
    BY <2>2, <1>1 DEF VoiceInv, Places, Recorder, Remembered, sessionVars
  <2> QED
    BY <2>1, <2>2
<1> QED
  BY <1>4, <1>5 DEF VoiceInv

(* A local command has a target among the words that name one.              *)
LEMMA LocalNamed ==
  ASSUME NEW words, IsLocal(words)
  PROVE  LocalTarget(words) \in words
BY DEF IsLocal, LocalTarget, Targets

LEMMA ChunkKeeps ==
  ASSUME VoiceInv, NEW loud \in BOOLEAN, Chunk(loud)
  PROVE  VoiceInv'
<1>1. vad.elapsed + 1 \in Nat /\ (~Stopped(vad.elapsed + 1) => vad.elapsed + 1 <= VadMax)
  BY VadAssumption DEF VoiceInv, Recorder, Stopped
<1>2. Recorder'
  BY <1>1, VadAssumption DEF VoiceInv, Recorder, Chunk
<1>3. /\ mode = "session" /\ pc = "record"
      /\ pc' \in {"record", "transcribe", "close"}
      /\ UNCHANGED <<mode, clapVars, locked, recording, said, done>>
  BY DEF Chunk, InSession
<1> QED
  BY <1>2, <1>3
     DEF VoiceInv, Places, Remembered, Detector, SessionPlaces, clapVars

LEMMA RouteKeeps ==
  ASSUME VoiceInv, Route
  PROVE  VoiceInv'
<1>1. /\ mode = "session" /\ pc = "route" /\ ~(done[1] = "local")
      /\ UNCHANGED <<recording, vad>>
  BY DEF Route, InSession, VoiceInv, Remembered
<1>2. CASE /\ pc' = "last" /\ done' = <<"exit", None>>
           /\ UNCHANGED <<mode, locked, clapVars>>
  BY <1>1, <1>2 DEF VoiceInv, Places, Recorder, Remembered, Detector, SessionPlaces, clapVars
<1>3. ASSUME NEW what \in {"switch", "tell", "local", "engine"}, NEW detail, Reply(<<what, detail>>),
             what = "local" => detail \in said
      PROVE  VoiceInv'
  <2>1. mode' = "session" /\ pc' = "answer" /\ done' = <<what, detail>>
        /\ UNCHANGED <<mode, locked, clapVars>>
    BY <1>1, <1>3 DEF Reply
  <2>2. said' = said
    BY <2>1 DEF Route
  <2> QED
    BY <1>1, <1>3, <2>1, <2>2
       DEF VoiceInv, Places, Recorder, Remembered, Detector, SessionPlaces, clapVars
<1>4. CASE EndSession /\ UNCHANGED done
  BY <1>1, <1>4, EndSessionKeeps
<1>5. \/ /\ pc' = "last" /\ done' = <<"exit", None>>
         /\ UNCHANGED <<mode, locked, clapVars>>
      \/ Reply(<<"switch", engine'>>)
      \/ Reply(<<"tell", engine>>)
      \/ IsLocal(said) /\ Reply(<<"local", LocalTarget(said)>>)
      \/ EndSession /\ UNCHANGED done
      \/ Reply(<<"engine", Asked(engine)>>)
  BY DEF Route
<1> QED
  BY <1>2, <1>3, <1>4, <1>5, LocalNamed

LEMMA VoiceStepKeeps == VoiceInv /\ [VoiceNext]_voiceVars => VoiceInv'
<1> SUFFICES ASSUME VoiceInv, [VoiceNext]_voiceVars PROVE VoiceInv'
  OBVIOUS
<1> USE DEF SessionPlaces
<1>1. ASSUME NEW level \in Levels, HearBlock(level) PROVE VoiceInv'
  BY <1>1, HearBlockKeeps
<1>2. CASE Speak
  <2>1. mode = "session" /\ pc \in {"greet", "answer", "last"} /\ done' = <<None, None>>
        /\ UNCHANGED <<recording, vad>>
    BY <1>2 DEF Speak
  <2>2. CASE EndSession
    BY <2>1, <2>2, NoneIsNoWord, EndSessionKeeps
  <2>3. CASE pc' = "listen" /\ UNCHANGED <<mode, locked, clapVars>>
    BY <2>1, <2>3, NoneIsNoWord
       DEF VoiceInv, Places, Recorder, Remembered, Detector, clapVars
  <2> QED
    BY <1>2, <2>2, <2>3 DEF Speak
<1>3. CASE Listen
  <2>1. Recorder'
    BY <1>3, VadAssumption DEF Listen, Fresh, VoiceInv, Recorder
  <2>2. /\ mode = "session" /\ pc = "listen"
        /\ \/ pc' = "record" /\ recording' = TRUE
           \/ pc' = "unheard" /\ UNCHANGED recording
        /\ UNCHANGED <<mode, clapVars, locked, said, done>>
    BY <1>3 DEF Listen, InSession
  <2>3. (Remembered /\ Detector)'
    BY <2>2 DEF VoiceInv, Remembered, Detector, clapVars
  <2>4. Places'
    <3>1. CASE pc' = "record" /\ recording' = TRUE
      BY <3>1, <2>2 DEF VoiceInv, Places
    <3>2. CASE pc' = "unheard" /\ UNCHANGED recording
      BY <3>2, <2>2 DEF VoiceInv, Places
    <3> QED
      BY <2>2, <3>1, <3>2
  <2> QED
    BY <2>1, <2>3, <2>4 DEF VoiceInv
<1>4. CASE RecorderFails
  BY <1>4 DEF RecorderFails, InSession, VoiceInv, Places, Recorder, Remembered, Detector, clapVars
<1>5. CASE Transcribe
  <2>1. Recorder'
    BY <1>5, VadAssumption DEF Transcribe, Fresh, VoiceInv, Recorder
  <2>2. /\ mode = "session" /\ pc \in {"close", "transcribe"}
        /\ pc' \in {"unheard", "route"} /\ recording' = FALSE
        /\ UNCHANGED <<mode, clapVars, locked, done>>
    BY <1>5 DEF Transcribe, InSession
  <2> QED
    BY <2>1, <2>2 DEF VoiceInv, Places, Remembered, Detector, clapVars
<1>6. CASE Unheard
  <2>1. mode = "session" /\ pc = "unheard" /\ UNCHANGED <<recording, vad, said, done>>
    BY <1>6 DEF Unheard, InSession
  <2>2. CASE EndSession
    BY <2>1, <2>2, EndSessionKeeps DEF VoiceInv, Remembered
  <2>3. CASE pc' = "last" /\ UNCHANGED <<mode, locked, clapVars>>
    BY <2>1, <2>3 DEF VoiceInv, Places, Recorder, Remembered, Detector, clapVars
  <2> QED
    BY <1>6, <2>2, <2>3 DEF Unheard
<1>7. CASE Route
  BY <1>7, RouteKeeps
<1>8. ASSUME NEW loud \in BOOLEAN, Chunk(loud) PROVE VoiceInv'
  BY <1>8, ChunkKeeps
<1>9. CASE Interrupt
  BY <1>9, NoneIsNoWord
     DEF Interrupt, VoiceInv, Places, Recorder, Remembered, Detector, clapVars
<1>10. CASE UNCHANGED voiceVars
  BY <1>10 DEF voiceVars, clapVars, sessionVars, VoiceInv, Places, Recorder,
               Remembered, Detector
<1> QED
  BY <1>1, <1>2, <1>3, <1>4, <1>5, <1>6, <1>7, <1>8, <1>9, <1>10
     DEF VoiceNext, SessionStep

(* However a session goes, its lock, its temporary file, its clock and its  *)
(* local commands are as they should be.                                    *)
THEOREM VoiceSessionSound == VoiceInit /\ [][VoiceNext]_voiceVars => []SessionInv
<1>1. VoiceInv => SessionInv
  BY VadAssumption DEF VoiceInv, SessionInv, Places, Recorder, Remembered
<1> QED
  BY <1>1, VoiceInitHolds, VoiceStepKeeps, PTL

(* What the step that opens a session needs is in the invariant.            *)
LEMMA OpensByDoubleClap ==
  VoiceInv /\ [VoiceNext]_voiceVars =>
    (mode = "clap" /\ mode' = "session" =>
       dip /\ first # None /\ first + 1 \in MinGap .. MaxGap)
<1> SUFFICES ASSUME VoiceInv, [VoiceNext]_voiceVars, mode = "clap", mode' = "session"
             PROVE  dip /\ first # None /\ first + 1 \in MinGap .. MaxGap
  OBVIOUS
<1>1. PICK level \in Levels : HearBlock(level)
  <2>1. ~SessionStep
    BY DEF VoiceInv, Places, SessionStep, Speak, Listen, RecorderFails, Transcribe,
           Unheard, Route, Chunk, InSession
  <2>2. ~Interrupt /\ ~UNCHANGED voiceVars
    BY DEF Interrupt, voiceVars
  <2> QED
    BY <2>1, <2>2 DEF VoiceNext
<1> DEFINE age     == IF first = None THEN None ELSE Older(first, MaxGap + 1)
           rested  == Older(calm, Cooldown)
           rearmed == armed \/ level = "quiet"
<1>2. Counts(level, rearmed, rested) /\ Double(age)
  BY <1>1 DEF HearBlock, sessionVars
<1>3. armed
  BY <1>2 DEF Counts
<1>4. first \in Nat /\ age \in MinGap .. MaxGap
  BY <1>2 DEF Double, VoiceInv, Detector
<1>5. age = IF first >= MaxGap + 1 THEN MaxGap + 1 ELSE first + 1
  BY <1>4, NoneAssumption DEF Older
<1> QED
  BY <1>3, <1>4, <1>5, ClapAssumption, NoneAssumption DEF VoiceInv, Detector

(* Only two claps with a quiet block between them, at the right distance,   *)
(* open a session, for every tuning of the detector.                        *)
THEOREM OnlyDoubleClapOpens ==
  VoiceInit /\ [][VoiceNext]_voiceVars => SessionByDoubleClap
BY OpensByDoubleClap, VoiceInitHolds, VoiceStepKeeps, PTL DEF SessionByDoubleClap
-----------------------------------------------------------------------------
(***************************************************************************)
(* The choice of the microphone.                                           *)
(***************************************************************************)
LEMMA MinOfNumbers ==
  ASSUME NEW S \in SUBSET Nat, S # {}
  PROVE  Min(S) \in S /\ \A y \in S : Min(S) <= y
<1>1. PICK x \in S : \A y \in S : <<y, x>> \notin OpToRel(<, Nat)
  BY NatLessThanWellFounded, WFMin
<1>2. ASSUME NEW y \in S PROVE x <= y
  <2>1. <<y, x>>[1] = y /\ <<y, x>>[2] = x /\ <<y, x>> \in Nat \X Nat
    OBVIOUS
  <2> QED
    BY <1>1, <2>1 DEF OpToRel
<1> QED
  BY <1>2 DEF Min

(* The peak of a probe: nothing is quieter than silence.                    *)
Heard(d) == probed[d] # Nothing

SearchTypeOK ==
  /\ inputs \subseteq Devices /\ usual \in inputs \cup {Nothing}
  /\ wanted = Nothing \/ wanted \in SUBSET Devices
  /\ unprobed \subseteq inputs \ {usual}
  /\ probed \in [Devices -> Peaks]

NothingYet ==
  search = "begin" =>
    unprobed = inputs \ {usual} /\ best = Nothing /\ \A d \in Devices : ~Heard(d)

(* While the others are tried: the default was not heard, best_idx is the   *)
(* loudest of those tried.                                                  *)
LoudestSoFar ==
  search = "scan" =>
    /\ wanted = Nothing
    /\ \A d \in unprobed : ~Heard(d)
    /\ usual # Nothing => ~Audible(probed[usual])
    /\ IF best = Nothing
         THEN \A d \in inputs \ {usual} : ~Heard(d)
         ELSE /\ best \in inputs /\ Heard(best)
              /\ \A d \in inputs \ {usual} : Heard(d) => probed[d] <= probed[best]

SearchInv == SearchTypeOK /\ NothingYet /\ LoudestSoFar /\ MicrophoneHears

LEMMA MicInitHolds == MicInit => SearchInv
<1> SUFFICES ASSUME MicInit PROVE SearchInv
  OBVIOUS
<1>1. SearchTypeOK
  <2>1. wanted = Nothing \/ wanted \in SUBSET Devices
    <3>1. CASE wanted \in SUBSET inputs
      BY <3>1 DEF MicInit
    <3>2. ASSUME NEW e \in Devices, wanted = {e}
          PROVE  wanted \in SUBSET Devices
      BY <3>2
    <3> QED
      BY <3>1, <3>2 DEF MicInit
  <2>2. probed \in [Devices -> Peaks]
    BY DEF MicInit, Peaks
  <2> QED
    BY <2>1, <2>2 DEF MicInit, SearchTypeOK
<1>2. NothingYet /\ LoudestSoFar /\ MicrophoneHears
  BY DEF MicInit, NothingYet, LoudestSoFar, MicrophoneHears, Heard
<1> QED
  BY <1>1, <1>2 DEF SearchInv

LEMMA UseWantedKeeps ==
  ASSUME SearchInv, UseWanted
  PROVE  SearchInv'
<1>1. search = "begin" /\ wanted # Nothing /\ wanted \in SUBSET Devices
      /\ UNCHANGED <<inputs, usual, wanted, unprobed, best>>
  BY DEF UseWanted, SearchInv, SearchTypeOK
<1>2. CASE wanted = {}
  BY <1>1, <1>2 DEF UseWanted, SearchInv, SearchTypeOK, NothingYet, LoudestSoFar, MicrophoneHears
<1>3. CASE wanted # {}
  <2>1. Min(wanted) \in wanted /\ Min(wanted) \in Devices
    BY <1>1, <1>3, MinOfNumbers, MicrophoneAssumption
  <2>2. PICK peak \in Peaks : Choose(Min(wanted)) /\ Hears(Min(wanted), peak)
    BY <1>3 DEF UseWanted
  <2>3. SearchTypeOK'
    BY <1>1, <2>1, <2>2 DEF SearchInv, SearchTypeOK, Hears
  <2> QED
    BY <1>1, <2>1, <2>2, <2>3
       DEF SearchInv, NothingYet, LoudestSoFar, MicrophoneHears, Choose
<1> QED
  BY <1>2, <1>3

LEMMA TryDefaultKeeps ==
  ASSUME SearchInv, TryDefault
  PROVE  SearchInv'
<1>1. /\ search = "begin" /\ wanted = Nothing
      /\ unprobed = inputs \ {usual} /\ best = Nothing /\ \A d \in Devices : ~Heard(d)
      /\ UNCHANGED <<inputs, usual, wanted, unprobed, best>>
      /\ inputs \subseteq Devices /\ usual \in inputs \cup {Nothing}
      /\ probed \in [Devices -> Peaks]
  BY DEF TryDefault, SearchInv, NothingYet, SearchTypeOK
<1>2. CASE usual = Nothing /\ search' = "scan" /\ UNCHANGED <<device, probed>>
  BY <1>1, <1>2
     DEF SearchInv, SearchTypeOK, NothingYet, LoudestSoFar, MicrophoneHears, Heard
<1>3. ASSUME usual # Nothing, NEW peak \in Peaks, Hears(usual, peak),
             IF Audible(peak) THEN Choose(usual) ELSE search' = "scan" /\ UNCHANGED device
      PROVE  SearchInv'
  <2>1. probed' = [probed EXCEPT ![usual] = peak] /\ usual \in Devices
    BY <1>1, <1>3 DEF Hears
  <2>2. SearchTypeOK'
    BY <1>1, <2>1, <1>3 DEF SearchTypeOK
  <2>3. /\ probed'[usual] = peak
        /\ \A d \in Devices \ {usual} : probed'[d] = Nothing
    BY <1>1, <2>1 DEF Heard
  <2>4. CASE Audible(peak)
    <3>1. search' = "chosen" /\ device' = usual
      BY <1>3, <2>4 DEF Choose
    <3>2. MicrophoneHears'
      <4>1. peak \in Nat
        BY <1>3, <2>4, MicrophoneAssumption DEF Audible, Peaks
      <4>2. \A d \in inputs' : probed'[d] # Nothing => probed'[d] <= probed'[device']
        BY <1>1, <2>3, <3>1, <4>1
      <4> QED
        BY <1>1, <2>3, <2>4, <3>1, <4>2 DEF MicrophoneHears, Audible
    <3> QED
      BY <2>2, <3>1, <3>2 DEF SearchInv, NothingYet, LoudestSoFar
  <2>5. CASE ~Audible(peak)
    <3>1. search' = "scan"
      BY <1>3, <2>5
    <3>2. LoudestSoFar'
      BY <1>1, <2>3, <2>5, <3>1 DEF LoudestSoFar, Heard, Audible
    <3> QED
      BY <2>2, <3>1, <3>2 DEF SearchInv, NothingYet, MicrophoneHears
  <2> QED
    BY <2>4, <2>5
<1> QED
  BY <1>2, <1>3 DEF TryDefault

LEMMA ProbeNextKeeps ==
  ASSUME SearchInv, ProbeNext
  PROVE  SearchInv'
<1> DEFINE d == Min(unprobed)
<1>1. /\ search = "scan" /\ unprobed # {} /\ wanted = Nothing
      /\ UNCHANGED <<search, inputs, usual, wanted, device>>
      /\ SearchTypeOK /\ LoudestSoFar /\ inputs \subseteq Devices
      /\ probed \in [Devices -> Peaks]
  BY DEF ProbeNext, SearchInv, LoudestSoFar, SearchTypeOK
<1>2. d \in unprobed /\ d \in Devices /\ d \in inputs /\ d # usual /\ d \in Nat
  BY <1>1, MinOfNumbers, MicrophoneAssumption DEF SearchTypeOK
<1>3. PICK peak \in Peaks : /\ probed' = [probed EXCEPT ![d] = peak]
                            /\ best' = IF Better(peak) THEN d ELSE best
                            /\ unprobed' = unprobed \ {d}
  BY DEF ProbeNext, Hears
<1> HIDE DEF d
<1>4. SearchTypeOK'
  BY <1>1, <1>2, <1>3 DEF SearchTypeOK
<1>5. probed'[d] = peak /\ \A e \in Devices \ {d} : probed'[e] = probed[e]
  BY <1>1, <1>2, <1>3
<1>6. ~Heard(d) /\ (best # Nothing => best # d /\ best \in inputs)
  BY <1>1, <1>2 DEF LoudestSoFar
<1>7. LoudestSoFar'
  <2>1. /\ \A e \in unprobed' : ~Heard(e)'
        /\ usual # Nothing => ~Audible(probed'[usual])
    BY <1>1, <1>2, <1>3, <1>5, MicrophoneAssumption DEF LoudestSoFar, SearchTypeOK, Heard
  <2>2. CASE Better(peak)
    <3>1. best' = d /\ peak # Nothing /\ peak \in Nat
      BY <1>3, <2>2, MicrophoneAssumption DEF Better, Peaks
    <3>2. \A e \in inputs \ {usual} : probed'[e] # Nothing => probed'[e] <= peak
      <4> SUFFICES ASSUME NEW e \in inputs \ {usual}, probed'[e] # Nothing
                   PROVE  probed'[e] <= peak
        OBVIOUS
      <4>1. CASE e = d
        BY <4>1, <1>5, <3>1
      <4>2. CASE e # d
        <5>1. probed'[e] = probed[e] /\ Heard(e) /\ probed[e] \in Nat
          BY <4>2, <1>1, <1>5, MicrophoneAssumption DEF Heard, Peaks
        <5>2. best # Nothing /\ probed[e] <= probed[best] /\ Heard(best) /\ best \in Devices
          BY <5>1, <1>1 DEF LoudestSoFar
        <5>3. probed[best] \in Nat
          BY <5>2, <1>1, MicrophoneAssumption DEF Heard, Peaks
        <5> QED
          BY <5>1, <5>2, <5>3, <2>2, <3>1 DEF Better
      <4> QED
        BY <4>1, <4>2
    <3> QED
      BY <1>1, <1>2, <1>5, <2>1, <3>1, <3>2, MicrophoneAssumption DEF LoudestSoFar, Heard
  <2>3. CASE ~Better(peak)
    <3>1. best' = best
      BY <1>3, <2>3
    <3>2. CASE best = Nothing
      <4>1. peak = Nothing
        BY <2>3, <3>2 DEF Better
      <4> QED
        BY <1>1, <1>5, <2>1, <3>1, <3>2, <4>1 DEF LoudestSoFar, Heard
    <3>3. CASE best # Nothing
      <4>0. best \in Devices /\ best # d /\ Heard(best)
        BY <1>1, <1>6, <3>3 DEF LoudestSoFar
      <4>1. probed'[best] = probed[best] /\ probed[best] \in Nat
        BY <1>1, <1>5, <4>0, MicrophoneAssumption DEF Heard, Peaks
      <4>2. peak # Nothing => peak \in Nat /\ peak <= probed[best]
        BY <2>3, <3>3, <4>1, MicrophoneAssumption DEF Better, Peaks
      <4>3. \A e \in inputs \ {usual} : probed'[e] # Nothing => probed'[e] <= probed[best]
        BY <1>1, <1>5, <3>3, <4>2 DEF LoudestSoFar, Heard
      <4> QED
        BY <1>1, <2>1, <3>1, <3>3, <4>1, <4>3 DEF LoudestSoFar, Heard
    <3> QED
      BY <3>2, <3>3
  <2> QED
    BY <2>2, <2>3
<1> QED
  BY <1>1, <1>4, <1>7 DEF SearchInv, NothingYet, MicrophoneHears

LEMMA ScanEndsKeeps ==
  ASSUME SearchInv, ScanEnds
  PROVE  SearchInv'
<1>1. /\ search = "scan" /\ unprobed = {} /\ wanted = Nothing
      /\ UNCHANGED <<inputs, usual, wanted, unprobed, probed, best>>
      /\ SearchTypeOK /\ LoudestSoFar /\ inputs \subseteq Devices
      /\ probed \in [Devices -> Peaks] /\ usual \in inputs \cup {Nothing}
  BY DEF ScanEnds, SearchInv, LoudestSoFar, SearchTypeOK
<1>2. search' # "begin" /\ search' # "scan"
  BY DEF ScanEnds, Choose
<1>3. \A e \in inputs : Heard(e) => probed[e] \in Nat
  BY <1>1, MicrophoneAssumption DEF Heard, Peaks
<1>4. MicrophoneHears'
  <2>1. CASE best # Nothing /\ Audible(probed[best])
    <3>1. search' = "chosen" /\ device' = best
      BY <2>1 DEF ScanEnds, Choose
    <3>2. best \in inputs /\ probed[best] \in Nat /\ probed[best] >= Silent
      BY <1>1, <1>3, <2>1 DEF LoudestSoFar, Audible
    <3>3. \A e \in inputs : Heard(e) => probed[e] <= probed[best]
      <4> SUFFICES ASSUME NEW e \in inputs, Heard(e), e = usual
                   PROVE  probed[e] <= probed[best]
        BY <1>1, <2>1 DEF LoudestSoFar
      <4>1. e # Nothing /\ probed[e] \in Nat
        BY <1>1, <1>3, MicrophoneAssumption
      <4>2. probed[e] < Silent
        BY <1>1, <4>1, MicrophoneAssumption DEF LoudestSoFar, Audible, Heard
      <4> QED
        BY <3>2, <4>1, <4>2, MicrophoneAssumption
    <3> QED
      BY <1>1, <2>1, <3>1, <3>3 DEF MicrophoneHears, Heard
  <2>2. CASE ~(best # Nothing /\ Audible(probed[best]))
    <3>1. \A e \in inputs : ~Audible(probed[e])
      <4> SUFFICES ASSUME NEW e \in inputs, e # usual, Heard(e)
                   PROVE  probed[e] < Silent
        BY <1>1, <1>3, MicrophoneAssumption DEF LoudestSoFar, Audible, Heard
      <4>1. best # Nothing /\ probed[e] <= probed[best] /\ probed[best] \in Nat
        BY <1>1, <1>3 DEF LoudestSoFar
      <4> QED
        BY <4>1, <1>3, <2>2, <1>1, MicrophoneAssumption DEF Audible
    <3>2. CASE usual # Nothing
      BY <1>1, <2>2, <3>1, <3>2 DEF ScanEnds, Choose, MicrophoneHears
    <3>3. CASE usual = Nothing /\ inputs # {}
      <4>1. Min(inputs) \in inputs
        BY <1>1, <3>3, MinOfNumbers, MicrophoneAssumption
      <4> QED
        BY <1>1, <2>2, <3>1, <3>3, <4>1 DEF ScanEnds, Choose, MicrophoneHears
    <3>4. CASE usual = Nothing /\ inputs = {}
      BY <1>1, <2>2, <3>4 DEF ScanEnds, MicrophoneHears
    <3> QED
      BY <3>2, <3>3, <3>4
  <2> QED
    BY <2>1, <2>2
<1>5. SearchTypeOK'
  BY <1>1 DEF SearchTypeOK
<1> QED
  BY <1>2, <1>4, <1>5 DEF SearchInv, NothingYet, LoudestSoFar

LEMMA MicStepKeeps == SearchInv /\ [MicNext]_micVars => SearchInv'
<1> SUFFICES ASSUME SearchInv, [MicNext]_micVars PROVE SearchInv'
  OBVIOUS
<1>1. CASE UNCHANGED micVars
  BY <1>1 DEF micVars, SearchInv, SearchTypeOK, NothingYet, LoudestSoFar, MicrophoneHears, Heard
<1> QED
  BY <1>1, UseWantedKeeps, TryDefaultKeeps, ProbeNextKeeps, ScanEndsKeeps DEF MicNext

(* The microphone is the one asked for, or the loudest that was heard; it   *)
(* is a deaf one only when all are deaf, and the program gives up only      *)
(* where there is none.                                                     *)
THEOREM MicrophoneChosenWell == MicInit /\ [][MicNext]_micVars => []MicrophoneHears
<1>1. SearchInv => MicrophoneHears
  BY DEF SearchInv
<1> QED
  BY <1>1, MicInitHolds, MicStepKeeps, PTL
-----------------------------------------------------------------------------
(***************************************************************************)
(* The history of the chat behind COMMAND_LOCK.                            *)
(***************************************************************************)
History == Seq(Clients \X Roles)

Stations == {"idle", "lock", "enter", "open", "write", "replace", "ask", "engine",
            "settle", "kept", "failed", "raised", "answered", "told", "error"}

(* Inside run(), or on the way out of it.                                   *)
Inside == {"enter", "open", "write", "replace", "ask", "engine", "settle", "kept",
           "failed", "raised"}
Saving == {"open", "write", "replace"}

ChatTypeOK ==
  /\ step \in [Clients -> Stations] /\ phase \in [Clients -> Phases]
  /\ shot \in [Clients -> History] /\ inode \in [Clients -> Inodes \cup {NoOne}]
  /\ messages \in History
  /\ file \in Inodes \cup {NoOne} /\ tmp \in Inodes \cup {NoOne}
  /\ data \in [Inodes -> History \cup {Torn}]

(* One client at a time is inside.                                          *)
Excluded == \A c \in Clients : step[c] \in Inside => lock = c

(* The file and its sibling are different inodes, and the sibling holds     *)
(* what the client that is inside has put there.                            *)
Disk ==
  /\ file # NoOne => file # tmp /\ data[file] # Torn
  /\ \A c \in Clients :
       /\ step[c] \in Saving => shot[c] = messages
       /\ step[c] \in {"write", "replace"} => tmp # NoOne /\ inode[c] = tmp
       /\ step[c] = "write" => data[tmp] = Torn
       /\ step[c] = "replace" => data[tmp] = shot[c]

Questioned(history, c) == \E k \in DOMAIN history : history[k] = <<c, "user">>

(* How much of a request is in the memory and in the file where it stands.  *)
Progress ==
  \A c \in Clients :
    /\ step[c] = "engine" => Questioned(messages, c)
    /\ step[c] \in Saving /\ phase[c] # "before" => Has(messages, c)
    /\ step[c] \in {"settle", "kept", "answered"} => Has(messages, c) /\ Has(Loaded, c)

ChatInv == ChatTypeOK /\ Excluded /\ Disk /\ Progress

LEMMA ChatInitHolds == RuntimeInit => ChatInv
<1> SUFFICES ASSUME RuntimeInit PROVE ChatInv
  OBVIOUS
<1>1. <<>> \in History
  BY EmptySeq DEF History
<1>2. ChatTypeOK
  BY <1>1 DEF RuntimeInit, ChatTypeOK, Stations, Phases, Inodes
<1>3. Excluded /\ Disk /\ Progress
  BY DEF RuntimeInit, Excluded, Disk, Progress, Inside, Saving
<1> QED
  BY <1>2, <1>3 DEF ChatInv

(* What a history holds it holds when something is added at its end.        *)
LEMMA LongerHas ==
  ASSUME NEW h \in History, NEW m \in Clients \X Roles
  PROVE  /\ Append(h, m) \in History
         /\ \E k \in DOMAIN Append(h, m) : Append(h, m)[k] = m
         /\ \A k \in DOMAIN h : k \in DOMAIN Append(h, m) /\ Append(h, m)[k] = h[k]
<1>1. h \in Seq(Clients \X Roles)
  BY DEF History
<1>2. /\ Append(h, m) \in Seq(Clients \X Roles) /\ Len(Append(h, m)) = Len(h) + 1
      /\ \A i \in 1 .. Len(h) : Append(h, m)[i] = h[i]
      /\ Append(h, m)[Len(h) + 1] = m
  BY <1>1, AppendProperties
<1>3. /\ DOMAIN h = 1 .. Len(h) /\ Len(h) \in Nat
      /\ DOMAIN Append(h, m) = 1 .. Len(h) + 1
  BY <1>1, <1>2, LenProperties
<1> QED
  BY <1>2, <1>3 DEF History

LEMMA HistoryNotTorn == ASSUME NEW h \in History PROVE h # Torn
<1> SUFFICES ASSUME h = Torn PROVE FALSE
  OBVIOUS
<1>1. Len(h) = 1 /\ h[1] = <<NoOne, "torn">>
  BY DEF Torn
<1>2. h[1] \in Clients \X Roles
  BY <1>1, ElementOfSeq DEF History
<1> QED
  BY <1>1, <1>2, NoOneAssumption

(* A step of the client that is inside.                                     *)
LEMMA InsideKeeps ==
  ASSUME ChatInv, NEW c \in Clients, step[c] \in Inside, NEW at,
         step' = [step EXCEPT ![c] = at], ChatTypeOK',
         at \in Inside => lock' = c,
         file' # NoOne => file' # tmp' /\ data'[file'] # Torn,
         at \in Saving => shot'[c] = messages',
         at \in {"write", "replace"} => tmp' # NoOne /\ inode'[c] = tmp',
         at = "write" => data'[tmp'] = Torn,
         at = "replace" => data'[tmp'] = shot'[c],
         at = "engine" => Questioned(messages', c),
         at \in Saving /\ phase'[c] # "before" => Has(messages', c),
         at \in {"settle", "kept", "answered"} => Has(messages', c) /\ Has(Loaded', c),
         \A d \in Clients : Has(messages, d) => Has(messages', d),
         \A d \in Clients : Has(messages, d) /\ Has(Loaded, d) => Has(Loaded', d)
  PROVE  ChatInv'
<1>1. step \in [Clients -> Stations] /\ step'[c] = at
      /\ \A d \in Clients \ {c} : step'[d] = step[d]
  BY DEF ChatInv, ChatTypeOK
<1>2. \A d \in Clients \ {c} : step[d] \notin Inside
  BY DEF ChatInv, Excluded
<1>3. Excluded'
  BY <1>1, <1>2 DEF Excluded
<1>4. Disk'
  BY <1>1, <1>2 DEF Disk, Inside, Saving
<1>5. Progress'
  <2> SUFFICES ASSUME NEW d \in Clients
               PROVE  /\ step'[d] = "engine" => Questioned(messages', d)
                      /\ step'[d] \in Saving /\ phase'[d] # "before" => Has(messages', d)
                      /\ step'[d] \in {"settle", "kept", "answered"} =>
                           Has(messages', d) /\ Has(Loaded', d)
    BY DEF Progress
  <2>1. CASE d = c
    BY <2>1, <1>1
  <2>2. CASE d # c
    <3>1. step'[d] \notin Inside /\ step'[d] = step[d]
      BY <1>1, <1>2, <2>2
    <3>2. step[d] = "answered" => Has(messages, d) /\ Has(Loaded, d)
      BY DEF ChatInv, Progress
    <3> QED
      BY <3>1, <3>2 DEF Inside, Saving
  <2> QED
    BY <2>1, <2>2
<1> QED
  BY <1>3, <1>4, <1>5 DEF ChatInv

(* A step that changes neither the history nor the disk.                    *)
LEMMA QuietStepKeeps ==
  ASSUME ChatInv, NEW c \in Clients, step[c] \in Inside,
         NEW at \in Stations \ Saving, step' = [step EXCEPT ![c] = at],
         UNCHANGED <<phase, shot, inode, messages, file, tmp, data>>,
         at \in Inside => lock' = c,
         at = "engine" => Questioned(messages, c),
         at \in {"settle", "kept", "answered"} => Has(messages, c) /\ Has(Loaded, c)
  PROVE  ChatInv'
<1>1. ChatTypeOK'
  BY DEF ChatInv, ChatTypeOK
<1>2. Loaded' = Loaded
  BY DEF Loaded
<1>3. file' # NoOne => file' # tmp' /\ data'[file'] # Torn
  BY DEF ChatInv, Disk
<1> QED
  BY <1>1, <1>2, <1>3, InsideKeeps DEF Saving

(* A step by which the client that is inside begins to write the history,   *)
(* to which something may have been added.                                  *)
LEMMA BeginSaveKeeps ==
  ASSUME ChatInv, NEW c \in Clients, step[c] \in Inside, NEW which \in Phases,
         messages' \in History, BeginSave(c, which, messages'),
         UNCHANGED <<inode, lock, file, tmp, data>>,
         which # "before" => Has(messages', c),
         \A d \in Clients : Has(messages, d) => Has(messages', d)
  PROVE  ChatInv'
<1>1. step' = [step EXCEPT ![c] = "open"] /\ phase' = [phase EXCEPT ![c] = which]
      /\ shot' = [shot EXCEPT ![c] = messages']
  BY DEF BeginSave, Go
<1>2. ChatTypeOK'
  BY <1>1 DEF ChatInv, ChatTypeOK, Stations
<1>3. Loaded' = Loaded
  BY DEF Loaded
<1>4. file' # NoOne => file' # tmp' /\ data'[file'] # Torn
  BY DEF ChatInv, Disk
<1>5. lock' = c /\ shot'[c] = messages' /\ phase'[c] = which
  BY <1>1 DEF ChatInv, Excluded, ChatTypeOK
<1> QED
  BY <1>1, <1>2, <1>3, <1>4, <1>5, InsideKeeps DEF Saving

LEMMA OpenKeeps ==
  ASSUME ChatInv, NEW c \in Clients, Open(c)
  PROVE  ChatInv'
<1> DEFINE i == IF tmp = NoOne THEN NewInode(c) ELSE tmp
<1>1. /\ step[c] = "open" /\ step' = [step EXCEPT ![c] = "write"]
      /\ tmp' = i /\ inode' = [inode EXCEPT ![c] = i]
      /\ data' = [data EXCEPT ![i] = Torn]
      /\ UNCHANGED <<phase, shot, lock, messages, file>>
  BY DEF Open, Go, memVars
<1>2. i \in Inodes /\ i # NoOne /\ i # file
  <2>1. CASE tmp = NoOne
    <3>1. \E j \in {c} \X {0, 1} : j # file
      <4>1. <<c, 0>> \in {c} \X {0, 1} /\ <<c, 1>> \in {c} \X {0, 1} /\ <<c, 0>> # <<c, 1>>
        OBVIOUS
      <4> QED
        BY <4>1
    <3>2. NewInode(c) \in {c} \X {0, 1} /\ NewInode(c) # file
      BY <3>1 DEF NewInode
    <3> QED
      BY <2>1, <3>2, NoOneAssumption DEF Inodes
  <2>2. CASE tmp # NoOne
    BY <2>2 DEF ChatInv, ChatTypeOK, Disk
  <2> QED
    BY <2>1, <2>2
<1> HIDE DEF i
<1>3. ChatTypeOK'
  BY <1>1, <1>2 DEF ChatInv, ChatTypeOK, Stations
<1>4. /\ data'[i] = Torn /\ \A j \in Inodes \ {i} : data'[j] = data[j]
      /\ inode'[c] = i /\ step[c] \in Inside /\ lock = c /\ shot[c] = messages
      /\ phase[c] # "before" => Has(messages, c)
  BY <1>1, <1>2 DEF ChatInv, ChatTypeOK, Excluded, Disk, Progress, Inside, Saving
<1>5. file # NoOne => data'[file] = data[file] /\ data[file] # Torn /\ file \in Inodes
  BY <1>2, <1>4 DEF ChatInv, ChatTypeOK, Disk
<1>6. Loaded' = Loaded
  BY <1>1, <1>5 DEF Loaded
<1> QED
  BY <1>1, <1>2, <1>3, <1>4, <1>5, <1>6, InsideKeeps

LEMMA WriteKeeps ==
  ASSUME ChatInv, NEW c \in Clients, Write(c)
  PROVE  ChatInv'
<1>1. /\ step[c] = "write" /\ step' = [step EXCEPT ![c] = "replace"]
      /\ data' = [data EXCEPT ![inode[c]] = Overwritten(data[inode[c]], shot[c])]
      /\ UNCHANGED <<phase, shot, inode, lock, messages, file, tmp>>
  BY DEF Write, Go, memVars
<1>2. /\ tmp # NoOne /\ tmp \in Inodes /\ inode[c] = tmp /\ data[tmp] = Torn
      /\ shot[c] = messages /\ shot[c] \in History /\ step[c] \in Inside /\ lock = c
      /\ phase[c] # "before" => Has(messages, c)
  BY <1>1 DEF ChatInv, ChatTypeOK, Excluded, Disk, Progress, Inside, Saving
<1>3. data' = [data EXCEPT ![tmp] = shot[c]]
  BY <1>1, <1>2 DEF Overwritten
<1>4. ChatTypeOK'
  BY <1>1, <1>2, <1>3 DEF ChatInv, ChatTypeOK, Stations
<1>5. data'[tmp] = shot[c] /\ \A j \in Inodes \ {tmp} : data'[j] = data[j]
  BY <1>2, <1>3 DEF ChatInv, ChatTypeOK
<1>6. file # NoOne => file # tmp /\ data'[file] = data[file] /\ data[file] # Torn
  BY <1>5 DEF ChatInv, ChatTypeOK, Disk
<1>7. Loaded' = Loaded
  BY <1>1, <1>6 DEF Loaded
<1> QED
  BY <1>1, <1>2, <1>4, <1>5, <1>6, <1>7, InsideKeeps

LEMMA ReplaceKeeps ==
  ASSUME ChatInv, NEW c \in Clients, Replace(c)
  PROVE  ChatInv'
<1>1. step[c] = "replace"
  BY DEF Replace
<1>2. /\ tmp # NoOne /\ tmp \in Inodes /\ data[tmp] = shot[c]
      /\ shot[c] = messages /\ messages \in History /\ step[c] \in Inside /\ lock = c
      /\ phase[c] # "before" => Has(messages, c)
  BY <1>1 DEF ChatInv, ChatTypeOK, Excluded, Disk, Progress, Inside, Saving
<1>3. /\ step' = [step EXCEPT ![c] = AfterSave(c)] /\ AfterSave(c) \in {"ask", "settle"}
      /\ AfterSave(c) = "settle" => phase[c] # "before"
      /\ file' = tmp /\ tmp' = NoOne /\ inode' = [inode EXCEPT ![c] = NoOne]
      /\ UNCHANGED <<phase, shot, lock, messages, data>>
  BY <1>1, <1>2 DEF Replace, Go, AfterSave, memVars
<1>4. ChatTypeOK'
  BY <1>2, <1>3 DEF ChatInv, ChatTypeOK, Stations
<1>5. messages # Torn
  BY <1>2, HistoryNotTorn
<1>6. Loaded' = messages
  BY <1>2, <1>3, <1>5 DEF Loaded
<1> QED
  BY <1>2, <1>3, <1>4, <1>5, <1>6, InsideKeeps DEF Saving

LEMMA RaiseKeeps ==
  ASSUME ChatInv, NEW c \in Clients, DiskFails(c)
  PROVE  ChatInv'
<1>1. step[c] \in Inside /\ step' = [step EXCEPT ![c] = "raised"]
      /\ UNCHANGED <<phase, shot, inode, lock, messages, file, tmp, data>>
  BY DEF DiskFails, Raise, Go, Inside, memVars, diskVars
<1> QED
  BY <1>1, QuietStepKeeps DEF ChatInv, Excluded, Stations, Saving

LEMMA RememberKeeps ==
  ASSUME ChatInv, NEW c \in Clients, Remember(c)
  PROVE  ChatInv'
<1> DEFINE both == << <<c, "user">>, <<c, "assistant">> >>
<1>1. messages \in Seq(Clients \X Roles) /\ both \in Seq(Clients \X Roles)
  BY DEF ChatInv, ChatTypeOK, History, Roles
<1>2. Len(both) = 2 /\ both[1] = <<c, "user">> /\ both[2] = <<c, "assistant">>
  OBVIOUS
<1> HIDE DEF both
<1>3. messages' = messages \o both
  BY DEF Remember, both
<1>4. /\ messages' \in History /\ Len(messages') = Len(messages) + 2
      /\ Len(messages) \in Nat
      /\ DOMAIN messages = 1 .. Len(messages) /\ DOMAIN messages' = 1 .. Len(messages')
      /\ \A k \in 1 .. Len(messages) : messages'[k] = messages[k]
      /\ messages'[Len(messages) + 1] = both[1] /\ messages'[Len(messages) + 2] = both[2]
  <2>1. /\ messages' \in Seq(Clients \X Roles) /\ Len(messages') = Len(messages) + 2
        /\ \A k \in 1 .. Len(messages) + 2 :
             messages'[k] = IF k <= Len(messages) THEN messages[k]
                                                  ELSE both[k - Len(messages)]
    <3>1. /\ messages \o both \in Seq(Clients \X Roles)
          /\ Len(messages \o both) = Len(messages) + Len(both)
          /\ \A k \in 1 .. Len(messages) + Len(both) :
               (messages \o both)[k] = IF k <= Len(messages) THEN messages[k]
                                                             ELSE both[k - Len(messages)]
      BY <1>1, ConcatProperties
    <3> QED
      BY <1>2, <1>3, <3>1
  <2>2. /\ DOMAIN messages = 1 .. Len(messages) /\ Len(messages) \in Nat
        /\ DOMAIN messages' = 1 .. Len(messages')
    BY <1>1, <2>1, LenProperties
  <2>3. Len(messages) + 1 - Len(messages) = 1 /\ Len(messages) + 2 - Len(messages) = 2
    BY <2>2
  <2> QED
    BY <2>1, <2>2, <2>3 DEF History
<1>5. Has(messages', c) /\ \A d \in Clients : Has(messages, d) => Has(messages', d)
  <2>1. /\ Len(messages) + 1 \in DOMAIN messages' /\ Len(messages) + 2 \in DOMAIN messages'
        /\ messages'[Len(messages) + 1] = <<c, "user">>
        /\ messages'[Len(messages) + 2] = <<c, "assistant">>
    BY <1>2, <1>4
  <2>2. \A k \in DOMAIN messages : k \in DOMAIN messages' /\ messages'[k] = messages[k]
    BY <1>4
  <2> QED
    BY <2>1, <2>2 DEF Has, Roles
<1>6. /\ step[c] \in Inside /\ BeginSave(c, "memory", messages')
      /\ UNCHANGED <<inode, lock, file, tmp, data>>
  BY DEF Remember, Inside, diskVars
<1> QED
  BY <1>4, <1>5, <1>6, BeginSaveKeeps DEF Phases

LEMMA AskKeeps ==
  ASSUME ChatInv, NEW c \in Clients, Ask(c)
  PROVE  ChatInv'
<1>1. messages \in History /\ <<c, "user">> \in Clients \X Roles
  BY DEF ChatInv, ChatTypeOK, Roles
<1>2. /\ step[c] \in Inside /\ lock = c /\ step' = [step EXCEPT ![c] = "engine"]
      /\ messages' = Append(messages, <<c, "user">>)
      /\ UNCHANGED <<phase, shot, inode, lock, file, tmp, data>>
  BY DEF Ask, Go, Inside, diskVars, ChatInv, Excluded
<1>3. /\ messages' \in History /\ \E k \in DOMAIN messages' : messages'[k] = <<c, "user">>
      /\ \A k \in DOMAIN messages : k \in DOMAIN messages' /\ messages'[k] = messages[k]
  BY <1>1, <1>2, LongerHas
<1>4. Questioned(messages', c) /\ \A d \in Clients : Has(messages, d) => Has(messages', d)
  BY <1>3 DEF Questioned, Has
<1>5. ChatTypeOK'
  BY <1>2, <1>3 DEF ChatInv, ChatTypeOK, Stations
<1>6. file' # NoOne => file' # tmp' /\ data'[file'] # Torn
  BY <1>2 DEF ChatInv, Disk
<1>7. Loaded' = Loaded
  BY <1>2 DEF Loaded
<1> QED
  BY <1>2, <1>4, <1>5, <1>6, <1>7, InsideKeeps DEF Saving

LEMMA EngineReturnsKeeps ==
  ASSUME ChatInv, NEW c \in Clients, NEW result, EngineReturns(c, result)
  PROVE  ChatInv'
<1>1. messages \in History /\ <<c, "assistant">> \in Clients \X Roles
  BY DEF ChatInv, ChatTypeOK, Roles
<1>2. /\ step[c] = "engine" /\ step[c] \in Inside /\ messages' = Append(messages, <<c, "assistant">>)
      /\ BeginSave(c, "after", messages')
      /\ UNCHANGED <<inode, lock, file, tmp, data>>
  BY DEF EngineReturns, Inside, diskVars
<1>3. /\ messages' \in History
      /\ \E k \in DOMAIN messages' : messages'[k] = <<c, "assistant">>
      /\ \A k \in DOMAIN messages : k \in DOMAIN messages' /\ messages'[k] = messages[k]
  BY <1>1, <1>2, LongerHas
<1>4. Questioned(messages, c)
  BY <1>2 DEF ChatInv, Progress
<1>5. Has(messages', c) /\ \A d \in Clients : Has(messages, d) => Has(messages', d)
  BY <1>3, <1>4 DEF Questioned, Has, Roles
<1> QED
  BY <1>2, <1>3, <1>5, BeginSaveKeeps DEF Phases

(* A step of a client that is not inside, into or out of the queue.         *)
LEMMA OutsideKeeps ==
  ASSUME ChatInv, NEW c \in Clients, Locked = TRUE, Post(c) \/ Acquire(c)
  PROVE  ChatInv'
<1>1. UNCHANGED <<phase, shot, inode, messages, file, tmp, data>>
  BY DEF Post, Acquire, memVars, diskVars
<1>2. \/ step' = [step EXCEPT ![c] = "lock"] /\ lock' = lock
      \/ step' = [step EXCEPT ![c] = "enter"] /\ lock = NoOne /\ lock' = c
  <2>1. CASE Post(c)
    <3>1. Go(c, "lock") /\ lock' = lock
      BY <2>1 DEF Post, memVars
    <3> QED
      BY <3>1 DEF Go
  <2>2. CASE Acquire(c)
    BY <2>2 DEF Acquire, Go
  <2> QED
    BY <2>1, <2>2
<1>3. Loaded' = Loaded
  BY <1>1 DEF Loaded
<1>4. ChatTypeOK' /\ step \in [Clients -> Stations]
  BY <1>1, <1>2 DEF ChatInv, ChatTypeOK, Stations
<1>5. \A d \in Clients \ {c} : step'[d] = step[d]
  BY <1>2, <1>4
<1>6. step'[c] \in {"lock", "enter"}
  BY <1>2, <1>4
<1>7. Excluded'
  <2>1. CASE step' = [step EXCEPT ![c] = "lock"] /\ lock' = lock
    BY <2>1, <1>4 DEF ChatInv, Excluded, Inside
  <2>2. CASE step' = [step EXCEPT ![c] = "enter"] /\ lock = NoOne /\ lock' = c
    <3>1. \A d \in Clients : step[d] \notin Inside
      BY <2>2, NoOneAssumption DEF ChatInv, Excluded
    <3> QED
      BY <2>2, <3>1, <1>5 DEF Excluded
  <2> QED
    BY <1>2, <2>1, <2>2
<1>8. Disk'
  BY <1>1, <1>5, <1>6 DEF ChatInv, Disk, Saving
<1>9. Progress'
  BY <1>1, <1>3, <1>5, <1>6 DEF ChatInv, Progress, Saving
<1> QED
  BY <1>4, <1>7, <1>8, <1>9 DEF ChatInv

(* Only what is on the disk outlives the server.                            *)
LEMMA RestartKeeps ==
  ASSUME ChatInv, Restart
  PROVE  ChatInv'
<1>1. /\ step' = [c \in Clients |->
                  IF step[c] \in {"answered", "told", "error"} THEN step[c] ELSE "idle"]
      /\ phase' = [c \in Clients |-> "before"] /\ shot' = [c \in Clients |-> <<>>]
      /\ inode' = [c \in Clients |-> NoOne] /\ messages' = Loaded
      /\ UNCHANGED <<file, tmp, data>>
  BY DEF Restart, diskVars
<1>2. <<>> \in History
  BY EmptySeq DEF History
<1>3. Loaded \in History /\ Loaded' = Loaded
  BY <1>1, <1>2 DEF Loaded, ChatInv, ChatTypeOK
<1>4. ChatTypeOK'
  BY <1>1, <1>2, <1>3 DEF ChatInv, ChatTypeOK, Stations, Phases
<1>5. \A c \in Clients : step'[c] \in {"answered", "told", "error", "idle"}
  BY <1>1
<1>6. \A c \in Clients : step'[c] = "answered" => step[c] = "answered"
  BY <1>1
<1>7. Excluded' /\ Disk'
  BY <1>1, <1>5 DEF Excluded, Disk, Inside, Saving, ChatInv
<1>8. Progress'
  BY <1>1, <1>3, <1>5, <1>6 DEF ChatInv, Progress, Saving
<1> QED
  BY <1>4, <1>7, <1>8 DEF ChatInv

LEMMA ChatStepKeeps ==
  ASSUME Locked = TRUE, ChatInv, [RuntimeNext]_runtimeVars
  PROVE  ChatInv'
<1>1. ASSUME NEW c \in Clients, ClientStep(c) PROVE ChatInv'
  <2>1. CASE Enter(c)
    <3>1. step[c] \in Inside /\ BeginSave(c, "before", messages') /\ messages' = messages
          /\ UNCHANGED <<inode, lock, file, tmp, data>>
      BY <2>1 DEF Enter, Inside, diskVars
    <3> QED
      BY <3>1, BeginSaveKeeps DEF Phases, ChatInv, ChatTypeOK
  <2>2. CASE EngineRaises(c)
    <3>1. step[c] \in Inside /\ step' = [step EXCEPT ![c] = "failed"]
          /\ UNCHANGED <<phase, shot, inode, lock, messages, file, tmp, data>>
      BY <2>2 DEF EngineRaises, Go, Inside, diskVars
    <3> QED
      BY <3>1, QuietStepKeeps DEF ChatInv, Excluded, Stations, Saving
  <2>3. CASE Settle(c)
    <3>1. step[c] = "settle" /\ step' = [step EXCEPT ![c] = "kept"]
          /\ UNCHANGED <<phase, shot, inode, lock, messages, file, tmp, data>>
      BY <2>3 DEF Settle, Go, diskVars
    <3> QED
      BY <3>1, QuietStepKeeps DEF ChatInv, Excluded, Progress, Stations, Inside, Saving
  <2>4. CASE Release(c)
    <3>1. /\ step[c] \in {"kept", "failed", "raised"}
          /\ step' = [step EXCEPT ![c] = CASE step[c] = "kept"   -> "answered"
                                           [] step[c] = "failed" -> "told"
                                           [] OTHER              -> "error"]
          /\ UNCHANGED <<phase, shot, inode, messages, file, tmp, data>>
      BY <2>4 DEF Release, Go, diskVars
    <3>2. PICK at \in {"answered", "told", "error"} :
            step' = [step EXCEPT ![c] = at] /\ (at = "answered" => step[c] = "kept")
      BY <3>1
    <3> QED
      BY <3>1, <3>2, QuietStepKeeps DEF ChatInv, Progress, Stations, Inside, Saving
  <2> QED
    BY <1>1, <2>1, <2>2, <2>3, <2>4, OutsideKeeps, OpenKeeps, WriteKeeps, ReplaceKeeps,
       RememberKeeps, AskKeeps, EngineReturnsKeeps
       DEF ClientStep
<1>2. CASE Speaking \/ UNCHANGED runtimeVars
  <2>1. UNCHANGED <<step, phase, shot, inode, lock, messages, file, tmp, data>>
    BY <1>2 DEF Speaking, StartSpeaking, StopSpeaking, runtimeVars, runVars, memVars, diskVars
  <2> QED
    BY <2>1 DEF ChatInv, ChatTypeOK, Excluded, Disk, Progress, Loaded
<1> QED
  BY <1>1, <1>2, OutsideKeeps, RaiseKeeps, RestartKeeps DEF RuntimeNext

(* Behind the lock, what a client was told stays in the history and in the  *)
(* file through crashes and failed saves: for any number of clients.        *)
THEOREM AnswersStay ==
  ASSUME Locked = TRUE
  PROVE  RuntimeInit /\ [][RuntimeNext]_runtimeVars => []AnswersKept
<1>1. ChatInv => AnswersKept
  BY DEF ChatInv, Disk, Progress, AnswersKept
<1>2. ChatInv /\ [RuntimeNext]_runtimeVars => ChatInv'
  BY ChatStepKeeps
<1> QED
  BY <1>1, <1>2, ChatInitHolds, PTL
=============================================================================
