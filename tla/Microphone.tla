------------------------------ MODULE Microphone ------------------------------
(***************************************************************************)
(* How jarvis.py finds the microphone it listens to before its loop begins *)
(* (_choose_input_device): the one the user asks for, else the default if  *)
(* something is heard through it, else the loudest of the others, else the *)
(* default again or the first there is.  Devices are probed one after the  *)
(* other, for a while each, and may fail to open or to be read.            *)
(***************************************************************************)
EXTENDS Naturals, FiniteSets, FiniteSetsExt

CONSTANTS
  Devices,   \* the sound devices, by number
  Silent,    \* INPUT_SILENT_RMS
  MaxPeak,   \* the loudest a probe can be
  Nothing    \* no device, no peak

ASSUME MicrophoneAssumption ==
  /\ Devices \subseteq Nat /\ IsFiniteSet(Devices) /\ Nothing \notin Nat
  /\ MaxPeak \in Nat /\ Silent \in 1 .. MaxPeak

VARIABLES
  search,    \* "begin", "scan", "chosen" or "gone": the program has ended
  inputs,    \* the devices that can record
  usual,     \* the default input
  wanted,    \* the devices JARVIS_INPUT_DEVICE fits; Nothing if it is unset
  unprobed,  \* what the loop over the inputs has still to probe
  probed,    \* the peak each probe has heard
  best,      \* best_idx
  device     \* the microphone chosen

micVars == <<search, inputs, usual, wanted, unprobed, probed, best, device>>

Peaks == 0 .. MaxPeak \cup {Nothing}
Audible(peak) == peak # Nothing /\ peak >= Silent

(* A name is sought among the inputs, a number may be that of any device.  *)
MicInit ==
  /\ search = "begin" /\ inputs \in SUBSET Devices
  /\ usual \in inputs \cup {Nothing}
  /\ wanted \in {Nothing} \cup (SUBSET inputs) \cup {{d} : d \in Devices}
  /\ unprobed = inputs \ {usual}
  /\ probed = [d \in Devices |-> Nothing]
  /\ best = Nothing /\ device = Nothing

Choose(d) == search' = "chosen" /\ device' = d
Hears(d, peak) == probed' = [probed EXCEPT ![d] = peak]

(* What the user asks for is used whatever its probe says; a name that fits *)
(* no device ends the program.                                              *)
UseWanted ==
  /\ search = "begin" /\ wanted # Nothing
  /\ IF wanted = {}
       THEN search' = "gone" /\ UNCHANGED <<device, probed>>
       ELSE /\ Choose(Min(wanted))
            /\ \E peak \in Peaks : Hears(Min(wanted), peak)
  /\ UNCHANGED <<inputs, usual, wanted, unprobed, best>>

TryDefault ==
  /\ search = "begin" /\ wanted = Nothing
  /\ \/ usual = Nothing /\ search' = "scan" /\ UNCHANGED <<device, probed>>
     \/ /\ usual # Nothing
        /\ \E peak \in Peaks :
             /\ Hears(usual, peak)
             /\ IF Audible(peak) THEN Choose(usual)
                                 ELSE search' = "scan" /\ UNCHANGED device
  /\ UNCHANGED <<inputs, usual, wanted, unprobed, best>>

(* Mutant: the last one that is heard at all.                               *)
BetterIfHeard(peak) == Audible(peak)

(* The first of equally loud ones stays.                                    *)
Better(peak) ==
  peak # Nothing /\ (best = Nothing \/ peak > probed[best])

ProbeNext ==
  /\ search = "scan" /\ unprobed # {}
  /\ LET d == Min(unprobed)
     IN  \E peak \in Peaks :
           /\ Hears(d, peak)
           /\ best' = IF Better(peak) THEN d ELSE best
           /\ unprobed' = unprobed \ {d}
  /\ UNCHANGED <<search, inputs, usual, wanted, device>>

ScanEnds ==
  /\ search = "scan" /\ unprobed = {}
  /\ IF best # Nothing /\ Audible(probed[best]) THEN Choose(best)
     ELSE IF usual # Nothing THEN Choose(usual)
     ELSE IF inputs # {} THEN Choose(Min(inputs))
     ELSE search' = "gone" /\ UNCHANGED device
  /\ UNCHANGED <<inputs, usual, wanted, unprobed, probed, best>>

MicNext == UseWanted \/ TryDefault \/ ProbeNext \/ ScanEnds
-----------------------------------------------------------------------------
MicTypeOK ==
  /\ search \in {"begin", "scan", "chosen", "gone"}
  /\ usual \in inputs \cup {Nothing} /\ unprobed \subseteq inputs
  /\ probed \in [Devices -> Peaks]
  /\ best \in inputs \cup {Nothing} /\ device \in Devices \cup {Nothing}

(* Unless the user decides, the assistant is deaf only if every microphone  *)
(* was: it listens through one that was heard if one was, to the loudest of *)
(* those probed, and it gives up on an input only after probing all of      *)
(* them; it ends only where there is none (jarvis.py:164, 212, 229).        *)
MicrophoneHears ==
  /\ search = "chosen" =>
       \/ wanted # Nothing /\ device \in wanted
       \/ wanted = Nothing /\ Audible(probed[device])
            /\ \A d \in inputs : probed[d] # Nothing => probed[d] <= probed[device]
       \/ wanted = Nothing /\ device \in inputs /\ unprobed = {}
            /\ \A d \in inputs : ~Audible(probed[d])
  /\ search = "gone" => inputs = {} \/ wanted = {}
===============================================================================
