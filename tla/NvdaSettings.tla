---------------------------- MODULE NvdaSettings ----------------------------
(***************************************************************************)
(* The settings of the NVDA driver and how they reach the card.  A setting *)
(* is a slider in NVDA and a value on the card.  Each utterance is sent    *)
(* with a prefix of commands; the card obeys them one at a time, and a     *)
(* cancel may drop the rest of them at any point.  The rate boost is not   *)
(* among them: it rewrites the instance's rate table (RateTable) at once.  *)
(*                                                                         *)
(* The card's firmware is external: a voice command loads the preset of    *)
(* that voice and touches nothing else, every other command sets one       *)
(* value, Ctrl-X keeps the settings (dtalk.h, dtalk_stop).  NVDA's base    *)
(* class is external: loadSettings sets the voice, then the other settings *)
(* from the profile, and skips what has not changed when told to.          *)
(***************************************************************************)
EXTENDS RateTable, Sequences, SequencesExt

CONSTANTS
  Voices,        \* the voices of an instance, among 0..7
  Linked,        \* settings a voice presets: "pitch", "articulation",
                 \* "formant", "tone", "expression", "reverb"
  Global,        \* settings it does not: "rate", "volume"
  SliderValues,  \* positions the user gives each slider
  Offset,        \* NVDA's pitch change for capitals
  Profiles,      \* saved profiles: [voice, slider, boost]; values may be stale
  MaxStream      \* bound on the commands and texts still on their way to the
                 \* card when an utterance is added

Settings == Linked \cup Global

ASSUME SettingsAssumption ==
  /\ Voices \subseteq 0..7 /\ 0 \in Voices
  /\ Linked \subseteq {"pitch", "articulation", "formant", "tone", "expression", "reverb"}
  /\ Global \subseteq {"rate", "volume"}
  /\ SliderValues \subseteq Int /\ Offset \in Int /\ MaxStream \in Nat
  /\ Profiles \subseteq [voice : Voices, slider : [Settings -> Int], boost : BOOLEAN]
  /\ {0, RATE_BOOST_MAX} \subseteq Requests


VARIABLES
  voice, slider,   \* the driver's settings
  rateBoost,       \* and its check box for the rate boost
  stream,          \* commands and texts queued and not yet taken by the card
  card             \* the card's settings

table      == <<stock, rom, orig, boost>>
driverVars == <<table, voice, slider, rateBoost, stream, card>>

-----------------------------------------------------------------------------
(* Sliders and card values.                                                *)

Bounded(lo, hi, x) == IF x < lo THEN lo ELSE IF x > hi THEN hi ELSE x

\* Python's round(n / d): to the nearest, ties to the even neighbour.
Round(n, d) == LET q == n \div d
                   r == 2 * (n % d)
               IN  IF r > d \/ (r = d /\ q % 2 = 1) THEN q + 1 ELSE q

\* _mapPitch, _map0to9, and the tone, which is a list of card values.
ToCard(s, x) == CASE s = "pitch" -> Round(x * 99, 100)
                  [] s = "tone"  -> x
                  [] OTHER       -> Bounded(0, 9, x \div 10 - 1)

\* Mutant of ToSlider: the pitch is cut off, not rounded.
ToSliderCut(s, v) == CASE s = "pitch" -> (v * 100) \div 99
                       [] s = "tone"  -> v
                       [] OTHER       -> (v + 1) * 10

\* _cardPitchToNvda, _card0to9ToNvda
ToSlider(s, v) == CASE s = "pitch" -> Round(v * 100, 99)
                    [] s = "tone"  -> v
                    [] OTHER       -> (v + 1) * 10

\* _voicePresets; 5, 6 and 7 are aliases.
PresetRow == [pitch        |-> <<50, 30, 40, 60, 40, 50, 30, 40>>,
              articulation |-> << 5,  4,  4,  8,  5,  5,  4,  4>>,
              formant      |-> << 5,  5,  1,  6,  2,  5,  5,  1>>,
              tone         |-> << 1,  1,  0,  2,  1,  1,  1,  0>>,
              expression   |-> << 5,  7,  6,  4,  5,  5,  7,  6>>,
              reverb       |-> << 0,  2,  0,  0,  6,  0,  2,  0>>]
Preset(v, s) == PresetRow[s][v + 1]

\* The range NVDA checks a saved value against.
MinVal(s) == IF s = "pitch" THEN 0 ELSE 10

\* _clampSavedSetting
Clamped(s, x) == IF s = "tone" THEN x ELSE Bounded(MinVal(s), 100, x)

-----------------------------------------------------------------------------
(* What is sent.  A text carries, as history, the settings it was meant to *)
(* be spoken with.                                                         *)

VoiceCmd(v)  == [is |-> "voice", to |-> v]
SetCmd(s, n) == [is |-> "set", setting |-> s, to |-> n]
NumberMode   == [is |-> "numbers"]
Text(want)   == [is |-> "text", want |-> want]

\* Mutant of Sent: what stands at its default is not sent.
SentOffDefault == {s \in Linked : ToCard(s, slider[s]) # Preset(voice, s)}
                  \cup {s \in Global : slider[s] # 60}

\* The settings the prefix must set: all the voice does not preset, and those
\* moved off its preset.
Sent == {s \in Linked : ToCard(s, slider[s]) # Preset(voice, s)} \cup Global

\* _prefix.  The voice comes first: what it presets would undo the others.
Prefix == <<VoiceCmd(voice), NumberMode>>
          \o SetToSeq({SetCmd(s, ToCard(s, slider[s])) : s \in Sent})

Shown == [voice |-> voice, numbers |-> TRUE,
          at |-> [s \in Settings |-> ToCard(s, slider[s])]]

Raised == ToCard("pitch", Bounded(0, 100, slider["pitch"] + Offset))

-----------------------------------------------------------------------------
DriverInit ==
  /\ Init                       \* of RateTable: an image is loaded
  /\ voice = 0 /\ rateBoost = FALSE
  /\ slider = [s \in Settings |-> IF s \in Global THEN 60 ELSE
                 IF s = "pitch" THEN 50 ELSE ToSlider(s, Preset(0, s))]
  /\ stream = <<>>
  /\ card = [voice |-> 0, numbers |-> FALSE,
             at |-> [s \in Settings |-> IF s \in Global THEN 5 ELSE Preset(0, s)]]

\* __init__ creates the instance before anything else is done with it.
Open == SaveRateTable /\ UNCHANGED <<voice, slider, rateBoost, stream, card>>
Opened == orig # NotSaved

\* Mutant of AfterVoice: it snaps the settings also while restoring.
AfterVoiceSnaps(v, restoring) ==
  [s \in Settings |-> IF s \in Linked THEN ToSlider(s, Preset(v, s)) ELSE slider[s]]

\* _set_voice: what it makes of the sliders.  The linked settings snap to the
\* voice's preset, unless saved settings are being restored.
AfterVoice(v, restoring) ==
  [s \in Settings |-> IF s \in Linked /\ ~restoring THEN ToSlider(s, Preset(v, s)) ELSE slider[s]]

\* The user picks a voice.
SetVoice(v) ==
  /\ voice' = v
  /\ slider' = AfterVoice(v, FALSE)
  /\ UNCHANGED <<table, rateBoost, stream, card>>

SetSlider(s, x) ==
  /\ slider' = [slider EXCEPT ![s] = x]
  /\ UNCHANGED <<table, rateBoost, voice, stream, card>>

\* _set_rateBoost: the strongest boost the library has, or none.
Boosted(enable) ==
  /\ rateBoost' = enable
  /\ IF enable = rateBoost THEN UNCHANGED table
     ELSE SetRateBoost(IF enable THEN RATE_BOOST_MAX ELSE 0)

SetBoost(enable) == Boosted(enable) /\ UNCHANGED <<voice, slider, stream, card>>

\* loadSettings: stale values are clamped, the voice is set under _restoring,
\* then the other settings; with onlyChanged those are left alone whose saved
\* value is the one they had before.
LoadSettings(p, onlyChanged) ==
  /\ voice' = p.voice
  /\ slider' = [s \in Settings |->
       IF onlyChanged /\ slider[s] = Clamped(s, p.slider[s])
         THEN AfterVoice(p.voice, TRUE)[s]
         ELSE Clamped(s, p.slider[s])]
  /\ Boosted(p.boost)
  /\ UNCHANGED <<stream, card>>

\* speak, with or without a capital in the middle of the text: the pitch is
\* raised and then restored by sending the prefix again.
Plain   == Prefix \o <<Text(Shown)>>
Capital == Plain \o <<SetCmd("pitch", Raised), Text([Shown EXCEPT !.at["pitch"] = Raised])>>
                 \o Prefix \o <<Text(Shown)>>

Speak ==
  /\ Len(stream) <= MaxStream
  /\ \/ stream' = stream \o Plain
     \/ "pitch" \in Linked /\ stream' = stream \o Capital
  /\ UNCHANGED <<table, rateBoost, voice, slider, card>>

\* cancel: the queue and the card's buffer are emptied, wherever they are.
Cancel == stream' = <<>> /\ UNCHANGED <<table, rateBoost, voice, slider, card>>

\* The card takes the next command or text.
Obey(c, m) ==
  CASE m.is = "voice"   -> [c EXCEPT !.voice = m.to, !.at = [s \in Settings |->
                              IF s \in Linked THEN Preset(m.to, s) ELSE @[s]]]
    [] m.is = "set"     -> [c EXCEPT !.at[m.setting] = m.to]
    [] m.is = "numbers" -> [c EXCEPT !.numbers = TRUE]
    [] OTHER            -> c

CardTakes ==
  /\ stream # <<>>
  /\ stream' = Tail(stream)
  /\ card' = Obey(card, Head(stream))
  /\ UNCHANGED <<table, rateBoost, voice, slider>>

DriverNext ==
  \/ Open
  \/ /\ Opened
     /\ \/ \E v \in Voices : SetVoice(v)
        \/ \E s \in Settings, x \in SliderValues : x >= MinVal(s) /\ SetSlider(s, x)
        \/ \E b \in BOOLEAN : SetBoost(b)
        \/ \E p \in Profiles, o \in BOOLEAN : LoadSettings(p, o)
        \/ Speak \/ Cancel \/ CardTakes

DriverSpec == DriverInit /\ [][DriverNext]_driverVars

-----------------------------------------------------------------------------
(* Properties.                                                             *)

\* What you see is what you hear (comments of _set_voice and _prefix): when the
\* card comes to a text, its settings are those the sliders showed when the
\* text was sent, whatever was cancelled half-way before and although settings
\* at their preset are not sent.
HeardAsShown ==
  stream # <<>> /\ Head(stream).is = "text" => card = Head(stream).want

\* A voice the user picks comes through untouched: right after the change the
\* prefix overrides none of its presets.
VoiceShowsThrough ==
  [][\A v \in Voices : SetVoice(v) => Linked \cap Sent' = {}]_driverVars

\* Saved settings win over the voice's preset: a restored profile leaves every
\* slider at its saved value, also when only changes are applied, and the
\* instance boosted as the profile says.
RestoreWins ==
  [][\A p \in Profiles, o \in BOOLEAN : LoadSettings(p, o) =>
       /\ \A s \in Settings : slider'[s] = Clamped(s, p.slider[s])
       /\ boost' = IF p.boost THEN RATE_BOOST_MAX ELSE 0]_driverVars
=============================================================================
