--------------------------- MODULE MCNvdaSettings ---------------------------
(* Small instances of NvdaSettings: two voices with different pitches and *)
(* reverbs; profiles with values a former version could save.              *)
EXTENDS NvdaSettings

\* Tables on both sides of a byte, with the extremes and the stock minimum 73.
SomeImages == {<<73, 81, 96, 255, 256, 300, 65535>>}

SomeVoices == {0, 3}
PitchAndReverb == {"pitch", "reverb"}
JustVolume == {"volume"}

Saved == {[voice |-> 3, slider |-> [pitch |-> 61, reverb |-> 10, volume |-> 60], boost |-> TRUE],
          [voice |-> 0, slider |-> [pitch |-> 30, reverb |-> 0, volume |-> 100], boost |-> FALSE]}
=============================================================================
