---------------------------- MODULE MCAudioStreams ----------------------------
(* Small instances of AudioStreams for TLC.                                *)
EXTENDS AudioStreams

\* A window is loud at the bin its middle sample names; its other samples
\* make the energies of the windows differ.  Bin 0 may be silent.
WindowEnergy(w) ==
  [k \in 0..3 |-> CASE k = 0 -> w[1]
                    [] k > 0 /\ w[2] = k -> 8 + w[1] + w[3]
                    [] k > 0 /\ w[2] # k -> IF w[1] + w[2] + w[3] = 0 THEN 0 ELSE 1]

Spectra == [w \in Windows |-> WindowEnergy(w)]

\* Peaks near each other, far apart, at both bins, and silence.
Audio == {
  <<0,0,1,0,0,2,1,0,0,1,2,0,0,0,0,1,0,0,2,0,0,2,1,0,0,0,1,1,0,2,0,0,1,0>>,
  <<1,2,1,1,2,0,1,0,2,2,0,1,0,0,1,0,0,1,2,0,0,1,2,1,0,2>>,
  <<0,0,0,0,0,0,0,0,0,0,0,0,0>> }
==============================================================================
