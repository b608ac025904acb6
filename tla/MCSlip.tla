------------------------------- MODULE MCSlip -------------------------------
EXTENDS Slip

\* Frames that meet the decoders at their worst: a special byte first, last, two
\* of them in a row, and a frame of the greatest length.
HardFrames == {<<"END", "x">>, <<"x", "ESC">>, <<"ESC", "END", "ESC_END">>,
               <<"ESC_ESC", "x", "END">>, <<"x", "END", "x", "ESC">>}

\* Those, every frame of up to two bytes, the shortest below a header, and of three
\* bytes those made of what has to be escaped.
AllFrames ==
  HardFrames \cup UNION {[1..n -> Octets] : n \in 1..2} \cup [1..3 -> {"END", "ESC"}]
=============================================================================
