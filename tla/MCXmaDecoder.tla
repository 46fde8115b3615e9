------------------------------ MODULE MCXmaDecoder ------------------------------
(* Packets of 2 header and 7 payload bits, lengths of 2 bits, frames of 3 to   *)
(* 10 bits laid out over them.                                                 *)
EXTENDS XmaDecoder

\* Bits k .. l of frame f, bits of padding, a packet, and one of another stream
\* whose frame is f.
Frame(f, k, l) == [i \in 1 .. l - k + 1 |-> <<f, k + i - 1>>]
Pad(n) == [i \in 1 .. n |-> Padding]
P(start, gap, content) == [first |-> start, skip |-> gap, bits |-> content]
Foreign(f) == P(0, 0, Frame(f, 0, 6))

\* Two frames in a packet and a split one, its tail followed by new frames.
Shared ==
    [buffers |-> << <<P(0, 0, Frame(1, 0, 2) \o Frame(2, 0, 2) \o Frame(3, 0, 0))>>,
                    <<P(3, 0, Frame(3, 1, 3) \o Frame(4, 0, 2) \o Pad(1))>> >>,
     starts |-> <<0, 0>>, frames |-> 4,
     length |-> <<3, 3, 4, 3>>, more |-> <<TRUE, TRUE, FALSE, FALSE>>, refused |-> {},
     channels |-> 1, decode |-> 1, skip |-> 0, loopStart |-> 0, loopEnd |-> 0, loopCount |-> 0]

\* The length itself split, a frame over three packets, buffers of one packet.
Long ==
    [buffers |-> << <<P(0, 0, Frame(1, 0, 5) \o Frame(2, 0, 0))>>, <<P(9, 0, Frame(2, 1, 7))>>,
                    <<P(2, 0, Frame(2, 8, 9) \o Frame(3, 0, 3) \o Pad(1))>> >>,
     starts |-> <<0, 0, 0>>, frames |-> 3,
     length |-> <<6, 10, 4>>, more |-> <<TRUE, FALSE, FALSE>>, refused |-> {},
     channels |-> 1, decode |-> 4, skip |-> 1, loopStart |-> 0, loopEnd |-> 0, loopCount |-> 0]

\* Padding behind a whole frame; other streams before, between and behind.
Interleaved ==
    [buffers |-> << <<Foreign(4), P(0, 2, Frame(1, 0, 4) \o Pad(2)), Foreign(4)>>,
                    <<Foreign(4), P(0, 1, Frame(2, 0, 6)), Foreign(4),
                      P(2, 0, Frame(2, 7, 8) \o Frame(3, 0, 3) \o Pad(1))>> >>,
     starts |-> <<1, 1>>, frames |-> 3,
     length |-> <<5, 9, 4, 7>>, more |-> <<FALSE, FALSE, FALSE, FALSE>>, refused |-> {},
     channels |-> 2, decode |-> 2, skip |-> 0, loopStart |-> 0, loopEnd |-> 0, loopCount |-> 0]

\* A frame that ends its packet exactly, a packet of padding, a refused frame.
Refused ==
    [buffers |-> << <<P(0, 1, Frame(1, 0, 6)), Foreign(5), P(9, 2, Pad(7)), Foreign(5)>>,
                    <<Foreign(5), P(0, 0, Frame(2, 0, 2) \o Frame(3, 0, 3)),
                      P(0, 0, Frame(4, 0, 2) \o Pad(4))>> >>,
     starts |-> <<0, 1>>, frames |-> 4,
     length |-> <<7, 3, 4, 3, 7>>, more |-> <<FALSE, TRUE, FALSE, FALSE, FALSE>>, refused |-> {2},
     channels |-> 1, decode |-> 0, skip |-> 3, loopStart |-> 0, loopEnd |-> 0, loopCount |-> 0]

\* A loop whose last frame is split, played thrice and then on.
Loop ==
    [buffers |-> << <<P(0, 0, Frame(1, 0, 3) \o Frame(2, 0, 2)),
                      P(0, 1, Frame(3, 0, 3) \o Frame(4, 0, 2)), Foreign(5),
                      P(2, 0, Frame(4, 3, 4) \o Pad(5))>> >>,
     starts |-> <<0>>, frames |-> 4,
     length |-> <<4, 3, 4, 5, 7>>, more |-> <<TRUE, FALSE, TRUE, FALSE, FALSE>>, refused |-> {},
     channels |-> 1, decode |-> 1, skip |-> 0, loopStart |-> 6, loopEnd |-> 14, loopCount |-> 2]

\* A loop up to the end of the buffer, without end.
Endless ==
    [buffers |-> << <<P(0, 1, Frame(1, 0, 3) \o Frame(2, 0, 2)), Foreign(4),
                      P(2, 0, Frame(2, 3, 4) \o Frame(3, 0, 2) \o Pad(2))>> >>,
     starts |-> <<0>>, frames |-> 3,
     length |-> <<4, 5, 3, 7>>, more |-> <<TRUE, FALSE, FALSE, FALSE>>, refused |-> {},
     channels |-> 1, decode |-> 3, skip |-> 0, loopStart |-> 6, loopEnd |-> 28, loopCount |-> 3]

MCVoices == <<Shared, Long, Interleaved, Refused, Loop, Endless>>
==============================================================================
