------------------------------ MODULE MCParts ------------------------------
(***************************************************************************)
(* A small instance of each part.                                           *)
(***************************************************************************)
EXTENDS Parts

\* Two regulators under a root; and two without parent or child.
CONSTANTS root, cpu, ddr, apart
TwoChildren == [n \in {root, cpu, ddr} |-> IF n = root THEN None ELSE root]
RootAndOne  == [n \in {root, apart} |-> None]

\* Sound from a DAC, a microphone and a line input, to a speaker and to an ADC;
\* the line input and the speaker are pins without a register.
CONSTANTS dac, mic, line, pre, mix, amp, spk, gain, adc, s1, s2, s3
Codec == {dac, mic, line, pre, mix, amp, spk, gain, adc}
ButPins == Codec \ {line, spk}
ButAmp  == Codec \ {amp}
Path(a, b, s) == [source |-> a, sink |-> b, switch |-> s]
CodecPaths ==
    {Path(dac, mix, s1), Path(pre, mix, s2), Path(pre, gain, s3),
     Path(mic, pre, None), Path(line, pre, None), Path(mix, amp, None), Path(amp, spk, None), Path(gain, adc, None)}

\* Queues of a direction, and one that is not served.
TxQueue  == {<<"TX", "VIP">>}
RxQueues == {<<"RX", "VIP">>, <<"RX", "TCP_ACK">>}
TxVoice  == {<<"TX", "VO">>}

CONSTANTS d1, d2, d3, u1, u2, u3, t1, t2
OneRepeated == [d \in {d1, d2, d3} |-> IF d = d3 THEN 1 ELSE 0]
=============================================================================
