---------------------------- MODULE MCGlobalFifo ----------------------------
(* Small instances of the globalfifo driver for TLC.                       *)
EXTENDS GlobalFifoProps, TLC

CONSTANTS r1, r2, w1, w2, a, b, z

Call(op, n, d, w) == [op |-> op, nonblock |-> FALSE, count |-> n, data |-> d,
                      want |-> w]
ReadCalls  == {Call("read", n, <<>>, {}) : n \in {0, 1, 2}}
WriteCalls == {Call("write", 0, d, {}) : d \in {<<a>>, <<a, b>>, <<b, a, b>>}}
PollCalls  == {Call("poll", 0, <<>>, w) : w \in {{"in"}, {"out"}}}
OtherCalls == {Call(op, 0, <<>>, {}) : op \in {"clear", "badcmd"}}
MCCalls    == ReadCalls \cup WriteCalls \cup PollCalls \cup OtherCalls
FewCalls   == {Call("read", 1, <<>>, {}), Call("write", 0, <<a>>, {})}
                \cup PollCalls

\* One reader and one writer that use every operation.
TwoMay   == (r1 :> {"read", "poll", "badcmd"}) @@ (w1 :> {"write", "clear"})
\* Three processes that compete for the device, FIFO_CLEAR left out; w1
\* only writes, so that they cannot all wait for a byte nobody will write.
ThreeMay == (r1 :> {"read", "poll"}) @@ (r2 :> {"read"}) @@
            (w1 :> {"write"})
=============================================================================
