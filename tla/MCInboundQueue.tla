---------------------------- MODULE MCInboundQueue ----------------------------
(* Instances of InboundQueue for TLC.                                        *)
EXTENDS InboundQueue, TLC

CONSTANTS m1, m2, m3, k1, k2, j1

\* All messages belong to k1.
OneBucket == [m \in Msg |-> k1]
\* m1 and m3 belong to k1, the others to k2.
TwoBuckets == [m \in Msg |-> IF m \in {m1, m3} THEN k1 ELSE k2]

NoQuotes == [m \in Msg |-> NoQuote]
\* m2 quotes the answer to m1, which is of another bucket.
QuoteAcross == [m \in Msg |-> IF m = m2 THEN m1 ELSE NoQuote]

NoJobs == [j \in Job |-> k1]
=============================================================================
