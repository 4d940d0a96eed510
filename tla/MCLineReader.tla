----------------------------- MODULE MCLineReader -----------------------------
EXTENDS LineReader
CONSTANT Longest  \* bytes of the longest stream
MCStreams == UNION {[1..n -> Byte] : n \in 0..Longest}
=============================================================================
