----------------------------- MODULE MCRecvPath -----------------------------
EXTENDS RecvPath

\* Lengths that are negative, zero, short of the frame, that of the next short
\* frame too, and that of a large one too.
MCLies == {<<3, -1>>, <<3, 0>>, <<3, 2>>, <<3, 6>>, <<3, 14>>}
=============================================================================
