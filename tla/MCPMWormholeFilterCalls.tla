----------------------- MODULE MCPMWormholeFilterCalls ---------------------
EXTENDS PMWormholeFilterCalls

\* Key h + HalfWord * t has low half h and high half t.  The homes are 4, the
\* last bucket, so that probing wraps, 0, for a low half beyond the number of
\* buckets, and 1.  With reach 2 insertions move two tags in turn, and others
\* fail after a move.  The first two keys share a fingerprint, one of them by
\* way of a high half of zero, and their reaches overlap.
MCKeys == {4, 5 + HalfWord, 1 + 2 * HalfWord}

=============================================================================
