------------------------- MODULE MC_NodeStateStorage -------------------------
EXTENDS NodeStateStorage, TLC

CONSTANTS w1, w2, rd1, rd2, k1, k2, b1, b2

\* Two readers so that two loads can race each other and a writer.
MCReaders == {rd1, rd2}

\* One reader: enough for a load to interleave with the writer and the storer.
MCReader == {rd1}
=============================================================================
