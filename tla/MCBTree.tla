------------------------------- MODULE MCBTree -------------------------------
EXTENDS BTree

\* Keys of a fixed-size column, which fill their slot.
FixedKeys == {<<1>>, <<2>>, <<3>>}
=============================================================================
